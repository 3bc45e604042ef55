------------------------------ MODULE Recovery ------------------------------
(***************************************************************************)
(* One file's way through the container formats: it is sealed block by     *)
(* block, its stream travels as a whole or as four erasure-coded shards,   *)
(* is put together again and opened into a destination.  Another program   *)
(* may change the file while it is sealed, shards get lost or damaged, a   *)
(* stream arrives damaged, disks fill up and processes are killed.         *)
(*                                                                         *)
(* A header and a sealed block are one byte each of the stream, whose      *)
(* value stands for all they say: what they are for, and the data.  Every  *)
(* byte is masked, as encryption would, so that the erasure code meets     *)
(* every bit pattern in every place.                                       *)
(***************************************************************************)
EXTENDS Erasure, FiniteSets

CONSTANTS
  BlockSize, \* plain bytes sealed together
  MaxSize,   \* bound: bytes of the plain file, each of them 0 or 1
  Masks,     \* the masks a stream may have
  Budget     \* bound: changes of the file, failed writes, damages, kills

ASSUME RecoveryAssumption ==
  /\ BlockSize \in 1 .. 3 /\ MaxSize \in 0 .. 3 /\ Budget \in Nat
  /\ Masks \subseteq Byte

VARIABLES
  pc,      \* the step reached
  source,  \* the plain file
  header,  \* what the seal's header says: the size the file had
  mask,    \* the stream's salt
  stream,  \* the stream, as bytes
  shards,  \* the four shards, as bytes
  good,    \* shards that were fetched and match their recorded digest
  right,   \* whether the passphrase is the one it was sealed with
  index,   \* blocks opened so far
  dest,    \* what is at the destination
  out,     \* plain bytes written there
  left,    \* hazards that may still strike
  sealed,  \* history: the plain bytes that were sealed
  whole,   \* history: the stream as it was sealed
  cut,     \* history: whether the joined stream was closed without its last write
  why      \* history: what an attempt failed for

vars == <<pc, source, header, mask, stream, shards, good, right, index, dest, out, left,
          sealed, whole, cut, why>>

Plain(n)      == UNION {[1 .. k -> {0, 1}] : k \in 0 .. n}
BlockCount(n) == (n + BlockSize - 1) \div BlockSize
Smaller(a, b) == IF a < b THEN a ELSE b
BlockLen(n, i) == Smaller(BlockSize, n - i * BlockSize)

\* A block is bound to its header and its place by what it is authenticated with.
Header(n)       == [size |-> n, index |-> -1, data |-> <<>>]
Block(n, i, d)  == [size |-> n, index |-> i, data |-> d]
Units == {Header(n) : n \in 0 .. MaxSize} \cup
         UNION {UNION {{Block(n, i, d) : d \in [1 .. BlockLen(n, i) -> {0, 1}]} :
                       i \in 0 .. BlockCount(n) - 1} : n \in 1 .. MaxSize}

\* Sizes and places are below four and take two bits.
BitsOf(k) == {i \in {0, 1} : (k \div (i + 1)) % 2 = 1}
Coded(u) ==
  BitsOf(u.size) \cup
  (IF u.index = -1 THEN {7}
   ELSE {i + 2 : i \in BitsOf(u.index)} \cup {3 + k : k \in {j \in DOMAIN u.data : u.data[j] = 1}})
Noise      == [size |-> -1, index |-> -1, data |-> <<>>]
UnitOf(b)  == LET fits == {u \in Units : Xor(Coded(u), mask) = b}
              IN IF fits = {} THEN Noise ELSE CHOOSE u \in fits : TRUE
Masked(u)  == Xor(Coded(u), mask)

Init ==
  /\ pc = "start" /\ source \in Plain(MaxSize) /\ mask \in Masks
  /\ header = 0 /\ stream = <<>> /\ shards = <<>> /\ good = {} /\ right \in BOOLEAN
  /\ index = 0 /\ dest \in {"absent", "old"} /\ out = <<>> /\ left = Budget
  /\ sealed = <<>> /\ whole = <<>> /\ cut = FALSE /\ why = "none"

Strikes == left > 0 /\ left' = left - 1
Ends(at, reason) == pc' = at /\ why' = reason

(* Sealing. *)

BeginSeal ==
  /\ pc = "start" /\ pc' = "seal"
  /\ header' = Len(source) /\ stream' = <<Masked(Header(Len(source)))>>
  /\ UNCHANGED <<source, mask, shards, good, right, index, dest, out, left, sealed, whole, cut,
                 why>>

\* Another program writes to the file.
Change ==
  /\ pc \in {"start", "seal"} /\ Strikes
  /\ source' \in Plain(MaxSize) \ {source}
  /\ UNCHANGED <<pc, header, mask, stream, shards, good, right, index, dest, out, sealed,
                 whole, cut, why>>

\* A file that has become shorter than its header says is not sealed at all.
SealBlock ==
  /\ pc = "seal" /\ Len(sealed) < header
  /\ LET want == BlockLen(header, Len(stream) - 1)
         from == Len(sealed) + 1
         data == SubSeq(source, from, from + want - 1) IN
     \/ /\ Len(source) < from + want - 1 /\ left' = left
        /\ Ends("failed", "source") /\ UNCHANGED <<stream, sealed>>
     \/ /\ Len(source) >= from + want - 1 /\ left' = left
        /\ stream' = Append(stream, Masked(Block(header, Len(stream) - 1, data)))
        /\ sealed' = sealed \o data /\ UNCHANGED <<pc, why>>
     \/ Strikes /\ Ends("failed", "disk") /\ UNCHANGED <<stream, sealed>>
  /\ UNCHANGED <<source, header, mask, shards, good, right, index, dest, out, whole, cut>>

EndSeal ==
  /\ pc = "seal" /\ Len(sealed) = header
  /\ pc' = "sealed" /\ whole' = stream
  /\ UNCHANGED <<source, header, mask, stream, shards, good, right, index, dest, out, left,
                 sealed, cut, why>>

(* Through peers: split into shards, fetched, checked and joined. *)

Half(n) == (n + 1) \div 2
\* Reading beyond the end yields zeroes, which make both halves equally long.
Padded(s, k) == IF k <= Len(s) THEN s[k] ELSE {}

SplitStream ==
  /\ pc = "sealed"
  /\ LET half == Half(Len(stream)) IN
     \/ /\ pc' = "shards" /\ why' = why /\ left' = left
        /\ shards' = [i \in 1 .. 4 |->
             [k \in 1 .. half |-> Encoded(Padded(stream, k), Padded(stream, half + k))[i]]]
     \/ Strikes /\ Ends("failed", "disk") /\ UNCHANGED shards
  /\ UNCHANGED <<source, header, mask, stream, good, right, index, dest, out, sealed, whole, cut>>

\* Some peers answer with the shard they were given; the rest do not, or their copy no
\* longer has the digest on record and is discarded.
FetchShards ==
  /\ pc = "shards"
  /\ good' \in SUBSET (1 .. 4)
  /\ IF Cardinality(good') < 2 THEN Ends("failed", "shards") ELSE pc' = "join" /\ why' = why
  /\ UNCHANGED <<source, header, mask, stream, shards, right, index, dest, out, left, sealed,
                 whole, cut>>

\* A block of zeroes, which no seal contains: of its own value, as the one-byte masks would
\* let it pass for a block and the cipher does not.
Zeroes == {8}
Cut(s, k) == [i \in 1 .. Len(s) |-> IF i <= k THEN s[i] ELSE Zeroes]

\* Both halves are written from their ends inward and the padding is cut off.  Reading,
\* writing or trimming may fail, and what is still buffered when the stream is closed, some
\* of the second half, may not reach the disk: nobody looks, and trimming fills up with zeroes.
JoinShards ==
  /\ pc = "join"
  /\ LET pair  == ChoosePair(good)
         half  == Len(shards[1])
         data  == [k \in 1 .. half |-> Reconstruct(pair, shards[pair[1]][k], shards[pair[2]][k])]
         joined == SubSeq([k \in 1 .. half |-> data[k][1]] \o [k \in 1 .. half |-> data[k][2]],
                          1, Len(whole))
     IN \/ /\ pc' = "stream" /\ stream' = joined /\ UNCHANGED <<left, cut, why>>
        \/ Strikes /\ Ends("failed", "disk") /\ UNCHANGED <<stream, cut>>
        \/ /\ Strikes /\ pc' = "stream" /\ cut' = TRUE /\ why' = why
           /\ \E k \in half .. Len(whole) - 1 : stream' = Cut(joined, k)
  /\ UNCHANGED <<source, header, mask, shards, good, right, index, dest, out, sealed, whole>>

(* Through the server: as it is, or cut short, out of order, with parts twice or altered. *)

Damaged(s) ==
  {SubSeq(s, 1, k) : k \in 0 .. Len(s) - 1}
    \cup {[s EXCEPT ![i] = s[j], ![j] = s[i]] : i \in 2 .. Len(s), j \in 2 .. Len(s)}
    \cup {[s EXCEPT ![i] = s[j]] : i \in 2 .. Len(s), j \in 2 .. Len(s)}
    \cup {[s EXCEPT ![1] = Masked(Header(n))] : n \in 0 .. MaxSize}

Transfer ==
  /\ pc = "sealed" /\ pc' = "stream"
  /\ \/ stream' = stream /\ left' = left
     \/ Strikes /\ stream' \in Damaged(stream)
  /\ UNCHANGED <<source, header, mask, shards, good, right, index, dest, out, sealed, whole, cut,
                 why>>

(* Opening. *)

\* The destination is emptied once the header has been read.
BeginOpen ==
  /\ pc = "stream"
  /\ IF stream = <<>> \/ UnitOf(stream[1]).index # -1
     THEN Ends("failed", "stream") /\ UNCHANGED <<header, dest, left>>
     ELSE \/ /\ pc' = "open" /\ UNCHANGED <<why, left>>
             /\ header' = UnitOf(stream[1]).size /\ dest' = "partial"
          \/ Strikes /\ Ends("failed", "disk") /\ UNCHANGED <<header, dest>>
  /\ UNCHANGED <<source, mask, stream, shards, good, right, index, out, sealed, whole, cut>>

\* Mutation of Authentic: a block is not bound to its place.
AuthenticUnplaced(u) == right /\ u # Noise /\ u.size = header /\ u.index # -1
\* A block opens under its own header, in its own place and with its own passphrase.
Authentic(u) == right /\ u # Noise /\ u.size = header /\ u.index = index

\* Mutation of GivesUp: the partial file stays.
LeftBehind(reason) == Ends("failed", reason) /\ dest' = dest
GivesUp(reason)    == Ends("failed", reason) /\ dest' = "absent"

OpenBlock ==
  /\ pc = "open" /\ index < BlockCount(header)
  /\ LET there == index + 2 <= Len(stream)
         u     == UnitOf(stream[index + 2]) IN
     \/ there /\ Authentic(u) /\ left' = left
          /\ out' = out \o u.data /\ index' = index + 1 /\ UNCHANGED <<pc, dest, why>>
     \/ (there => ~Authentic(u)) /\ left' = left
          /\ GivesUp("stream") /\ UNCHANGED <<out, index>>
     \/ \* the disk is full
        there /\ Strikes /\ GivesUp("disk") /\ UNCHANGED <<out, index>>
  /\ UNCHANGED <<source, header, mask, stream, shards, good, right, sealed, whole, cut>>

\* What is still buffered when the file is closed may not reach the disk: nobody looks.
EndOpen ==
  /\ pc = "open" /\ index = BlockCount(header)
  /\ \/ Len(out) = header /\ Ends("done", why) /\ dest' = "whole" /\ UNCHANGED <<out, left>>
     \/ Len(out) # header /\ GivesUp("stream") /\ UNCHANGED <<out, left>>
     \/ /\ Len(out) = header /\ out # <<>> /\ Strikes
        /\ Ends("done", "disk") /\ dest' = "whole" /\ out' = SubSeq(out, 1, Len(out) - 1)
  /\ UNCHANGED <<source, header, mask, stream, shards, good, right, index, sealed, whole, cut>>

Kill ==
  /\ pc \notin {"done", "failed", "killed"} /\ Strikes /\ pc' = "killed"
  /\ UNCHANGED <<source, header, mask, stream, shards, good, right, index, dest, out, sealed,
                 whole, cut, why>>

Next == \/ BeginSeal \/ Change \/ SealBlock \/ EndSeal
        \/ SplitStream \/ FetchShards \/ JoinShards \/ Transfer
        \/ BeginOpen \/ OpenBlock \/ EndOpen \/ Kill

Spec == Init /\ [][Next]_vars

-----------------------------------------------------------------------------
\* A file that opens is exactly what was sealed, whatever happened to the stream in between:
\* unless the last write of it was lost when it was closed, or its header was damaged to
\* announce an empty file, which has no block to be authenticated (open_file).
Emptied   == header = 0 /\ stream[1] # whole[1]
RoundTrip == dest = "whole" /\ why # "disk" => out = sealed \/ Emptied

\* Only a hazard that struck, a wrong passphrase or fewer than two intact shards keep a file
\* from being recovered: the file became shorter while it was sealed, a disk failed, the stream
\* the server returned is damaged, or the joined one was closed without its last write.  Every
\* pair of shards gives every stream back, of odd length and of even (join_shards, reconstruct,
\* rebuild_stream).
RecoveredUnlessLost ==
  pc = "failed" =>
    \/ why \in {"source", "disk"} /\ left < Budget
    \/ why = "shards" /\ Cardinality(good) < 2
    \/ why = "stream" /\ (right => stream # whole /\ left < Budget /\ (good = {} \/ cut))

\* An attempt that fails leaves no part of a file behind: the destination is as it was, or
\* gone (open_file).
NoHalfFile == pc = "failed" => dest \in {"old", "absent"}
=============================================================================

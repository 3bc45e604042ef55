------------------------------- MODULE Relay -------------------------------
(***************************************************************************)
(* The client's store-and-forward path: an upload goes straight to the     *)
(* server when it answers a probe and is otherwise split into shards on    *)
(* peers with a pending record (the manifest) left in the workspace; a     *)
(* sync pass rebuilds what is pending from the peers, hands it to the      *)
(* server, releases the shards and removes the record.                     *)
(*                                                                         *)
(* Several client processes share one workspace and one server: an upload  *)
(* typed by hand, a running autosync, a running watch.  A process is a     *)
(* "worker"; each request it sends is one step, so every interleaving of   *)
(* requests is explored, with lost replies, dropped transfers, outages,    *)
(* damaged or lost chunks, failed disk writes, peers that stay silent,     *)
(* dedup tags the server fails to write, and killed processes.             *)
(*                                                                         *)
(* A sealed stream is named by its seal, the number of the seal_file call  *)
(* that made it: every call draws a fresh salt, so no two streams are      *)
(* equal, while two seals of the same content carry the same dedup tag.    *)
(***************************************************************************)
EXTENDS Integers, Sequences, FiniteSets

CONSTANTS
  Names,         \* stored file names
  Tags,          \* contents of a file, told apart by their dedup tag
  NoTag,         \* what STAT shows of a file whose tag is missing
  Uploaders,     \* processes that upload and delete (upload, delete, watch)
  Syncers,       \* processes that forward what is pending (sync, autosync, watch)
  DataShards,    \* shards that suffice to rebuild a stream (kDataShards)
  ParityShards,  \* shards beyond those (kParityShards)
  MaxSeals,      \* bound: seal_file calls in one behaviour
  Budget         \* bound: how often each hazard may strike

Workers == Uploaders \cup Syncers
Indices == 0 .. (DataShards + ParityShards - 1)
Seals   == 1 .. MaxSeals
Hazards == {"outage", "fault", "disk", "damage", "crash", "delete", "untagged", "silence"}

ASSUME NamesAssumption == Names # {} /\ NoTag \notin Tags

ASSUME SizesAssumption ==
  /\ DataShards \in Nat \ {0}
  /\ ParityShards \in Nat
  /\ MaxSeals \in Nat
  /\ Budget \in [Hazards -> Nat]

VARIABLES
  serverUp,  \* whether the server can be reached
  server,    \* name -> the stream stored for it (seal 0: no such file) and its tag
  late,      \* complete PUTFILEs whose client no longer waits for the reply
  chunk,     \* (seal, index) -> what the shard's peer holds for it
  manifest,  \* name -> the pending record in the workspace
  job,       \* worker -> the command it is in the middle of
  sealed,    \* seal -> name and tag of the file that was sealed
  held,      \* history: seals whose content the server held since they were made
  mistaken,  \* history: contents the server's tag has stood for without their stream
  acked,     \* history: names an upload reported stored, and not deleted since
  left       \* hazards that may still strike

history == <<held, mistaken>>

vars == <<serverUp, server, late, chunk, manifest, job, sealed, held, mistaken, acked, left>>

\* A rebuilt stream is whole, is cut short (its last block never written), or is
\* mixed from shards that do not belong together.
Bodies    == {"whole", "cut", "mixed"}
Versions  == [name : Names, tag : Tags]
Streams   == [seal : 0 .. MaxSeals, body : Bodies, tag : Tags \cup {NoTag}]
Requests  == [name : Names, seal : Seals, body : Bodies]
ChunkState == {"absent", "intact", "damaged", "lost", "released"}
Records   == [state : {"none", "torn", "full"}, seal : 0 .. MaxSeals,
              refs : SUBSET Indices]
Labels    == {"idle", "probe", "stat", "put", "place",
              "fetch", "check", "forward", "release", "hung"}
Jobs      == [pc : Labels, name : Names, seal : 0 .. MaxSeals, body : Bodies,
              refs : SUBSET Indices, todo : SUBSET Indices,
              usable : SUBSET (Indices \X ChunkState)]

NoFile   == [seal |-> 0, body |-> "whole", tag |-> NoTag]
NoRecord == [state |-> "none", seal |-> 0, refs |-> {}]
Idle     == [pc |-> "idle", name |-> CHOOSE n \in Names : TRUE, seal |-> 0,
             body |-> "whole", refs |-> {}, todo |-> {}, usable |-> {}]

Stuck    == [Idle EXCEPT !.pc = "hung"]

Init ==
  /\ serverUp = TRUE
  /\ server = [n \in Names |-> NoFile]
  /\ late = {}
  /\ chunk = [c \in Seals \X Indices |-> "absent"]
  /\ manifest = [n \in Names |-> NoRecord]
  /\ job = [w \in Workers |-> Idle]
  /\ sealed = <<>>
  /\ held = {}
  /\ mistaken = {}
  /\ acked = {}
  /\ left = Budget

-----------------------------------------------------------------------------
(* Helpers *)

Spend(hazard) ==
  /\ left[hazard] > 0
  /\ left' = [left EXCEPT ![hazard] = @ - 1]

\* The command is over: the process exits, or its loop turns to the next file.
End(w) == job' = [job EXCEPT ![w] = Idle]

\* The placement loop runs over every shard.
EveryShard == Indices

\* The shards are visited in index order.
IsNext(w, i) == i \in job[w].todo /\ \A j \in job[w].todo : i <= j

Sent(w) == [name |-> job[w].name, seal |-> job[w].seal, body |-> job[w].body]

\* Mutation of Identical: any file of that name counts as the same content.
IdenticalByName(w) == server[job[w].name].seal # 0

\* The server's STAT reply, read from the tag's own file, shows the tag of what
\* this worker would send.
Identical(w) ==
  LET there == server[job[w].name]
  IN  there.seal # 0 /\ there.tag = sealed[job[w].seal].tag

\* The server has the whole stream of this content.
Fits(there, version) ==
  there.seal # 0 /\ there.body = "whole" /\ sealed[there.seal] = version

\* do_put_file replaces whatever the name held, then the tag in the file beside
\* it; when that write fails, or the server stops first, the old tag stays or
\* an empty one is left, and the reply is OK all the same.
Store(request) ==
  LET version == sealed[request.seal]
  IN
  \E t \in {version.tag, server[request.name].tag, NoTag} :
    /\ IF t = version.tag THEN UNCHANGED left ELSE Spend("untagged")
    /\ server' = [server EXCEPT ![request.name] =
                    [seal |-> request.seal, body |-> request.body, tag |-> t]]
    /\ held' = held \cup {s \in 1 .. Len(sealed) :
                            request.body = "whole" /\ sealed[s] = version}
    /\ mistaken' = mistaken \cup
         {v \in Versions : /\ v.name = request.name /\ v.tag \in {t, version.tag}
                           /\ request.body # "whole" \/ v # version}

\* A PUTFILE whose reply never arrives: the transfer broke off, and the
\* server dropped it, or the body was complete and a thread will store it.
AbandonPut(w) == late' \in {late, late \cup {Sent(w)}}

-----------------------------------------------------------------------------
(* upload: seal, probe, then the server or the peers *)

\* upload_with_passphrase up to the sealed stream in the work directory.
SealUpload(w, n, t) ==
  /\ job[w].pc = "idle"
  /\ Len(sealed) < MaxSeals
  /\ sealed' = Append(sealed, [name |-> n, tag |-> t])
  /\ job' = [job EXCEPT ![w] =
               [Idle EXCEPT !.pc = "probe", !.name = n, !.seal = Len(sealed) + 1]]
  /\ held' = IF Fits(server[n], [name |-> n, tag |-> t])
               THEN held \cup {Len(sealed) + 1} ELSE held
  /\ UNCHANGED <<serverUp, server, late, chunk, manifest, mistaken, acked, left>>

ProbeAnswered(w) ==
  /\ job[w].pc = "probe"
  /\ serverUp
  /\ job' = [job EXCEPT ![w].pc = "stat"]
  /\ UNCHANGED <<serverUp, server, late, chunk, manifest, sealed, history, acked, left>>

\* No answer: fall back on the peers, or give up when four are not named.
ProbeUnanswered(w) ==
  /\ job[w].pc = "probe"
  /\ \/ ~serverUp /\ UNCHANGED left
     \/ Spend("fault")
  /\ \/ job' = [job EXCEPT ![w].pc = "place", ![w].todo = EveryShard]
     \/ End(w)
  /\ UNCHANGED <<serverUp, server, late, chunk, manifest, sealed, history, acked>>

\* upload_to_server: connect, then STAT.
UploadStat(w) ==
  /\ job[w].pc = "stat"
  /\ \/ /\ serverUp /\ Identical(w)
        /\ End(w)
        /\ acked' = acked \cup {job[w].name}
        /\ UNCHANGED left
     \/ /\ serverUp /\ ~Identical(w)
        /\ job' = [job EXCEPT ![w].pc = "put"]
        /\ UNCHANGED <<acked, left>>
     \/ /\ ~serverUp
        /\ End(w)
        /\ UNCHANGED <<acked, left>>
     \/ /\ Spend("fault")
        /\ End(w)
        /\ UNCHANGED acked
  /\ UNCHANGED <<serverUp, server, late, chunk, manifest, sealed, history>>

UploadPut(w) ==
  /\ job[w].pc = "put"
  /\ Store(Sent(w))
  /\ acked' = acked \cup {job[w].name}
  /\ End(w)
  /\ UNCHANGED <<serverUp, late, chunk, manifest, sealed>>

\* Mutation of PutFails: the forwarding goes on as if the reply had been OK.
PutFailsUnnoticed(w) ==
  /\ job[w].pc \in {"put", "forward"}
  /\ Spend("fault")
  /\ AbandonPut(w)
  /\ IF job[w].pc = "put"
       THEN End(w)
       ELSE job' = [job EXCEPT ![w].pc = "release", ![w].todo = job[w].refs]
  /\ UNCHANGED <<serverUp, server, chunk, manifest, sealed, history, acked>>

\* Both the upload and the forwarding of a pending file give up.
PutFails(w) ==
  /\ job[w].pc \in {"put", "forward"}
  /\ Spend("fault")
  /\ AbandonPut(w)
  /\ End(w)
  /\ UNCHANGED <<serverUp, server, chunk, manifest, sealed, history, acked>>

\* The body of an abandoned PUTFILE was complete: its session stores it now.
LateStore(request) ==
  /\ Store(request)
  /\ late' = late \ {request}
  /\ UNCHANGED <<serverUp, chunk, manifest, job, sealed, acked>>

\* distribute_to_peers, one shard: PUTCHUNK accepted and noted in the record,
\* or the peer is unreachable, or it stored the chunk and the reply was lost.
Place(w) ==
  /\ job[w].pc = "place"
  /\ \E i \in Indices :
       LET c == <<job[w].seal, i>>
           rest == job[w].todo \ {i}
       IN
       /\ IsNext(w, i)
       /\ \/ /\ chunk' = [chunk EXCEPT ![c] = "intact"]
             /\ job' = [job EXCEPT ![w].todo = rest, ![w].refs = @ \cup {i}]
             /\ UNCHANGED left
          \/ /\ Spend("fault")
             /\ chunk' \in {chunk, [chunk EXCEPT ![c] = "intact"]}
             /\ job' = [job EXCEPT ![w].todo = rest]
  /\ UNCHANGED <<serverUp, server, late, manifest, sealed, history, acked>>

\* Fewer shards than the threshold: nothing is recorded.
TooFewPlaced(w) ==
  /\ job[w].pc = "place"
  /\ job[w].todo = {}
  /\ Cardinality(job[w].refs) < DataShards
  /\ End(w)
  /\ UNCHANGED <<serverUp, server, late, chunk, manifest, sealed, history, acked, left>>

\* Mutation of ReadyToRecord: the number of placed shards is not looked at.
ReadyWithAnyShards(w) ==
  /\ job[w].pc = "place"
  /\ job[w].todo = {}

ReadyToRecord(w) ==
  /\ job[w].pc = "place"
  /\ job[w].todo = {}
  /\ Cardinality(job[w].refs) >= DataShards

\* The record of this name, if there is one, is overwritten.
RecordPending(w) ==
  /\ ReadyToRecord(w)
  /\ manifest' = [manifest EXCEPT ![job[w].name] =
                    [state |-> "full", seal |-> job[w].seal, refs |-> job[w].refs]]
  /\ acked' = acked \cup {job[w].name}
  /\ End(w)
  /\ UNCHANGED <<serverUp, server, late, chunk, sealed, history, left>>

\* Manifest::write truncates the old record first: a write that fails, or a
\* process killed before the flush, leaves a file no sync pass can read.
TearRecord(w) ==
  /\ ReadyToRecord(w)
  /\ \/ Spend("disk")
     \/ Spend("crash")
  /\ manifest' = [manifest EXCEPT ![job[w].name] =
                    [state |-> "torn", seal |-> 0, refs |-> {}]]
  /\ End(w)
  /\ UNCHANGED <<serverUp, server, late, chunk, sealed, history, acked>>

-----------------------------------------------------------------------------
(* sync: rebuild from the peers, forward, release, forget *)

\* One turn of sync_once: the record is readable and its server answers.  An
\* unreadable record and a server still offline are skipped and change nothing.
BeginSync(w, n) ==
  /\ job[w].pc = "idle"
  /\ manifest[n].state = "full"
  /\ serverUp
  /\ job' = [job EXCEPT ![w] =
               [Idle EXCEPT !.pc = "fetch", !.name = n, !.seal = manifest[n].seal,
                            !.refs = manifest[n].refs, !.todo = manifest[n].refs]]
  /\ UNCHANGED <<serverUp, server, late, chunk, manifest, sealed, history, acked, left>>

\* Mutation of Verified: whatever the peer returns is taken for the shard.
VerifiedIfPresent(state) == state \in {"intact", "damaged"}

\* The chunk that came back hashes to the id the record names.
Verified(state) == state = "intact"

\* rebuild_stream, one shard: kept if it verifies; missing, unreachable and
\* corrupted shards are passed over.
Fetch(w) ==
  /\ job[w].pc = "fetch"
  /\ \E i \in Indices :
       LET state == chunk[<<job[w].seal, i>>]
           rest == job[w].todo \ {i}
       IN
       /\ IsNext(w, i)
       /\ \/ /\ Verified(state)
             /\ job' = [job EXCEPT ![w].todo = rest,
                                   ![w].usable = @ \cup {<<i, state>>}]
             /\ UNCHANGED left
          \/ /\ ~Verified(state)
             /\ job' = [job EXCEPT ![w].todo = rest]
             /\ UNCHANGED left
          \/ /\ Spend("fault")
             /\ job' = [job EXCEPT ![w].todo = rest]
  /\ UNCHANGED <<serverUp, server, late, chunk, manifest, sealed, history, acked>>

\* Mutation of Rebuild: with too few shards the command keeps waiting for more.
RebuildWaits(w) ==
  /\ job[w].pc = "fetch"
  /\ job[w].todo = {}
  /\ Cardinality(job[w].usable) >= DataShards
  /\ job' = [job EXCEPT ![w].pc = "check", ![w].usable = {}]
  /\ UNCHANGED <<serverUp, server, late, chunk, manifest, sealed, history, acked, left>>

\* Any DataShards intact shards give the stream back; a damaged one spoils it.
\* join_shards fails on a disk that is full, or finds nothing wrong when only the
\* last write, the one of close(), is lost: the stream is trimmed to its length.
Rebuild(w) ==
  LET Checked(body) ==
        job' = [job EXCEPT ![w].pc = "check", ![w].usable = {}, ![w].body = body]
      sound == \A piece \in job[w].usable : piece[2] = "intact"
  IN
  /\ job[w].pc = "fetch"
  /\ job[w].todo = {}
  /\ \/ /\ Cardinality(job[w].usable) < DataShards
        /\ End(w)
        /\ UNCHANGED left
     \/ /\ Cardinality(job[w].usable) >= DataShards
        /\ Checked(IF sound THEN "whole" ELSE "mixed")
        /\ UNCHANGED left
     \/ /\ Cardinality(job[w].usable) >= DataShards
        /\ Spend("disk")
        /\ End(w) \/ Checked(IF sound THEN "cut" ELSE "mixed")
  /\ UNCHANGED <<serverUp, server, late, chunk, manifest, sealed, history, acked>>

\* Mutation of SyncStat: a STAT that gets no answer counts as a match.
SyncStatTrusting(w) ==
  /\ job[w].pc = "check"
  /\ \/ /\ ~serverUp \/ Identical(w)
        /\ job' = [job EXCEPT ![w].pc = "release", ![w].todo = job[w].refs]
        /\ UNCHANGED left
     \/ /\ serverUp /\ ~Identical(w)
        /\ job' = [job EXCEPT ![w].pc = "forward"]
        /\ UNCHANGED left
     \/ /\ Spend("fault")
        /\ job' = [job EXCEPT ![w].pc = "release", ![w].todo = job[w].refs]
  /\ UNCHANGED <<serverUp, server, late, chunk, manifest, sealed, history, acked>>

\* sync_one connects and asks STAT: identical content needs no transfer.
SyncStat(w) ==
  /\ job[w].pc = "check"
  /\ \/ /\ serverUp /\ Identical(w)
        /\ job' = [job EXCEPT ![w].pc = "release", ![w].todo = job[w].refs]
        /\ UNCHANGED left
     \/ /\ serverUp /\ ~Identical(w)
        /\ job' = [job EXCEPT ![w].pc = "forward"]
        /\ UNCHANGED left
     \/ /\ ~serverUp
        /\ End(w)
        /\ UNCHANGED left
     \/ /\ Spend("fault")
        /\ End(w)
  /\ UNCHANGED <<serverUp, server, late, chunk, manifest, sealed, history, acked>>

Forward(w) ==
  /\ job[w].pc = "forward"
  /\ Store(Sent(w))
  /\ job' = [job EXCEPT ![w].pc = "release", ![w].todo = job[w].refs]
  /\ UNCHANGED <<serverUp, late, chunk, manifest, sealed, acked>>

\* release_shards, one shard: best effort, a failure leaves the chunk behind.
Release(w) ==
  /\ job[w].pc = "release"
  /\ \E i \in Indices :
       LET c == <<job[w].seal, i>>
       IN
       /\ IsNext(w, i)
       /\ job' = [job EXCEPT ![w].todo = @ \ {i}]
       /\ \/ /\ chunk' = [chunk EXCEPT ![c] =
                            IF @ \in {"intact", "damaged"} THEN "released" ELSE @]
             /\ UNCHANGED left
          \/ /\ Spend("fault")
             /\ UNCHANGED chunk
  /\ UNCHANGED <<serverUp, server, late, manifest, sealed, history, acked>>

\* Mutation of RemoveRecord: the command ends and the record stays.
RemoveRecordForgotten(w) ==
  /\ job[w].pc = "release"
  /\ job[w].todo = {}
  /\ End(w)
  /\ UNCHANGED <<serverUp, server, late, chunk, manifest, sealed, history, acked, left>>

\* fs::remove takes away whatever record the name has by now.
RemoveRecord(w) ==
  /\ job[w].pc = "release"
  /\ job[w].todo = {}
  /\ manifest' = [manifest EXCEPT ![job[w].name] = NoRecord]
  /\ End(w)
  /\ UNCHANGED <<serverUp, server, late, chunk, sealed, history, acked, left>>

-----------------------------------------------------------------------------
(* delete *)

\* cmd_delete asks the server only: a pending record of the name stays.  When
\* the server has no such file the command says so and changes nothing.  The
\* server removes the file, then the tag beside it, which may be left behind.
Delete(w, n) ==
  /\ job[w].pc = "idle"
  /\ serverUp
  /\ server[n].seal # 0
  /\ Spend("delete")
  /\ server' \in {[server EXCEPT ![n] = NoFile],
                  [server EXCEPT ![n] = [NoFile EXCEPT !.tag = server[n].tag]]}
  /\ acked' = acked \ {n}
  /\ UNCHANGED <<serverUp, late, chunk, manifest, job, sealed, history>>

-----------------------------------------------------------------------------
(* What happens to the processes and machines *)

\* A killed process loses its place; what it had sent completely may be stored.
Crash(w) ==
  /\ job[w].pc # "idle"
  /\ Spend("crash")
  /\ IF job[w].pc \in {"put", "forward"} THEN AbandonPut(w) ELSE UNCHANGED late
  /\ End(w)
  /\ UNCHANGED <<serverUp, server, chunk, manifest, sealed, history, acked>>

\* No read of the program has a time limit: a server or a peer that takes the
\* connection and stays silent keeps the command, its upload half sent or not.
Hang(w) ==
  /\ job[w].pc \notin {"idle", "hung"}
  /\ Spend("silence")
  /\ IF job[w].pc \in {"put", "forward"} THEN AbandonPut(w) ELSE UNCHANGED late
  /\ job' = [job EXCEPT ![w] = Stuck]
  /\ UNCHANGED <<serverUp, server, chunk, manifest, sealed, history, acked>>

\* An outage breaks every connection; bodies already complete may be stored.
ServerDown ==
  LET cut == {w \in Workers : job[w].pc \in {"put", "forward"}}
  IN
  /\ serverUp
  /\ Spend("outage")
  /\ serverUp' = FALSE
  /\ late' \in SUBSET (late \cup {Sent(w) : w \in cut})
  /\ job' = [w \in Workers |-> IF w \in cut THEN Idle ELSE job[w]]
  /\ UNCHANGED <<server, chunk, manifest, sealed, history, acked>>

ServerReturns ==
  /\ ~serverUp
  /\ serverUp' = TRUE
  /\ UNCHANGED <<server, late, chunk, manifest, job, sealed, history, acked, left>>

\* A peer corrupts or loses a chunk it was given.
Damage(c) ==
  /\ chunk[c] = "intact"
  /\ Spend("damage")
  /\ chunk' \in {[chunk EXCEPT ![c] = "damaged"], [chunk EXCEPT ![c] = "lost"]}
  /\ UNCHANGED <<serverUp, server, late, manifest, job, sealed, history, acked>>

-----------------------------------------------------------------------------
\* What a process in the middle of a command does next.
Proceed(w) ==
  \/ ProbeAnswered(w) \/ ProbeUnanswered(w)
  \/ UploadStat(w) \/ UploadPut(w) \/ PutFails(w)
  \/ Place(w) \/ TooFewPlaced(w) \/ RecordPending(w) \/ TearRecord(w)
  \/ Fetch(w) \/ Rebuild(w) \/ SyncStat(w) \/ Forward(w)
  \/ Release(w) \/ RemoveRecord(w)

Next ==
  \/ \E w \in Uploaders, n \in Names, t \in Tags : SealUpload(w, n, t)
  \/ \E w \in Uploaders, n \in Names : Delete(w, n)
  \/ \E w \in Syncers, n \in Names : BeginSync(w, n)
  \/ \E w \in Workers : Proceed(w) \/ Crash(w) \/ Hang(w)
  \/ \E request \in late : LateStore(request)
  \/ \E c \in Seals \X Indices : Damage(c)
  \/ ServerDown \/ ServerReturns

Spec == Init /\ [][Next]_vars

\* A process that runs is scheduled, the server comes back, and autosync and
\* watch visit every record in each pass, so a record a pass finds forwardable
\* again and again is taken up.
Fairness ==
  /\ WF_vars(ServerReturns)
  /\ \A w \in Workers : WF_vars(Proceed(w))
  /\ \A w \in Syncers, n \in Names : SF_vars(BeginSync(w, n))

FairSpec == Spec /\ Fairness

-----------------------------------------------------------------------------
(* Properties *)

\* Every variable keeps its type; the stream counter stays inside its bound
\* and a loop over the shards never leaves the four there are.
TypeOK ==
  /\ serverUp \in BOOLEAN
  /\ server \in [Names -> Streams]
  /\ late \subseteq Requests
  /\ chunk \in [Seals \X Indices -> ChunkState]
  /\ manifest \in [Names -> Records]
  /\ job \in [Workers -> Jobs]
  /\ sealed \in Seq(Versions) /\ Len(sealed) \in 0 .. MaxSeals
  /\ held \subseteq Seals
  /\ mistaken \subseteq Versions
  /\ acked \subseteq Names
  /\ left \in [Hazards -> Nat]

\* The server has held the content of this seal since it was made, or has taken
\* something else for it: a tag of its own it could not write (session.cpp:265),
\* or a stream whose last block was lost when it was rebuilt (shardfile.cpp:164).
Settled(s) == s \in held \/ (s \in 1 .. Len(sealed) /\ sealed[s] \in mistaken)

\* Shards are only given up once the server has held the same content at some
\* moment since the stream was sealed, whoever put it there (sync.cpp:56-79:
\* release_shards runs after a matching STAT or a PUT that was acknowledged), or
\* has taken other content for it.
ReleasedOnlyAfterHeld ==
  \A c \in Seals \X Indices : chunk[c] = "released" => Settled(c[1])

\* What the server stores for a name was sealed for that name, no stream was
\* rebuilt from a corrupted shard (recover.cpp:56-61), and one is cut short only
\* when a disk was full while it was rebuilt.
ServerHoldsWholeStreams ==
  \A n \in Names : server[n].seal # 0 =>
    /\ server[n].body # "mixed"
    /\ server[n].body = "cut" => left["disk"] < Budget["disk"]
    /\ server[n].seal <= Len(sealed)
    /\ sealed[server[n].seal].name = n

Ruined(record) ==
  {i \in record.refs : chunk[<<record.seal, i>>] \in {"damaged", "lost"}}

\* A record names enough shards that the client placed and has not released;
\* those the peers damaged or lost are not the client's doing.
Recoverable(record) ==
  /\ record.state = "full"
  /\ Cardinality({i \in record.refs :
                    chunk[<<record.seal, i>>] \in {"intact", "damaged", "lost"}})
       >= DataShards

\* A record is no false promise (upload.cpp:135-142): until the server holds the
\* content, or has something it takes for it, only the peers can bring a pending
\* file below the number of shards it can be rebuilt from.
PendingIsRecoverable ==
  \A n \in Names :
    manifest[n].state = "full" /\ ~Settled(manifest[n].seal) => Recoverable(manifest[n])

\* Once an upload of a name has reported success, and while no name has been
\* deleted, the server has a file of that name or the pending record can be
\* rebuilt (download.cpp:91-123): the one thing that loses both is a record torn
\* by a full disk or a kill when a later upload of the name overwrote it.
AckedNameRetrievable ==
  left["delete"] = Budget["delete"] =>
    \A n \in acked : \/ server[n].seal # 0
                     \/ Recoverable(manifest[n])
                     \/ manifest[n].state = "torn"

\* A pending record only goes away when the server has held the content it
\* stands for, or has taken other content for it (sync.cpp:77-82), unless another
\* process wrote the record while the sync that removes it was busy with the one
\* before.
RemovedOnlyAfterHeld ==
  [][\A n \in Names :
       manifest[n].state = "full" /\ manifest'[n].state = "none" =>
         \/ Settled(manifest[n].seal)
         \/ \E w \in Workers : job[w].pc = "release" /\ job[w].name = n
                              /\ job[w].seal # manifest[n].seal]_vars

\* Every pending record is forwarded or superseded in the end, unless the
\* peers lose more shards than its parity covers (README: "Once the server
\* returns, pending files are forwarded automatically") or a machine that stays
\* silent keeps a command for good.
PendingIsResolved ==
  \A n \in Names, s \in Seals :
    manifest[n].state = "full" /\ manifest[n].seal = s ~>
      \/ manifest[n].seal # s
      \/ Cardinality(manifest[n].refs \ Ruined(manifest[n])) < DataShards
      \/ \E w \in Workers : job[w].pc = "hung"

\* Refusals, lost replies, outages and too few shards never keep a command: it
\* ends, or it waits for a machine that stays silent, which no time limit of the
\* program puts an end to (wire.cpp:354).
CommandsEnd ==
  \A w \in Workers : job[w].pc # "idle" ~> job[w].pc \in {"idle", "hung"}

\* README: "uploading the same name replaces what was there".  What the server
\* holds for a name never gives way to a stream sealed before it.
LatestUploadWins ==
  [][\A n \in Names :
       server[n].seal # 0 /\ server'[n].seal # 0
         => server'[n].seal >= server[n].seal]_vars

-----------------------------------------------------------------------------
(* The inductive invariant behind the safety properties *)

\* No stream is mixed, and one is cut only after a disk was full.
BodyOK(body) == body # "mixed" /\ (body = "cut" => left["disk"] < Budget["disk"])

\* A job that is busy names a stream that was sealed, for the name it is about;
\* it uses no damaged shard, and it releases only what the server has settled.
JobOK(w) ==
  job[w].pc \notin {"idle", "hung"} =>
    /\ job[w].seal \in 1 .. Len(sealed)
    /\ sealed[job[w].seal].name = job[w].name
    /\ BodyOK(job[w].body)
    /\ job[w].usable \subseteq Indices \X {"intact"}
    /\ job[w].pc = "release" => Settled(job[w].seal)

RecordOK(n) ==
  manifest[n].state = "full" =>
    /\ manifest[n].seal \in 1 .. Len(sealed)
    /\ sealed[manifest[n].seal].name = n

LateOK ==
  \A r \in late : /\ r.seal <= Len(sealed)
                  /\ BodyOK(r.body)
                  /\ sealed[r.seal].name = r.name

\* Every seal of the content the server holds now is in the history.
HeldOK ==
  \A s \in 1 .. Len(sealed) : Fits(server[sealed[s].name], sealed[s]) => s \in held

\* A tag is the tag of the content beside it, or has been taken for another.
TagOK ==
  \A n \in Names, t \in Tags :
    server[n].seal # 0 /\ server[n].tag = t =>
      LET version == [name |-> n, tag |-> t]
      IN  Fits(server[n], version) \/ version \in mistaken

\* Without a lost tag and a full disk nothing is ever taken for another content.
NoMistakes ==
  /\ \A hazard \in Hazards : left[hazard] <= Budget[hazard]
  /\ (\A hazard \in {"untagged", "disk"} : left[hazard] = Budget[hazard]) => mistaken = {}

\* No step leads out of Safe, which is what makes ReleasedOnlyAfterHeld and
\* ServerHoldsWholeStreams invariants: the guards a worker passed stay true of
\* its own copy of the record while others overwrite, release and remove it.
Safe ==
  /\ TypeOK
  /\ \A w \in Workers : JobOK(w)
  /\ \A n \in Names : RecordOK(n)
  /\ LateOK
  /\ HeldOK
  /\ TagOK
  /\ NoMistakes
  /\ ServerHoldsWholeStreams
  /\ ReleasedOnlyAfterHeld

-----------------------------------------------------------------------------
(* The inductive invariant behind PendingIsRecoverable *)

\* What an upload notes for its record has reached a peer.
PlacedOK(w) ==
  job[w].pc \in {"probe", "place"} =>
    \A i \in job[w].refs : chunk[<<job[w].seal, i>>] # "absent"

\* A record names enough shards, and each has reached a peer.
ShardsOK(n) ==
  manifest[n].state = "full" =>
    /\ Cardinality(manifest[n].refs) >= DataShards
    /\ \A i \in manifest[n].refs : chunk[<<manifest[n].seal, i>>] # "absent"

\* No step leads out of Standing: a shard that was placed stays with its peer,
\* sound or not, until it is released, which Safe allows only for what the server
\* has settled.
Standing ==
  /\ Safe
  /\ \A w \in Workers : PlacedOK(w)
  /\ \A n \in Names : ShardsOK(n)
=============================================================================

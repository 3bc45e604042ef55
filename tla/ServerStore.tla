---------------------------- MODULE ServerStore ----------------------------
(***************************************************************************)
(* The server's storage under concurrent sessions.  Each connection has a  *)
(* thread; a thread receives an upload into a temporary file without any   *)
(* lock, then takes the store's mutex to move it into place and to write   *)
(* the dedup tag beside it.  A download looks the size up under the mutex  *)
(* and opens and sends the file after releasing it.                        *)
(*                                                                         *)
(* A key is a stored file (account and name) or a chunk id; the two differ *)
(* only in that a chunk has no tag.  The bytes of a file are the blocks of *)
(* the upload they came with, so a file is named by that upload's number.  *)
(* The command-line protocol (session.cpp) and the browser's (webui.cpp)   *)
(* run the same steps on the same store; the model does not tell them      *)
(* apart.                                                                  *)
(***************************************************************************)
EXTENDS Integers, Sequences, FiniteSets

CONSTANTS
  Sessions,     \* connections, each with its thread
  Keys,         \* what can be stored: (account, name) pairs and chunk ids
  Chunks,       \* the keys that are chunk ids
  Tags,         \* dedup tags a client may send
  Sizes,        \* sizes of an upload, in blocks
  NoTag,        \* no sidecar, or an empty one
  MaxRequests,  \* bound: commands in one behaviour
  Budget        \* bound: how often each hazard may strike

Hazards == {"drop", "crash", "untagged", "account"}

ASSUME StoreAssumption ==
  /\ Keys # {}
  /\ Chunks \subseteq Keys
  /\ Sizes \subseteq Nat
  /\ NoTag \notin Tags
  /\ MaxRequests \in Nat
  /\ Budget \in [Hazards -> Nat]

VARIABLES
  up,        \* the server process runs
  file,      \* key -> what the name leads to (upload 0: nothing)
  tag,       \* key -> content of the sidecar
  tmp,       \* uploads whose temporary file exists
  mutex,     \* the sessions inside the store's mutex
  session,   \* session -> where its thread stands
  uploads,   \* upload -> key, size and tag its command announced
  requests,  \* commands begun
  left       \* hazards that may still strike

vars == <<up, file, tag, tmp, mutex, session, uploads, requests, left>>

\* The browser sends no tag for a file too large to hash in one piece.
Markers   == Tags \cup {NoTag}
Announced == [key : Keys, size : Sizes, tag : Markers]
Stored    == [upload : 0 .. MaxRequests, blocks : Nat]
Labels    == {"idle", "recv", "rename", "retag", "mark", "look", "open", "send",
              "remove", "unlink", "untag"}
Threads   == [pc : Labels, key : Keys, upload : 0 .. MaxRequests, want : Nat,
              got : Nat, source : Stored]

Nothing == [upload |-> 0, blocks |-> 0]
Idle    == [pc |-> "idle", key |-> CHOOSE k \in Keys : TRUE, upload |-> 0,
            want |-> 0, got |-> 0, source |-> Nothing]

Init ==
  /\ up = TRUE
  /\ file = [k \in Keys |-> Nothing]
  /\ tag = [k \in Keys |-> NoTag]
  /\ tmp = {}
  /\ mutex = {}
  /\ session = [s \in Sessions |-> Idle]
  /\ uploads = <<>>
  /\ requests = 0
  /\ left = Budget

-----------------------------------------------------------------------------
(* Helpers *)

Spend(hazard) ==
  /\ left[hazard] > 0
  /\ left' = [left EXCEPT ![hazard] = @ - 1]

\* A command arrives on a connection that is between commands.
Command(s) ==
  /\ up
  /\ session[s].pc = "idle"
  /\ requests < MaxRequests
  /\ requests' = requests + 1

\* The reply is sent; the thread waits for the next line, or ends.
End(s) == session' = [session EXCEPT ![s] = Idle]

Goto(s, label) == session' = [session EXCEPT ![s].pc = label]

\* lock_guard<mutex> on store_.mutex().
Lock(s)   == mutex = {} /\ mutex' = {s}
Unlock(s) == mutex' = mutex \ {s}

-----------------------------------------------------------------------------
(* PUTFILE, PUTCHUNK, PUT /api/file *)

BeginPut(s, k, size, t) ==
  LET upload == Len(uploads) + 1
  IN
  /\ Command(s)
  /\ uploads' = Append(uploads, [key |-> k, size |-> size, tag |-> t])
  /\ tmp' = tmp \cup {upload}
  /\ session' = [session EXCEPT ![s] =
                   [Idle EXCEPT !.pc = "recv", !.key = k, !.upload = upload,
                                !.want = size]]
  /\ UNCHANGED <<up, file, tag, mutex, left>>

\* One buffer off the wire and into the temporary file.
Receive(s) ==
  /\ session[s].pc = "recv"
  /\ session[s].got < session[s].want
  /\ session' = [session EXCEPT ![s].got = @ + 1]
  /\ UNCHANGED <<up, file, tag, tmp, mutex, uploads, requests, left>>

\* Mutation of ReceiveFails: the partial file is left behind.
ReceiveFailsUntidily(s) ==
  /\ session[s].pc = "recv"
  /\ Spend("drop")
  /\ End(s)
  /\ UNCHANGED <<up, file, tag, tmp, mutex, uploads, requests>>

\* The connection drops or the disk fills up: the partial file goes away.
ReceiveFails(s) ==
  /\ session[s].pc = "recv"
  /\ Spend("drop")
  /\ tmp' = tmp \ {session[s].upload}
  /\ End(s)
  /\ UNCHANGED <<up, file, tag, mutex, uploads, requests>>

\* Mutation of Received: a dropped connection passes for the end of the body.
ReceivedSomething(s) == session[s].pc = "recv" /\ session[s].got > 0

Received(s) == session[s].pc = "recv" /\ session[s].got = session[s].want

LockToPut(s) ==
  /\ Received(s)
  /\ Lock(s)
  /\ Goto(s, "rename")
  /\ UNCHANGED <<up, file, tag, tmp, uploads, requests, left>>

\* Mutation of Rename: the mutex is released before the tag is written.
RenameUnguarded(s) ==
  LET me == session[s]
  IN
  /\ me.pc = "rename"
  /\ me.upload \in tmp
  /\ tmp' = tmp \ {me.upload}
  /\ file' = [file EXCEPT ![me.key] = [upload |-> me.upload, blocks |-> me.got]]
  /\ Unlock(s)
  /\ IF me.key \in Chunks THEN End(s) ELSE Goto(s, "retag")
  /\ UNCHANGED <<up, tag, uploads, requests, left>>

\* fs::rename; a chunk is then in place, a file still needs its tag.
Rename(s) ==
  LET me == session[s]
  IN
  /\ me.pc = "rename"
  /\ me.upload \in tmp
  /\ tmp' = tmp \ {me.upload}
  /\ file' = [file EXCEPT ![me.key] = [upload |-> me.upload, blocks |-> me.got]]
  /\ IF me.key \in Chunks
       THEN Unlock(s) /\ End(s)
       ELSE Goto(s, "retag") /\ UNCHANGED mutex
  /\ UNCHANGED <<up, tag, uploads, requests, left>>

\* Mutation of RenameFails: the early return leaves the mutex locked.
RenameFailsLocked(s) ==
  /\ session[s].pc = "rename"
  /\ \/ session[s].upload \notin tmp /\ UNCHANGED left
     \/ Spend("drop")
  /\ tmp' = tmp \ {session[s].upload}
  /\ End(s)
  /\ UNCHANGED <<up, file, tag, mutex, uploads, requests>>

\* "store-failed": the temporary file is gone, or the rename is refused and the
\* temporary file is removed.  The name keeps what it had.
RenameFails(s) ==
  /\ session[s].pc = "rename"
  /\ \/ session[s].upload \notin tmp /\ UNCHANGED left
     \/ Spend("drop")
  /\ tmp' = tmp \ {session[s].upload}
  /\ Unlock(s)
  /\ End(s)
  /\ UNCHANGED <<up, file, tag, uploads, requests>>

\* write_tag opens the sidecar, which empties it, ...
EmptyTag(s) ==
  /\ session[s].pc = "retag"
  /\ tag' = [tag EXCEPT ![session[s].key] = NoTag]
  /\ Goto(s, "mark")
  /\ UNCHANGED <<up, file, tmp, mutex, uploads, requests, left>>

\* ... and then writes it.
WriteTag(s) ==
  /\ session[s].pc = "mark"
  /\ tag' = [tag EXCEPT ![session[s].key] = uploads[session[s].upload].tag]
  /\ Unlock(s)
  /\ End(s)
  /\ UNCHANGED <<up, file, tmp, uploads, requests, left>>

\* The sidecar cannot be opened or written; the upload is acknowledged anyway.
TagFails(s) ==
  /\ session[s].pc \in {"retag", "mark"}
  /\ Spend("untagged")
  /\ Unlock(s)
  /\ End(s)
  /\ UNCHANGED <<up, file, tag, tmp, uploads, requests>>

-----------------------------------------------------------------------------
(* GETFILE, GETCHUNK, GET /api/file *)

BeginGet(s, k) ==
  /\ Command(s)
  /\ session' = [session EXCEPT ![s] = [Idle EXCEPT !.pc = "look", !.key = k]]
  /\ UNCHANGED <<up, file, tag, tmp, mutex, uploads, left>>

\* file_info under the mutex: the size is settled here, or the reply is NONE.
Look(s) ==
  LET there == file[session[s].key]
  IN
  /\ session[s].pc = "look"
  /\ mutex = {}
  /\ IF there.upload = 0
       THEN End(s)
       ELSE session' = [session EXCEPT ![s].pc = "open", ![s].want = there.blocks]
  /\ UNCHANGED <<up, file, tag, tmp, mutex, uploads, requests, left>>

\* The file is opened after the mutex was released: whatever the name leads to
\* by now is what will be sent, and a name that is gone ends the connection.
Open(s) ==
  LET there == file[session[s].key]
  IN
  /\ session[s].pc = "open"
  /\ IF there.upload = 0
       THEN End(s)
       ELSE session' = [session EXCEPT ![s].pc = "send", ![s].source = there]
  /\ UNCHANGED <<up, file, tag, tmp, mutex, uploads, requests, left>>

\* One buffer out; a file that ends before the announced size drops the
\* connection.
Send(s) ==
  /\ session[s].pc = "send"
  /\ session[s].got < session[s].want
  /\ IF session[s].got < session[s].source.blocks
       THEN session' = [session EXCEPT ![s].got = @ + 1]
       ELSE End(s)
  /\ UNCHANGED <<up, file, tag, tmp, mutex, uploads, requests, left>>

SendEnds(s) ==
  /\ session[s].pc = "send"
  /\ \/ session[s].got = session[s].want /\ UNCHANGED left
     \/ Spend("drop")
  /\ End(s)
  /\ UNCHANGED <<up, file, tag, tmp, mutex, uploads, requests>>

-----------------------------------------------------------------------------
(* DELFILE, DELCHUNK, DELETE /api/file *)

BeginDelete(s, k) ==
  /\ Command(s)
  /\ session' = [session EXCEPT ![s] = [Idle EXCEPT !.pc = "remove", !.key = k]]
  /\ UNCHANGED <<up, file, tag, tmp, mutex, uploads, left>>

LockToDelete(s) ==
  /\ session[s].pc = "remove"
  /\ Lock(s)
  /\ Goto(s, "unlink")
  /\ UNCHANGED <<up, file, tag, tmp, uploads, requests, left>>

Unlink(s) ==
  LET k == session[s].key
  IN
  /\ session[s].pc = "unlink"
  /\ file' = [file EXCEPT ![k] = Nothing]
  /\ IF k \in Chunks
       THEN Unlock(s) /\ End(s)
       ELSE Goto(s, "untag") /\ UNCHANGED mutex
  /\ UNCHANGED <<up, tag, tmp, uploads, requests, left>>

\* Mutation of RemoveTag: the sidecar outlives its file.
RemoveTagNot(s) ==
  /\ session[s].pc = "untag"
  /\ Unlock(s)
  /\ End(s)
  /\ UNCHANGED <<up, file, tag, tmp, uploads, requests, left>>

\* "The sidecar goes with it."
RemoveTag(s) ==
  /\ session[s].pc = "untag"
  /\ tag' = [tag EXCEPT ![session[s].key] = NoTag]
  /\ Unlock(s)
  /\ End(s)
  /\ UNCHANGED <<up, file, tmp, uploads, requests, left>>

-----------------------------------------------------------------------------
(* The process and its neighbours *)

Crash ==
  /\ up
  /\ Spend("crash")
  /\ up' = FALSE
  /\ session' = [s \in Sessions |-> Idle]
  /\ mutex' = {}
  /\ UNCHANGED <<file, tag, tmp, uploads, requests>>

\* Store::init on the way up: whatever is in tmp/ is removed.
Start ==
  /\ ~up
  /\ up' = TRUE
  /\ tmp' = {}
  /\ UNCHANGED <<file, tag, mutex, session, uploads, requests, left>>

\* Every command of the program runs Store::init first, useradd and passwd
\* included, in a process of its own and on the running server's directory.
AccountCommand ==
  /\ up
  /\ Spend("account")
  /\ tmp' = {}
  /\ UNCHANGED <<up, file, tag, mutex, session, uploads, requests>>

-----------------------------------------------------------------------------
\* What the server's own code does without waiting for a client.
Step(s) ==
  \/ LockToPut(s) \/ Rename(s) \/ RenameFails(s)
  \/ EmptyTag(s) \/ WriteTag(s) \/ TagFails(s)
  \/ Look(s) \/ Open(s)
  \/ LockToDelete(s) \/ Unlink(s) \/ RemoveTag(s)

\* What waits for the other end of the connection.
Transfer(s) == Receive(s) \/ ReceiveFails(s) \/ Send(s) \/ SendEnds(s)

Next ==
  \/ \E s \in Sessions, k \in Keys, size \in Sizes, t \in Markers : BeginPut(s, k, size, t)
  \/ \E s \in Sessions, k \in Keys : BeginGet(s, k) \/ BeginDelete(s, k)
  \/ \E s \in Sessions : Step(s) \/ Transfer(s)
  \/ Crash \/ Start \/ AccountCommand

Spec == Init /\ [][Next]_vars

\* Threads are scheduled.  Clients are not: one may stop in the middle of an
\* upload for ever, and the server sets no limit on that.
FairSpec == Spec /\ \A s \in Sessions : WF_vars(Step(s))

-----------------------------------------------------------------------------
(* Properties *)

\* Every variable keeps its type, and no transfer runs past the size announced
\* for it into the bytes of the next command (session.cpp:36-52).
TypeOK ==
  /\ up \in BOOLEAN
  /\ file \in [Keys -> Stored]
  /\ tag \in [Keys -> Markers]
  /\ tmp \subseteq 1 .. MaxRequests
  /\ mutex \subseteq Sessions
  /\ session \in [Sessions -> Threads]
  /\ \A s \in Sessions : session[s].got <= session[s].want
  /\ uploads \in Seq(Announced)
  /\ requests \in 0 .. MaxRequests
  /\ Len(uploads) <= requests
  /\ left \in [Hazards -> Nat]
  /\ \A h \in Hazards : left[h] <= Budget[h]

\* "Rename last, so a reader never observes a half-written file"
\* (session.cpp:259): what a name leads to is the whole body of one upload
\* announced for that name, whatever was interrupted or refused meanwhile.
WholeFiles ==
  \A k \in Keys : file[k].upload # 0 =>
    /\ file[k].upload <= Len(uploads)
    /\ file[k].blocks = uploads[file[k].upload].size
    /\ uploads[file[k].upload].key = k

\* No sidecar write has failed or been cut short.
TagsIntact == \A h \in {"crash", "untagged"} : left[h] = Budget[h]

TagFor(k) ==
  IF file[k].upload = 0 THEN NoTag ELSE uploads[file[k].upload].tag

\* Whoever takes the mutex finds the tag of the very file that is there, so a
\* matching tag really means identical content (session.cpp:256-266).
TagMatchesFile ==
  mutex = {} /\ TagsIntact => \A k \in Keys \ Chunks : tag[k] = TagFor(k)

\* While the server runs, a temporary file belongs to an upload in progress:
\* every way an upload can end takes its temporary file along.
TmpOwned ==
  up => \A u \in tmp : \E s \in Sessions :
          session[s].pc \in {"recv", "rename"} /\ session[s].upload = u

\* A reader never observes part of a file (session.cpp:259): a download that
\* sends all it announced has sent the whole of one upload.
GetIsWhole ==
  \A s \in Sessions :
    session[s].pc = "send" /\ session[s].got = session[s].want =>
      session[s].want = session[s].source.blocks

Waiting(s) == Received(s) \/ session[s].pc \in {"look", "remove"}

\* Nobody waits for the mutex for ever, even when clients stop in the middle of
\* their transfers: no path out of the guarded blocks leaves it locked, and no
\* body is received or sent inside one.
LockIsGranted == \A s \in Sessions : Waiting(s) ~> ~Waiting(s)

-----------------------------------------------------------------------------
(* The inductive invariant behind the safety properties *)

Inside == {"rename", "retag", "mark", "unlink", "untag"}

\* The mutex excludes: its holder is the one thread inside a guarded block.
LockOK ==
  /\ \A s \in Sessions : s \in mutex <=> session[s].pc \in Inside
  /\ \A s, r \in mutex : s = r

\* An upload in progress is the one its command announced, complete by the
\* time the mutex is taken; past the rename the name leads to it.  A download
\* has sent nothing before it knows the size.
ThreadOK(s) ==
  LET me == session[s]
  IN
  /\ me.pc \in {"recv", "rename", "retag", "mark"} =>
       /\ me.upload \in 1 .. Len(uploads)
       /\ uploads[me.upload].key = me.key
       /\ uploads[me.upload].size = me.want
  /\ me.pc = "rename" => me.got = me.want
  /\ me.pc \in {"retag", "mark"} => file[me.key].upload = me.upload
  /\ me.pc = "untag" => file[me.key].upload = 0
  /\ me.pc \in {"look", "open"} => me.got = 0

\* Between two guarded blocks, and in one that is not about k, the tag fits.
Changing(k) ==
  \E s \in mutex : session[s].key = k /\ session[s].pc \in {"retag", "mark", "untag"}

TagsOK ==
  TagsIntact => \A k \in Keys \ Chunks : ~Changing(k) => tag[k] = TagFor(k)

\* No step leads out of Sound.
Sound ==
  /\ TypeOK
  /\ LockOK
  /\ \A s \in Sessions : ThreadOK(s)
  /\ WholeFiles
  /\ TagsOK
  /\ TmpOwned
=============================================================================

------------------------------- MODULE Watcher -------------------------------
(***************************************************************************)
(* The watch loop: one process that scans a folder, uploads what changed   *)
(* since it last looked, remembers size and time of what it uploaded in a  *)
(* state file written in place, forwards pending records and sleeps; and   *)
(* downloads made meanwhile.  Owners edit and remove files at any moment,  *)
(* the server comes and goes, the process is interrupted or killed.        *)
(*                                                                         *)
(* A file's content is the number of its version, and its stamp (size and  *)
(* time) is the version that first bore it.  How an upload reaches the     *)
(* server or the peers is Relay's subject: here it is one step, or one     *)
(* that fails and leaves a body behind which the server stores later.      *)
(***************************************************************************)
EXTENDS Integers, FiniteSets

CONSTANTS
  Names,    \* files of the folder
  MaxEdits, \* bound: versions of a file
  Budget    \* bound: outages, failed uploads, kills, removed files, untraced edits

ASSUME WatcherAssumption ==
  /\ Names # {} /\ MaxEdits \in Nat \ {0} /\ Budget \in Nat

VARIABLES
  folder,   \* name -> its last version and stamp, and whether it is there
  pc, todo, \* the watcher's step, and the names its scan, or its pass, has still to look at
  cur, now, read,  \* the upload under way: name, stamp seen before it, version read
  seen,     \* name -> stamp it was last uploaded with (0: never)
  changed,  \* whether the scan has recorded something
  disk,     \* the state file: stamps, and whether it is torn
  stop,     \* a signal asked it to stop
  online,   \* whether the server can be reached
  server, pending,  \* name -> version stored there (0: none)
  late,     \* the names and versions of bodies that a session has without their sender
  left,     \* hazards that may still strike
  newest,   \* history: name -> newest version ever stored
  hidden,   \* history: names edited since their last visible edit, leaving no trace
  crossed   \* history: names where an older version prevails or the pending record was
            \* torn, and nothing has been uploaded since

watcher == <<pc, todo, cur, now, read, seen, changed>>
vars == <<folder, watcher, disk, stop, online, server, pending, late, left, newest, hidden,
          crossed>>

Versions == 0 .. MaxEdits
File     == [version : Versions, stamp : Versions, there : BOOLEAN]
Nothing  == [f \in Names |-> 0]
AnyName  == CHOOSE f \in Names : TRUE

Init ==
  /\ folder = [f \in Names |-> [version |-> 0, stamp |-> 0, there |-> FALSE]]
  /\ pc = "off" /\ todo = {} /\ cur = AnyName /\ now = 0 /\ read = 0
  /\ seen = Nothing /\ changed = FALSE /\ disk = [stamps |-> Nothing, torn |-> FALSE]
  /\ stop = FALSE /\ online = TRUE /\ server = Nothing /\ pending = Nothing /\ late = {}
  /\ left = Budget /\ newest = Nothing /\ hidden = {} /\ crossed = {}

Strikes == left > 0 /\ left' = left - 1
World   == UNCHANGED <<folder, online, hidden>>
Stores  == UNCHANGED <<server, pending, late, newest, crossed>>

(* The watcher. *)

\* Of a torn state file the lines that are whole are taken; one whose first line is torn
\* has to be deleted by hand.
Start ==
  /\ pc = "off" /\ pc' = "scan" /\ todo' = Names /\ stop' = FALSE /\ changed' = FALSE
  /\ \E kept \in SUBSET Names :
       /\ ~disk.torn => kept = Names
       /\ seen' = [f \in Names |-> IF f \in kept THEN disk.stamps[f] ELSE 0]
  /\ World /\ Stores /\ UNCHANGED <<cur, now, read, disk, left>>

Unchanged(f) == seen[f] = folder[f].stamp

\* Mutation of Look: a changed name stays to be looked at again.
LookAndStay(f) ==
  /\ pc = "scan" /\ f \in todo /\ ~stop
  /\ todo' = IF Unchanged(f) THEN todo \ {f} ELSE todo
  /\ IF ~folder[f].there \/ Unchanged(f)
     THEN UNCHANGED <<pc, cur, now>>
     ELSE pc' = "seal" /\ cur' = f /\ now' = folder[f].stamp
  /\ World /\ Stores /\ UNCHANGED <<read, seen, changed, disk, stop, left>>

\* A name that looks the same as when it was last uploaded is passed over.
Look(f) ==
  /\ pc = "scan" /\ f \in todo /\ ~stop
  /\ todo' = todo \ {f}
  /\ IF ~folder[f].there \/ Unchanged(f)
     THEN UNCHANGED <<pc, cur, now>>
     ELSE pc' = "seal" /\ cur' = f /\ now' = folder[f].stamp
  /\ World /\ Stores /\ UNCHANGED <<read, seen, changed, disk, stop, left>>

\* The upload reads the file, which may have gone or changed since it was looked at.
Seal ==
  /\ pc = "seal"
  /\ IF ~folder[cur].there
     THEN pc' = "scan" /\ read' = read
     ELSE pc' = "upload" /\ read' = folder[cur].version
  /\ World /\ Stores /\ UNCHANGED <<todo, cur, now, seen, changed, disk, stop, left>>

\* Mutation of Recorded: the stamp is taken after the upload.
RecordedLate(f) == [seen EXCEPT ![f] = folder[f].stamp]
Recorded(f) == [seen EXCEPT ![f] = now]

Newer(v, w) == IF v < w THEN w ELSE v

\* Version v of f, stored at the server now, is older than what was stored before it, or
\* newer than the record that will be forwarded over it.
Overtaken(f, v) == IF pending[f] # 0 THEN pending[f] < v ELSE v < newest[f]

\* To the server, or to the peers with a pending record; either replaces what was there.
Upload ==
  /\ pc = "upload" /\ pc' = "scan"
  /\ IF online
     THEN server' = [server EXCEPT ![cur] = read] /\ pending' = pending
     ELSE server' = server /\ pending' = [pending EXCEPT ![cur] = read]
  /\ newest' = [newest EXCEPT ![cur] = read]
  /\ crossed' = IF online /\ Overtaken(cur, read) THEN crossed \cup {cur} ELSE crossed \ {cur}
  /\ seen' = Recorded(cur) /\ changed' = TRUE
  /\ World /\ UNCHANGED <<todo, cur, now, read, disk, stop, late, left>>

\* The bodies that may be on their way to the server.
Sent == IF ~online THEN {}
        ELSE IF pc = "upload" THEN {<<cur, read>>}
        ELSE IF pc = "sync" THEN {<<f, pending[f]>> : f \in todo} ELSE {}

\* A body is cut off: nothing of it arrives, or all of it and a session still stores it, or a
\* record of the name, written in place, is torn.
CutOff ==
  \/ Stores
  \/ \E body \in Sent : late' = late \cup {body} /\ UNCHANGED <<server, pending, newest, crossed>>
  \/ /\ pc = "upload" /\ ~online /\ pending[cur] # 0
     /\ pending' = [pending EXCEPT ![cur] = 0] /\ crossed' = crossed \cup {cur}
     /\ UNCHANGED <<server, late, newest>>

\* A session stores what it has, at any later moment: nobody waits for its answer.
LateStore(f, v) ==
  /\ <<f, v>> \in late /\ late' = late \ {<<f, v>>}
  /\ server' = [server EXCEPT ![f] = v]
  /\ newest' = [newest EXCEPT ![f] = Newer(@, v)]
  /\ crossed' = IF Overtaken(f, v) THEN crossed \cup {f} ELSE crossed
  /\ World /\ UNCHANGED <<watcher, disk, stop, pending, left>>

\* Mutation of UploadFails: the upload's result is not looked at.
UploadFailsUnnoticed ==
  /\ pc = "upload" /\ pc' = "scan" /\ Strikes
  /\ seen' = Recorded(cur) /\ changed' = TRUE
  /\ World /\ Stores /\ UNCHANGED <<todo, cur, now, read, disk, stop>>

\* Left out of the state, so that the next scan tries again.
UploadFails ==
  /\ pc = "upload" /\ pc' = "scan" /\ Strikes
  /\ CutOff
  /\ World /\ UNCHANGED <<todo, cur, now, read, seen, changed, disk, stop>>

\* The records a pass will visit.
Listed == {f \in Names : pending[f] # 0}

EndScan ==
  /\ pc = "scan" /\ (todo = {} \/ stop)
  /\ IF changed THEN pc' = "open state" /\ todo' = {}
                ELSE pc' = "sync" /\ todo' = Listed
  /\ World /\ Stores /\ UNCHANGED <<cur, now, read, seen, changed, disk, stop, left>>

\* The state file is truncated, and then written; it may not open at all.
OpenState ==
  /\ pc = "open state"
  /\ \/ /\ pc' = "write state" /\ disk' = [stamps |-> seen, torn |-> TRUE]
        /\ UNCHANGED <<todo, changed, left>>
     \/ pc' = "sync" /\ todo' = Listed /\ changed' = FALSE /\ disk' = disk /\ Strikes
  /\ World /\ Stores /\ UNCHANGED <<cur, now, read, seen, stop>>

WriteState ==
  /\ pc = "write state" /\ pc' = "sync" /\ todo' = Listed /\ changed' = FALSE
  /\ \/ disk' = [disk EXCEPT !.torn = FALSE] /\ left' = left
     \/ disk' = disk /\ Strikes
  /\ World /\ Stores /\ UNCHANGED <<cur, now, read, seen, stop>>

Visits(f) == pc = "sync" /\ f \in todo /\ todo' = todo \ {f}

\* Mutation of Forward: the record is removed without being forwarded.
ForgetPending(f) ==
  /\ Visits(f) /\ online
  /\ pending' = [pending EXCEPT ![f] = 0]
  /\ World /\ UNCHANGED <<pc, cur, now, read, seen, changed, disk, stop, server, late, left,
                         newest, crossed>>

\* The record is forwarded and removed.
Forward(f) ==
  /\ Visits(f) /\ online
  /\ server' = [server EXCEPT ![f] = pending[f]]
  /\ pending' = [pending EXCEPT ![f] = 0]
  /\ World /\ UNCHANGED <<pc, cur, now, read, seen, changed, disk, stop, late, left, newest,
                         crossed>>

\* Its server does not answer, or its stream cannot be rebuilt or sent: it waits for the next
\* pass.
ForwardFails(f) ==
  /\ Visits(f)
  /\ \/ ~online /\ UNCHANGED <<late, left>>
     \/ online /\ Strikes /\ (late' = late \/ late' = late \cup {<<f, pending[f]>>})
  /\ World /\ UNCHANGED <<pc, cur, now, read, seen, changed, disk, stop, server, pending, newest,
                         crossed>>

\* The pass is over; the watcher sleeps, and scans again unless it was asked to stop.
EndSync ==
  /\ pc = "sync" /\ todo = {}
  /\ IF stop THEN pc' = "off" /\ todo' = {} /\ seen' = Nothing
             ELSE pc' = "scan" /\ todo' = Names /\ seen' = seen
  /\ World /\ Stores /\ UNCHANGED <<cur, now, read, changed, disk, stop, left>>

(* Its surroundings. *)

\* A visible edit gets a new stamp; one within the clock's resolution that keeps the size
\* leaves no trace.
Edit(f) ==
  /\ folder[f].version < MaxEdits
  /\ LET v == folder[f].version + 1 IN
     \/ folder' = [folder EXCEPT ![f] = [version |-> v, stamp |-> v, there |-> TRUE]]
        /\ hidden' = hidden \ {f} /\ left' = left
     \/ folder[f].there /\ Strikes
        /\ folder' = [folder EXCEPT ![f].version = v] /\ hidden' = hidden \cup {f}
  /\ Stores /\ UNCHANGED <<watcher, disk, stop, online>>

Remove(f) ==
  /\ folder[f].there /\ Strikes
  /\ folder' = [folder EXCEPT ![f].there = FALSE]
  /\ Stores /\ UNCHANGED <<watcher, disk, stop, online, hidden>>

Interrupt ==
  /\ pc # "off" /\ ~stop /\ stop' = TRUE /\ Strikes
  /\ World /\ Stores /\ UNCHANGED <<watcher, disk>>

Kill ==
  /\ pc # "off" /\ pc' = "off" /\ Strikes
  /\ todo' = {} /\ seen' = Nothing /\ changed' = FALSE
  /\ CutOff
  /\ World /\ UNCHANGED <<cur, now, read, disk, stop>>

Outage ==
  /\ \/ online /\ Strikes /\ online' = FALSE
     \/ ~online /\ left' = left /\ online' = TRUE
  /\ Stores /\ UNCHANGED <<folder, watcher, disk, stop, hidden>>

Step == \/ \E f \in Names : Look(f) \/ Forward(f) \/ ForwardFails(f)
        \/ Seal \/ Upload \/ UploadFails \/ EndScan \/ OpenState \/ WriteState \/ EndSync
Next == \/ Start \/ Step \/ Interrupt \/ Kill \/ Outage
        \/ \E f \in Names, v \in Versions : LateStore(f, v)
        \/ \E f \in Names : Edit(f) \/ Remove(f)

\* The loop goes on for as long as the process lives; nobody promises to start it again,
\* or that the server comes back.
Spec == Init /\ [][Next]_vars /\ WF_vars(Step)

\* What a download returns: the server's copy if it has one, else a rebuilt pending one.
Downloaded(f) == IF online /\ server[f] # 0 THEN server[f] ELSE pending[f]

-----------------------------------------------------------------------------
\* The variables stay within their ranges; while the file is not being written it holds no
\* stamp that was not uploaded, and an upload under way is of a name the scan has passed.
TypeOK ==
  /\ folder \in [Names -> File] /\ todo \subseteq Names /\ cur \in Names
  /\ pc \in {"off", "scan", "seal", "upload", "open state", "write state", "sync"}
  /\ {now, read} \subseteq Versions
  /\ {seen, server, pending, newest, disk.stamps} \subseteq [Names -> Versions]
  /\ late \subseteq Names \X Versions /\ hidden \subseteq Names /\ crossed \subseteq Names /\ left \in 0 .. Budget
  /\ pc \in {"seal", "upload"} => cur \notin todo
  /\ pc = "write state" => disk.torn

\* A stamp is remembered, in memory or on disk, only after a version of the file at least as
\* new as the stamp has been stored (WatchState::record, cmd_watch).
RecordedWasUploaded ==
  \A f \in Names : seen[f] <= newest[f] /\ disk.stamps[f] <= newest[f]

\* A download returns the newest version ever stored, whether it is at the server or still
\* at the peers.  Until the next upload of the name there are exceptions: an older record
\* forwarded over a newer upload, an older body that a session stored late, a pending record
\* torn by an upload that failed; and a copy at the server hides a newer pending one
\* (cmd_download, cmd_watch, sync_one).
DownloadIsNewest ==
  \A f \in Names \ crossed :
    newest[f] # 0 /\ (online \/ pending[f] # 0) /\ ~(online /\ server[f] # 0 /\ pending[f] # 0)
      => Downloaded(f) = newest[f]

\* While the watcher runs, every edit is stored sooner or later, those made during a scan or
\* an upload and across kills and torn state files as well: unless it changed neither size
\* nor time, or an older version was stored or forwarded over it (cmd_watch,
\* WatchState::unchanged).
Current(f) == \/ ~folder[f].there \/ f \in hidden \cup crossed
              \/ folder[f].version = (IF pending[f] # 0 THEN pending[f] ELSE server[f])
EditsAreStored == \A f \in Names : []<>(pc = "off" \/ Current(f))
=============================================================================

------------------------------ MODULE Accounts ------------------------------
(***************************************************************************)
(* The account list: users.txt is rewritten by account commands, each a    *)
(* process of its own (useradd, passwd, userdel), and read by the running  *)
(* server, which keeps a copy and reloads it when the file's time stamp    *)
(* has changed.                                                            *)
(*                                                                         *)
(* A command reads the list when it starts, asks for the password, changes *)
(* its own copy, writes that to users.txt.new and renames it over          *)
(* users.txt.  Nothing locks either name, so files are inodes here: two    *)
(* commands may hold the same users.txt.new open, also when it has already *)
(* become users.txt.                                                       *)
(***************************************************************************)
EXTENDS Integers, Sequences, FiniteSets

CONSTANTS
  Names,      \* account names
  Passwords,  \* passwords, told apart by their verifier
  NoAccount,  \* the password of a name that is not listed
  Commands,   \* processes that run account commands
  MaxRuns,    \* bound: account commands in one behaviour
  MaxClock,   \* bound: changes of the file system's clock
  Budget      \* bound: how often each hazard may strike

Hazards == {"kill", "disk", "restart"}
Kinds   == {"useradd", "passwd", "userdel"}

ASSUME AccountsAssumption ==
  /\ Names # {} /\ Passwords # {}
  /\ NoAccount \notin Passwords
  /\ MaxRuns \in Nat
  /\ MaxClock \in Nat
  /\ Budget \in [Hazards -> Nat]

VARIABLES
  disk,      \* the inodes made so far: list, completeness and time stamp
  users,     \* the inode users.txt leads to (0: no such file)
  temp,      \* the inode users.txt.new leads to (0: no such file)
  clock,     \* the file system's clock; it may stand still between two writes
  cmd,       \* process -> where its command stands, and its copy of the list
  server,    \* the server's copy, its stamp, and the sign-in it is checking
  runs,      \* commands begun
  left,      \* hazards that may still strike
  promised,  \* history: the list as the commands reported it to their users
  crowd,     \* history: two commands have been under way at the same time
  tied,      \* history: a changed list kept its stamp, or a stamp went back
  seen       \* history: the lists users.txt held during the current sign-in

vars == <<disk, users, temp, clock, cmd, server, runs, left, promised, crowd, tied, seen>>

Lists   == [Names -> Passwords \cup {NoAccount}]
Files   == [list : Lists, whole : BOOLEAN, stamp : 0 .. MaxClock]
Inodes  == 0 .. MaxRuns + 1
Process == [pc : {"idle", "asked", "opened", "written"}, kind : Kinds, name : Names,
            password : Passwords, list : Lists, fd : Inodes]
Server  == [pc : {"boot", "load", "idle", "read", "decide"}, list : Lists,
            stamp : -1 .. MaxClock]

Empty == [n \in Names |-> NoAccount]

Idle == [pc |-> "idle", kind |-> "useradd", name |-> CHOOSE n \in Names : TRUE,
         password |-> CHOOSE p \in Passwords : TRUE, list |-> Empty, fd |-> 0]

\* What load_locked makes of users.txt, and its last_write_time (-1: no file).
Published == IF users = 0 THEN Empty ELSE disk[users].list
Stamp     == IF users = 0 THEN -1 ELSE disk[users].stamp

\* No users.txt yet, or one that earlier commands have left.
Init ==
  /\ \/ disk = <<>> /\ users = 0 /\ promised = Empty
     \/ /\ promised \in Lists
        /\ disk = <<[list |-> promised, whole |-> TRUE, stamp |-> 0]>>
        /\ users = 1
  /\ temp = 0
  /\ clock = 0
  /\ cmd = [c \in Commands |-> Idle]
  /\ server = [pc |-> "boot", list |-> Empty, stamp |-> -1]
  /\ runs = 0
  /\ left = Budget
  /\ crowd = FALSE /\ tied = FALSE /\ seen = {promised}

Spend(hazard) == left[hazard] > 0 /\ left' = [left EXCEPT ![hazard] = @ - 1]

End(c) == cmd' = [cmd EXCEPT ![c] = Idle]

-----------------------------------------------------------------------------
(* Account commands *)

\* main loads the list before anything else; the password is asked for next.
Begin(c, kind, n, p) ==
  /\ cmd[c].pc = "idle"
  /\ runs < MaxRuns
  /\ runs' = runs + 1
  /\ cmd' = [cmd EXCEPT ![c] = [Idle EXCEPT !.pc = "asked", !.kind = kind, !.name = n,
                                            !.password = p, !.list = Published]]
  /\ crowd' = (crowd \/ \E other \in Commands : cmd[other].pc # "idle")
  /\ UNCHANGED <<disk, users, temp, clock, server, left, promised>>

\* add wants a new name; set_password and remove want a known one.
Allowed(me) == (me.list[me.name] = NoAccount) <=> (me.kind = "useradd")

\* Mutation of Changed: a password that could not be hashed is saved.
ChangedUnhashed(list, me) ==
  [list EXCEPT ![me.name] = IF me.kind = "userdel" THEN NoAccount ELSE ""]

Changed(list, me) ==
  [list EXCEPT ![me.name] = IF me.kind = "userdel" THEN NoAccount ELSE me.password]

\* "user already exists", "no such user", a password that is too short or not
\* confirmed, or a .new that cannot be opened.
Refuse(c) ==
  /\ cmd[c].pc = "asked"
  /\ End(c)
  /\ UNCHANGED <<disk, users, temp, clock, server, runs, left, promised, crowd>>

\* Mutation of OpenNew: what is saved is the list before the change.
OpenNewTooEarly(c) ==
  LET new == IF temp = 0 THEN Len(disk) + 1 ELSE temp
      blank == [list |-> Empty, whole |-> FALSE, stamp |-> clock]
  IN
  /\ cmd[c].pc = "asked"
  /\ Allowed(cmd[c])
  /\ disk' = IF temp = 0 THEN Append(disk, blank) ELSE [disk EXCEPT ![temp] = blank]
  /\ temp' = new
  /\ cmd' = [cmd EXCEPT ![c].pc = "opened", ![c].fd = new]
  /\ UNCHANGED <<users, clock, server, runs, left, promised, crowd>>

\* ofstream(temp, trunc): a new file, or the one another command left or still
\* writes, now empty.
OpenNew(c) ==
  LET new == IF temp = 0 THEN Len(disk) + 1 ELSE temp
      blank == [list |-> Empty, whole |-> FALSE, stamp |-> clock]
  IN
  /\ cmd[c].pc = "asked"
  /\ Allowed(cmd[c])
  /\ disk' = IF temp = 0 THEN Append(disk, blank) ELSE [disk EXCEPT ![temp] = blank]
  /\ temp' = new
  /\ cmd' = [cmd EXCEPT ![c].pc = "opened", ![c].fd = new,
                        ![c].list = Changed(@, cmd[c])]
  /\ UNCHANGED <<users, clock, server, runs, left, promised, crowd>>

Listed(list) == {n \in Names : list[n] # NoAccount}

\* Written from the start of the file: a longer list that is already there
\* keeps its end, whose lines then count as well.
Overwritten(old, new) ==
  {[list |-> [n \in Names |-> IF n \in tail THEN old.list[n] ELSE new[n]],
    whole |-> tail = {}, stamp |-> clock] :
      tail \in IF Cardinality(Listed(old.list)) > Cardinality(Listed(new))
                 THEN SUBSET Listed(old.list) ELSE {{}}}

\* out.flush(): the whole list in one write.
Flush(c) ==
  /\ cmd[c].pc = "opened"
  /\ \E file \in Overwritten(disk[cmd[c].fd], cmd[c].list) :
       disk' = [disk EXCEPT ![cmd[c].fd] = file]
  /\ cmd' = [cmd EXCEPT ![c].pc = "written"]
  /\ UNCHANGED <<users, temp, clock, server, runs, left, promised, crowd>>

\* Mutation of FlushFails: the failed write is not noticed.
FlushFailsUnnoticed(c) ==
  /\ cmd[c].pc = "opened"
  /\ Spend("disk")
  /\ cmd' = [cmd EXCEPT ![c].pc = "written"]
  /\ UNCHANGED <<disk, users, temp, clock, server, runs, promised, crowd>>

\* The disk is full: part of the list is written, .new stays as it is and the
\* command reports the failure.
FlushFails(c) ==
  /\ cmd[c].pc = "opened"
  /\ Spend("disk")
  /\ \E kept \in SUBSET Listed(cmd[c].list) :
       disk' = [disk EXCEPT ![cmd[c].fd] =
                  [list |-> [n \in Names |-> IF n \in kept THEN cmd[c].list[n] ELSE NoAccount],
                   whole |-> FALSE, stamp |-> clock]]
  /\ End(c)
  /\ UNCHANGED <<users, temp, clock, server, runs, promised, crowd>>

\* fs::rename moves whatever .new leads to by now; then success is reported.
Rename(c) ==
  /\ cmd[c].pc = "written"
  /\ temp # 0
  /\ users' = temp
  /\ temp' = 0
  /\ promised' = Changed(promised, cmd[c])
  /\ End(c)
  /\ UNCHANGED <<disk, clock, server, runs, left, crowd>>

\* "cannot replace": another command has taken the .new away, or the rename is
\* refused and the .new is removed.
RenameFails(c) ==
  /\ cmd[c].pc = "written"
  /\ \/ temp = 0 /\ UNCHANGED left
     \/ Spend("disk")
  /\ temp' = 0
  /\ End(c)
  /\ UNCHANGED <<disk, users, clock, server, runs, promised, crowd>>

\* A command is interrupted at its prompt or anywhere later.
Kill(c) ==
  /\ cmd[c].pc # "idle"
  /\ Spend("kill")
  /\ End(c)
  /\ UNCHANGED <<disk, users, temp, clock, server, runs, promised, crowd>>

-----------------------------------------------------------------------------
(* The running server *)

\* load at start-up, and verify (or exists): a missing file or an unchanged
\* stamp keep the copy; otherwise the stamp is taken first ...
TakeStamp ==
  /\ server.pc \in {"boot", "idle"}
  /\ server' = IF server.pc = "idle" /\ (users = 0 \/ server.stamp = Stamp)
                 THEN [server EXCEPT !.pc = "decide"]
                 ELSE [server EXCEPT !.stamp = Stamp,
                         !.pc = IF server.pc = "boot" THEN "load" ELSE "read"]
  /\ UNCHANGED <<disk, users, temp, clock, cmd, runs, left, promised, crowd>>

\* Mutation of ReadList: the old entries are not cleared before the new are read.
ReadListOnTop ==
  /\ server.pc \in {"load", "read"}
  /\ server' = [server EXCEPT !.pc = IF server.pc = "load" THEN "idle" ELSE "decide",
                  !.list = [n \in Names |-> IF Published[n] = NoAccount
                                              THEN server.list[n] ELSE Published[n]]]
  /\ UNCHANGED <<disk, users, temp, clock, cmd, runs, left, promised, crowd>>

\* ... and the lines are read next.
ReadList ==
  /\ server.pc \in {"load", "read"}
  /\ server' = [server EXCEPT !.list = Published,
                  !.pc = IF server.pc = "load" THEN "idle" ELSE "decide"]
  /\ UNCHANGED <<disk, users, temp, clock, cmd, runs, left, promised, crowd>>

\* The password is checked against the verifier found under the mutex.
Decide ==
  /\ server.pc = "decide"
  /\ server' = [server EXCEPT !.pc = "idle"]
  /\ UNCHANGED <<disk, users, temp, clock, cmd, runs, left, promised, crowd>>

Restart ==
  /\ Spend("restart")
  /\ server' = [pc |-> "boot", list |-> Empty, stamp |-> -1]
  /\ UNCHANGED <<disk, users, temp, clock, cmd, runs, promised, crowd>>

Tick ==
  /\ clock < MaxClock
  /\ clock' = clock + 1
  /\ UNCHANGED <<disk, users, temp, cmd, server, runs, left, promised, crowd>>

-----------------------------------------------------------------------------
Proceed(c) ==
  Refuse(c) \/ OpenNew(c) \/ Flush(c) \/ FlushFails(c) \/ Rename(c) \/ RenameFails(c) \/ Kill(c)

Step ==
  \/ \E c \in Commands, kind \in Kinds, n \in Names, p \in Passwords : Begin(c, kind, n, p)
  \/ \E c \in Commands : Proceed(c)
  \/ TakeStamp \/ ReadList \/ Decide
  \/ Restart \/ Tick

\* What the histories note of a step.
Note ==
  /\ tied' = (tied \/ Stamp' < Stamp \/ (Published' # Published /\ Stamp' = Stamp))
  /\ seen' = IF server'.pc \in {"read", "decide"} /\ server.pc # "idle"
               THEN seen \cup {Published'} ELSE {Published'}

Next == Step /\ Note

Spec == Init /\ [][Next]_vars

-----------------------------------------------------------------------------
(* Properties *)

\* The variables stay within their ranges: every descriptor and both names refer to files
\* that exist, a command makes at most one of them, and what is promised is always a list
\* with hashed passwords only (UserStore::save_locked, UserStore::set_password).
TypeOK ==
  /\ disk \in Seq(Files) /\ Len(disk) <= runs + 1
  /\ users \in 0 .. Len(disk) /\ temp \in 0 .. Len(disk)
  /\ clock \in 0 .. MaxClock
  /\ cmd \in [Commands -> Process]
  /\ \A c \in Commands : cmd[c].fd \in 0 .. Len(disk)
  /\ server \in Server
  /\ runs \in 0 .. MaxRuns
  /\ left \in [Hazards -> Nat]
  /\ promised \in Lists
  /\ crowd \in BOOLEAN /\ tied \in BOOLEAN
  /\ seen \subseteq Lists

\* "An interrupted save cannot leave the account list truncated"
\* (users.cpp:105): killed commands, full disks and what they leave in .new
\* never reach users.txt, as long as commands are run one at a time.
ListIsWhole == ~crowd /\ users # 0 => disk[users].whole

\* What a command reported is what the list says, and what it reported as
\* failed is not (users.cpp:164, 187, 204), again one command at a time.
NothingForgotten == ~crowd => Published = promised

\* A sign-in is decided on a list users.txt held while it was being checked,
\* whatever was renamed or rewritten between stamp and content
\* (users.cpp:63-80), as long as every change moved the stamp forward.
SignInIsCurrent == server.pc = "decide" /\ ~tied => server.list \in seen
=============================================================================

--------------------------- MODULE AccountsProofs ---------------------------
(***************************************************************************)
(* What holds of the account list for any names, passwords and processes,  *)
(* and any number of commands, failures and restarts: the types; that one  *)
(* command at a time never leaves a torn list or forgets what it reported; *)
(* and that a sign-in is decided on a list the file held meanwhile.        *)
(***************************************************************************)
EXTENDS Accounts, FiniteSetTheorems, TLAPS

\* A command still to open its .new may make one more inode.
Asked == {c \in Commands : cmd[c].pc = "asked"}
Counts == IsFiniteSet(Asked) /\ Len(disk) + Cardinality(Asked) <= runs + 1

Writing(c) == cmd[c].pc \in {"opened", "written"}

Typed == TypeOK /\ Counts /\ (\A c \in Commands : Writing(c) => cmd[c].fd # 0)

Busy(c) == cmd[c].pc # "idle"
Alone   == \A c, d \in Commands : Busy(c) /\ Busy(d) => c = d

\* How far the only command has come with the list it will publish.
Draft(c) ==
  /\ cmd[c].pc = "asked" => cmd[c].list = promised
  /\ Writing(c) => cmd[c].fd = temp /\ cmd[c].list = Changed(promised, cmd[c])
  /\ cmd[c].pc = "opened" => disk[temp].list = Empty
  /\ cmd[c].pc = "written" => disk[temp].whole /\ disk[temp].list = cmd[c].list

\* ListIsWhole and NothingForgotten rely on what the rename will publish: the .new of the
\* only command, which is not the file it replaces.
Orderly ==
  ~crowd => /\ Alone
            /\ temp # 0 => temp # users
            /\ \A c \in Commands : Draft(c)
            /\ users # 0 => disk[users].whole
            /\ Published = promised

\* SignInIsCurrent relies on what the copy is when no reload is under way: what the file
\* holds, if the file still bears the stamp the copy was read for.
Current ==
  ~tied => /\ server.stamp <= Stamp
           /\ server.pc \notin {"load", "read"} /\ server.stamp = Stamp
                => server.list = Published
           /\ server.pc = "decide" => server.list \in seen

Safe == Typed /\ Orderly /\ Current

-----------------------------------------------------------------------------
(* Types *)

LEMMA IdleTypes == Idle \in Process /\ Idle.pc = "idle" /\ Idle.fd = 0 /\ Empty \in Lists
<1>1. Empty \in Lists
  BY DEF Empty, Lists
<1>2. (CHOOSE n \in Names : TRUE) \in Names /\ (CHOOSE p \in Passwords : TRUE) \in Passwords
  BY AccountsAssumption
<1>3. 0 \in Inodes
  BY AccountsAssumption DEF Inodes
<1> QED BY <1>1, <1>2, <1>3 DEF Idle, Process, Kinds

LEMMA ChangedTypes ==
  ASSUME NEW list \in Lists, NEW me \in Process
  PROVE  Changed(list, me) \in Lists
BY DEF Changed, Lists, Process

\* What the file system shows under users.txt is a list and a stamp, or nothing.
LEMMA SeenTypes == TypeOK => Published \in Lists /\ Stamp \in -1 .. MaxClock
<1> SUFFICES ASSUME TypeOK PROVE Published \in Lists /\ Stamp \in -1 .. MaxClock
  OBVIOUS
<1>1. users # 0 => disk[users] \in Files
  BY DEF TypeOK
<1> QED BY <1>1, IdleTypes, AccountsAssumption DEF Published, Stamp, Files

\* A command's turn changes nobody else's.
LEMMA Turn ==
  ASSUME TypeOK, NEW c \in Commands, NEW p \in Process, cmd' = [cmd EXCEPT ![c] = p]
  PROVE  /\ cmd' \in [Commands -> Process]
         /\ cmd'[c] = p /\ \A d \in Commands : d # c => cmd'[d] = cmd[d]
BY DEF TypeOK

\* A command that leaves its prompt.
LEMMA CountsKeep ==
  ASSUME Typed, Len(disk') = Len(disk), runs' = runs,
         \A c \in Commands : cmd'[c].pc = "asked" => cmd[c].pc = "asked"
  PROVE  Counts'
<1>1. Asked' \subseteq Asked
  BY DEF Asked
<1>2. IsFiniteSet(Asked') /\ Cardinality(Asked') <= Cardinality(Asked)
  BY <1>1, FS_Subset DEF Typed, Counts
<1>3. Cardinality(Asked') \in Nat /\ Cardinality(Asked) \in Nat
  BY <1>2, FS_CardinalityType DEF Typed, Counts
<1>4. Len(disk) \in Nat /\ runs \in Nat /\ Len(disk) + Cardinality(Asked) <= runs + 1
  BY DEF Typed, TypeOK, Counts
<1> QED BY <1>2, <1>3, <1>4 DEF Counts

LEMMA CountsBegin ==
  ASSUME Typed, NEW c \in Commands, Len(disk') = Len(disk), runs' = runs + 1,
         cmd[c].pc = "idle", \A d \in Commands : d # c => cmd'[d] = cmd[d]
  PROVE  Counts'
<1>1. Asked' \subseteq Asked \cup {c}
  BY DEF Asked
<1>2. /\ IsFiniteSet(Asked \cup {c})
      /\ Cardinality(Asked \cup {c}) = Cardinality(Asked) + 1
  BY FS_AddElement DEF Typed, Counts, Asked
<1>3. IsFiniteSet(Asked') /\ Cardinality(Asked') <= Cardinality(Asked \cup {c})
  BY <1>1, <1>2, FS_Subset
<1>4. /\ Cardinality(Asked') \in Nat /\ Cardinality(Asked) \in Nat
      /\ Cardinality(Asked \cup {c}) \in Nat
  BY <1>2, <1>3, FS_CardinalityType DEF Typed, Counts
<1>5. Len(disk) \in Nat /\ runs \in Nat /\ Len(disk) + Cardinality(Asked) <= runs + 1
  BY DEF Typed, TypeOK, Counts
<1> QED BY <1>2, <1>3, <1>4, <1>5 DEF Counts

LEMMA CountsOpen ==
  ASSUME Typed, NEW c \in Commands, Len(disk') \in {Len(disk), Len(disk) + 1}, runs' = runs,
         cmd[c].pc = "asked", cmd'[c].pc # "asked",
         \A d \in Commands : d # c => cmd'[d] = cmd[d]
  PROVE  Counts'
<1>1. Asked' = Asked \ {c} /\ c \in Asked
  BY DEF Asked
<1>2. IsFiniteSet(Asked') /\ Cardinality(Asked') = Cardinality(Asked) - 1
  BY <1>1, FS_RemoveElement DEF Typed, Counts
<1>3. Cardinality(Asked') \in Nat /\ Cardinality(Asked) \in Nat
  BY <1>2, FS_CardinalityType DEF Typed, Counts
<1>4. Len(disk) \in Nat /\ runs \in Nat /\ Len(disk) + Cardinality(Asked) <= runs + 1
  BY DEF Typed, TypeOK, Counts
<1> QED BY <1>2, <1>3, <1>4 DEF Counts

LEMMA SpendTypes ==
  ASSUME TypeOK, NEW hazard \in Hazards, Spend(hazard)
  PROVE  left' \in [Hazards -> Nat]
BY DEF TypeOK, Spend

\* The histories are lists the file held.
LEMMA NoteTypes ==
  ASSUME TypeOK, Note, disk' \in Seq(Files), users' \in 0 .. Len(disk')
  PROVE  tied' \in BOOLEAN /\ seen' \subseteq Lists
<1>1. Published' \in Lists
  <2>1. users' # 0 => disk'[users'] \in Files
    OBVIOUS
  <2> QED BY <2>1, IdleTypes DEF Published, Files
<1> QED BY <1>1 DEF Note, TypeOK

\* What is written over a file is a file; over an empty one it is whole.
LEMMA OverwrittenTypes ==
  ASSUME NEW old \in Files, NEW new \in Lists, NEW file \in Overwritten(old, new),
         clock \in 0 .. MaxClock
  PROVE  /\ file \in Files
         /\ old.list = Empty => file.whole /\ file.list = new
<1>1. PICK tail \in SUBSET Listed(old.list) :
        file = [list |-> [n \in Names |-> IF n \in tail THEN old.list[n] ELSE new[n]],
                whole |-> tail = {}, stamp |-> clock]
  BY DEF Overwritten
<1>2. file \in Files
  BY <1>1 DEF Files, Lists
<1>3. ASSUME old.list = Empty PROVE file.whole /\ file.list = new
  <2>1. tail = {}
    BY <1>3 DEF Listed, Empty
  <2> QED BY <1>1, <2>1 DEF Lists
<1> QED BY <1>2, <1>3

LEMMA InitTyped == Init => Typed
<1> SUFFICES ASSUME Init PROVE Typed
  OBVIOUS
<1>1. disk \in Seq(Files) /\ Len(disk) <= 1 /\ users \in 0 .. Len(disk) /\ promised \in Lists
  <2>1. CASE disk = <<>> /\ users = 0 /\ promised = Empty
    BY <2>1, IdleTypes
  <2>2. CASE /\ promised \in Lists
             /\ disk = <<[list |-> promised, whole |-> TRUE, stamp |-> 0]>>
             /\ users = 1
    <3>1. [list |-> promised, whole |-> TRUE, stamp |-> 0] \in Files
      BY <2>2, AccountsAssumption DEF Files
    <3> QED BY <2>2, <3>1
  <2> QED BY <2>1, <2>2 DEF Init
<1>2. /\ cmd \in [Commands -> Process]
      /\ \A c \in Commands : cmd[c].fd = 0 /\ cmd[c].pc = "idle"
  BY IdleTypes DEF Init
<1>3. server \in Server
  BY IdleTypes, AccountsAssumption DEF Init, Server
<1>4. TypeOK
  <2>1. Len(disk) \in Nat /\ Len(disk) <= runs + 1 /\ runs \in 0 .. MaxRuns
    BY <1>1, AccountsAssumption DEF Init
  <2>2. temp \in 0 .. Len(disk) /\ clock \in 0 .. MaxClock /\ left \in [Hazards -> Nat]
    BY <2>1, AccountsAssumption DEF Init
  <2>3. \A c \in Commands : cmd[c].fd \in 0 .. Len(disk)
    BY <1>2, <2>1
  <2> QED BY <1>1, <1>2, <1>3, <2>1, <2>2, <2>3 DEF Init, TypeOK
<1>5. Asked = {}
  BY <1>2 DEF Asked
<1>6. Counts
  BY <1>1, <1>5, FS_EmptySet DEF Counts, Init
<1> QED BY <1>2, <1>4, <1>6 DEF Typed, Writing

\* A step of a command that touches the files, but neither makes nor loses one, and leaves
\* the prompt if it moves at all.
LEMMA CommandTyped ==
  ASSUME Typed, Note, NEW c \in Commands, NEW p \in Process,
         cmd' = [cmd EXCEPT ![c] = p],
         cmd[c].pc # "idle", p.pc # "asked",
         p.fd = 0 \/ p.fd = cmd[c].fd,
         p.pc \in {"opened", "written"} => Writing(c) /\ p.fd = cmd[c].fd,
         disk' \in Seq(Files), Len(disk') = Len(disk),
         users' \in 0 .. Len(disk), temp' \in 0 .. Len(disk),
         promised' \in Lists, left' \in [Hazards -> Nat], UNCHANGED <<clock, server, runs, crowd>>
  PROVE  Typed'
<1>1. /\ cmd' \in [Commands -> Process]
      /\ cmd'[c] = p /\ \A d \in Commands : d # c => cmd'[d] = cmd[d]
  BY Turn DEF Typed
<1>2. Counts'
  BY <1>1, CountsKeep
<1>3. \A d \in Commands : cmd'[d].fd \in 0 .. Len(disk') /\ (Writing(d)' => cmd'[d].fd # 0)
  BY <1>1 DEF Typed, TypeOK, Writing
<1>4. tied' \in BOOLEAN /\ seen' \subseteq Lists
  BY NoteTypes DEF Typed
<1> QED BY <1>1, <1>2, <1>3, <1>4 DEF Typed, TypeOK

\* A step of the server or of the clock.
LEMMA ServerTyped ==
  ASSUME Typed, Note, server' \in Server, clock' \in 0 .. MaxClock, left' \in [Hazards -> Nat],
         UNCHANGED <<disk, users, temp, cmd, runs, promised, crowd>>
  PROVE  Typed'
<1>1. Counts'
  BY CountsKeep
<1>2. tied' \in BOOLEAN /\ seen' \subseteq Lists
  BY NoteTypes DEF Typed, TypeOK
<1> QED BY <1>1, <1>2 DEF Typed, TypeOK, Writing

LEMMA TypedStep == Typed /\ [Next]_vars => Typed'
<1> SUFFICES ASSUME Typed, [Next]_vars PROVE Typed'
  OBVIOUS
<1>0. /\ disk \in Seq(Files) /\ Len(disk) \in Nat /\ Len(disk) <= runs + 1
      /\ users \in 0 .. Len(disk) /\ temp \in 0 .. Len(disk)
      /\ clock \in 0 .. MaxClock /\ promised \in Lists /\ left \in [Hazards -> Nat]
      /\ \A c \in Commands : cmd[c] \in Process /\ cmd[c].fd \in 0 .. Len(disk)
      /\ server \in Server /\ runs \in 0 .. MaxRuns /\ crowd \in BOOLEAN
      /\ cmd \in [Commands -> Process]
  BY DEF Typed, TypeOK
<1>1. ASSUME Note, NEW c \in Commands, NEW kind \in Kinds, NEW n \in Names, NEW p \in Passwords,
             Begin(c, kind, n, p)
      PROVE  Typed'
  <2> DEFINE me == [Idle EXCEPT !.pc = "asked", !.kind = kind, !.name = n, !.password = p,
                                !.list = Published]
  <2>1. me \in Process /\ me.pc = "asked" /\ me.fd = 0
    BY IdleTypes, SeenTypes DEF Typed, Process
  <2>2. cmd' = [cmd EXCEPT ![c] = me]
    BY <1>1 DEF Begin
  <2> HIDE DEF me
  <2>3. /\ cmd' \in [Commands -> Process]
        /\ cmd'[c] = me /\ \A d \in Commands : d # c => cmd'[d] = cmd[d]
    BY <2>1, <2>2, Turn DEF Typed
  <2>4. Counts' /\ runs' \in 0 .. MaxRuns /\ Len(disk') <= runs' + 1
    BY <1>0, <1>1, <2>3, CountsBegin, AccountsAssumption DEF Begin
  <2>5. \A d \in Commands : cmd'[d].fd \in 0 .. Len(disk') /\ (Writing(d)' => cmd'[d].fd # 0)
    <3> SUFFICES ASSUME NEW d \in Commands
                 PROVE  cmd'[d].fd \in 0 .. Len(disk') /\ (Writing(d)' => cmd'[d].fd # 0)
      OBVIOUS
    <3>1. disk' = disk
      BY <1>1 DEF Begin
    <3>2. CASE d = c
      BY <1>0, <2>1, <2>3, <3>1, <3>2 DEF Writing
    <3>3. CASE d # c
      BY <1>0, <2>3, <3>1, <3>3 DEF Typed, Writing
    <3> QED BY <3>2, <3>3
  <2>6. tied' \in BOOLEAN /\ seen' \subseteq Lists
    BY <1>0, <1>1, NoteTypes DEF Typed, Begin
  <2> QED BY <1>0, <1>1, <2>3, <2>4, <2>5, <2>6 DEF Begin, Typed, TypeOK
<1>2. ASSUME Note, NEW c \in Commands, Refuse(c) PROVE Typed'
  BY <1>0, <1>2, CommandTyped, IdleTypes DEF Refuse, End
<1>3. ASSUME Note, NEW c \in Commands, OpenNew(c) PROVE Typed'
  <2> DEFINE new == IF temp = 0 THEN Len(disk) + 1 ELSE temp
             blank == [list |-> Empty, whole |-> FALSE, stamp |-> clock]
             me == [cmd[c] EXCEPT !.pc = "opened", !.fd = new,
                                  !.list = Changed(cmd[c].list, cmd[c])]
  <2>1. blank \in Files
    BY <1>0, IdleTypes DEF Files
  <2>2. disk' = (IF temp = 0 THEN Append(disk, blank) ELSE [disk EXCEPT ![temp] = blank])
    BY <1>3 DEF OpenNew
  <2>3. /\ disk' \in Seq(Files) /\ Len(disk') \in {Len(disk), Len(disk) + 1}
        /\ new \in 1 .. Len(disk')
    <3> HIDE DEF blank
    <3>1. CASE temp = 0
      BY <1>0, <2>1, <2>2, <3>1
    <3>2. CASE temp # 0
      BY <1>0, <2>1, <2>2, <3>2
    <3> QED BY <3>1, <3>2
  <2>4. cmd[c].list \in Lists /\ Changed(cmd[c].list, cmd[c]) \in Lists
    BY <1>0, ChangedTypes DEF Process
  <2> HIDE DEF blank
  <2>5. cmd' = [cmd EXCEPT ![c] = me]
    BY <1>0, <1>3 DEF OpenNew
  <2> HIDE DEF new
  <2>6. /\ cmd[c].pc = "asked" /\ runs' = runs
        /\ UNCHANGED <<users, clock, server, left, promised, crowd>> /\ temp' = new
    BY <1>3 DEF OpenNew, new
  <2>7. /\ \A d \in Commands : d # c => cmd'[d] = cmd[d]
        /\ cmd'[c] = me /\ me.pc = "opened" /\ me.fd = new
    BY <1>0, <2>5 DEF Process
  <2>8. Counts'
    BY <2>3, <2>6, <2>7, CountsOpen
  <2>9. Len(disk') \in Nat /\ Len(disk') <= runs + 1
    <3>1. Cardinality(Asked') \in Nat
      BY <2>8, FS_CardinalityType DEF Counts
    <3>2. Len(disk') + Cardinality(Asked') <= runs + 1 /\ runs \in Nat
      BY <1>0, <2>6, <2>8 DEF Counts
    <3>3. Len(disk') \in Nat
      BY <1>0, <2>3
    <3> QED BY <3>1, <3>2, <3>3
  <2>10. me \in Process
    <3>1. new \in Inodes
      BY <1>0, <2>3, <2>9, AccountsAssumption DEF Inodes
    <3> QED BY <1>0, <2>4, <3>1 DEF Process
  <2> HIDE DEF me
  <2>11. cmd' \in [Commands -> Process]
    BY <2>5, <2>10, Turn DEF Typed
  <2>12. users \in 0 .. Len(disk') /\ new \in 0 .. Len(disk')
    BY <1>0, <2>3
  <2>13. \A d \in Commands : cmd'[d].fd \in 0 .. Len(disk') /\ (Writing(d)' => cmd'[d].fd # 0)
    BY <1>0, <2>3, <2>7 DEF Typed, Writing
  <2>14. tied' \in BOOLEAN /\ seen' \subseteq Lists
    BY <1>3, <2>3, <2>6, <2>12, NoteTypes DEF Typed
  <2> QED BY <1>0, <2>3, <2>6, <2>8, <2>9, <2>11, <2>12, <2>13, <2>14 DEF Typed, TypeOK
<1>4. ASSUME Note, NEW c \in Commands, Flush(c) PROVE Typed'
  <2>1. cmd[c].fd \in 1 .. Len(disk) /\ disk[cmd[c].fd] \in Files /\ cmd[c].list \in Lists
    BY <1>0, <1>4 DEF Typed, Writing, Flush, Process
  <2>2. PICK file \in Overwritten(disk[cmd[c].fd], cmd[c].list) :
          disk' = [disk EXCEPT ![cmd[c].fd] = file]
    BY <1>4 DEF Flush
  <2>3. file \in Files
    BY <1>0, <2>1, <2>2, OverwrittenTypes
  <2>4. disk' \in Seq(Files) /\ Len(disk') = Len(disk)
    BY <1>0, <2>1, <2>2, <2>3
  <2> DEFINE me == [cmd[c] EXCEPT !.pc = "written"]
  <2>5. cmd' = [cmd EXCEPT ![c] = me] /\ me \in Process /\ me.pc = "written" /\ me.fd = cmd[c].fd
    BY <1>0, <1>4 DEF Flush, Process
  <2> HIDE DEF me
  <2> QED BY <1>0, <1>4, <2>4, <2>5, CommandTyped DEF Flush, Writing
<1>5. ASSUME Note, NEW c \in Commands, FlushFails(c) PROVE Typed'
  <2>1. cmd[c].fd \in 1 .. Len(disk) /\ cmd[c].list \in Lists
    BY <1>0, <1>5 DEF Typed, Writing, FlushFails, Process
  <2>2. PICK kept \in SUBSET Listed(cmd[c].list) :
          disk' = [disk EXCEPT ![cmd[c].fd] =
                    [list |-> [n \in Names |-> IF n \in kept THEN cmd[c].list[n] ELSE NoAccount],
                     whole |-> FALSE, stamp |-> clock]]
    BY <1>5 DEF FlushFails
  <2>3. [list |-> [n \in Names |-> IF n \in kept THEN cmd[c].list[n] ELSE NoAccount],
         whole |-> FALSE, stamp |-> clock] \in Files
    BY <1>0, <2>1 DEF Files, Lists
  <2>4. disk' \in Seq(Files) /\ Len(disk') = Len(disk)
    BY <1>0, <2>1, <2>2, <2>3
  <2>5. left' \in [Hazards -> Nat]
    BY <1>5, SpendTypes DEF FlushFails, Hazards, Typed
  <2> QED BY <1>0, <1>5, <2>4, <2>5, CommandTyped, IdleTypes DEF FlushFails, End
<1>6. ASSUME Note, NEW c \in Commands, Rename(c) PROVE Typed'
  <2>1. Changed(promised, cmd[c]) \in Lists
    BY <1>0, ChangedTypes
  <2>2. users' \in 0 .. Len(disk) /\ temp' \in 0 .. Len(disk)
    BY <1>0, <1>6 DEF Rename
  <2>3. /\ cmd' = [cmd EXCEPT ![c] = Idle] /\ cmd[c].pc # "idle" /\ promised' \in Lists
        /\ UNCHANGED <<disk, clock, server, runs, left, crowd>>
    BY <1>6, <2>1 DEF Rename, End
  <2> QED BY <1>0, <1>6, <2>2, <2>3, CommandTyped, IdleTypes
<1>7. ASSUME Note, NEW c \in Commands, RenameFails(c) PROVE Typed'
  <2>1. left' \in [Hazards -> Nat]
    BY <1>0, <1>7, SpendTypes DEF RenameFails, Hazards, Typed
  <2>2. users' \in 0 .. Len(disk) /\ temp' \in 0 .. Len(disk)
    BY <1>0, <1>7 DEF RenameFails
  <2>3. /\ cmd' = [cmd EXCEPT ![c] = Idle] /\ cmd[c].pc # "idle"
        /\ UNCHANGED <<disk, clock, server, runs, promised, crowd>>
    BY <1>7 DEF RenameFails, End
  <2> QED BY <1>0, <1>7, <2>1, <2>2, <2>3, CommandTyped, IdleTypes
<1>8. ASSUME Note, NEW c \in Commands, Kill(c) PROVE Typed'
  <2>1. left' \in [Hazards -> Nat]
    BY <1>8, SpendTypes DEF Kill, Hazards, Typed
  <2> QED BY <1>0, <1>8, <2>1, CommandTyped, IdleTypes DEF Kill, End
<1>9. CASE TakeStamp /\ Note
  <2>1. server' \in Server
    BY <1>0, <1>9, SeenTypes DEF TakeStamp, Typed, Server
  <2> QED BY <1>0, <1>9, <2>1, ServerTyped DEF TakeStamp
<1>10. CASE ReadList /\ Note
  <2>1. server' \in Server
    BY <1>0, <1>10, SeenTypes DEF ReadList, Typed, Server
  <2> QED BY <1>0, <1>10, <2>1, ServerTyped DEF ReadList
<1>11. CASE Decide /\ Note
  <2>1. server' \in Server
    BY <1>0, <1>11 DEF Decide, Server
  <2> QED BY <1>0, <1>11, <2>1, ServerTyped DEF Decide
<1>12. CASE Restart /\ Note
  <2>1. server' \in Server /\ left' \in [Hazards -> Nat]
    BY <1>12, IdleTypes, AccountsAssumption, SpendTypes DEF Restart, Server, Hazards, Typed
  <2> QED BY <1>0, <1>12, <2>1, ServerTyped DEF Restart
<1>13. CASE Tick /\ Note
  <2>1. clock' \in 0 .. MaxClock
    BY <1>0, <1>13, AccountsAssumption DEF Tick
  <2> QED BY <1>0, <1>13, <2>1, ServerTyped DEF Tick
<1>14. CASE UNCHANGED vars
  BY <1>14 DEF vars, Typed, TypeOK, Counts, Asked, Writing
<1> QED
  BY <1>1, <1>2, <1>3, <1>4, <1>5, <1>6, <1>7, <1>8, <1>9, <1>10, <1>11, <1>12, <1>13,
     <1>14 DEF Next, Step, Proceed

-----------------------------------------------------------------------------
(* One command at a time *)

\* When the only command ends, nobody's copy of the list matters any more.
LEMMA EndOrderly ==
  ASSUME Typed, Orderly, NEW c \in Commands, Busy(c), End(c), crowd' = crowd,
         ~crowd => /\ temp' # 0 => temp' # users'
                   /\ users' # 0 => disk'[users'].whole
                   /\ Published' = promised'
  PROVE  Orderly'
<1> SUFFICES ASSUME ~crowd
             PROVE  Alone' /\ \A d \in Commands : Draft(d)'
  BY DEF Orderly
<1>1. \A d \in Commands : cmd'[d].pc = "idle"
  <2>1. \A d \in Commands : d # c => cmd[d].pc = "idle"
    BY DEF Orderly, Alone, Busy
  <2>2. cmd'[c] = Idle /\ \A d \in Commands : d # c => cmd'[d] = cmd[d]
    BY IdleTypes, Turn DEF Typed, End
  <2> QED BY <2>1, <2>2, IdleTypes
<1> QED BY <1>1 DEF Alone, Busy, Draft, Writing

LEMMA BeginOrderly ==
  ASSUME Typed, Orderly, NEW c \in Commands, NEW kind \in Kinds, NEW n \in Names,
         NEW p \in Passwords, Begin(c, kind, n, p)
  PROVE  Orderly'
<1> SUFFICES ASSUME ~crowd' PROVE Orderly'
  BY DEF Orderly
<1>1. ~crowd /\ \A d \in Commands : cmd[d].pc = "idle"
  BY DEF Begin
<1> DEFINE me == [Idle EXCEPT !.pc = "asked", !.kind = kind, !.name = n, !.password = p,
                              !.list = Published]
<1>2. me \in Process /\ me.pc = "asked" /\ me.list = Published
  BY IdleTypes, SeenTypes DEF Typed, Process
<1>3. cmd' = [cmd EXCEPT ![c] = me]
  BY DEF Begin
<1> HIDE DEF me
<1>4. cmd'[c] = me /\ \A d \in Commands : d # c => cmd'[d] = cmd[d]
  BY <1>2, <1>3, Turn DEF Typed
<1>5. Published' = Published /\ promised' = promised
  BY DEF Begin, Published
<1>6. Alone'
  BY <1>1, <1>4 DEF Alone, Busy
<1>7. \A d \in Commands : Draft(d)'
  BY <1>1, <1>2, <1>4, <1>5 DEF Orderly, Draft, Writing
<1> QED BY <1>1, <1>5, <1>6, <1>7 DEF Orderly, Begin

\* Only the named list, kind and password decide what a change makes of a list.
LEMMA ChangedSame ==
  ASSUME NEW list, NEW me, NEW you, me.kind = you.kind, me.name = you.name,
         me.password = you.password
  PROVE  Changed(list, me) = Changed(list, you)
BY DEF Changed

LEMMA OpenOrderly ==
  ASSUME Typed, Orderly, NEW c \in Commands, OpenNew(c)
  PROVE  Orderly'
<1> SUFFICES ASSUME ~crowd' PROVE Orderly'
  BY DEF Orderly
<1> DEFINE new == IF temp = 0 THEN Len(disk) + 1 ELSE temp
           blank == [list |-> Empty, whole |-> FALSE, stamp |-> clock]
           me == [cmd[c] EXCEPT !.pc = "opened", !.fd = new,
                                !.list = Changed(cmd[c].list, cmd[c])]
<1>0. /\ ~crowd /\ cmd[c].pc = "asked" /\ cmd[c] \in Process /\ cmd[c].list = promised
      /\ temp' = new /\ users' = users /\ promised' = promised
      /\ disk \in Seq(Files) /\ Len(disk) \in Nat
      /\ users \in 0 .. Len(disk) /\ temp \in 0 .. Len(disk) /\ (temp # 0 => temp # users)
  BY DEF OpenNew, Orderly, Draft, Typed, TypeOK
<1>1. disk' = (IF temp = 0 THEN Append(disk, blank) ELSE [disk EXCEPT ![temp] = blank])
  BY DEF OpenNew
<1>2. blank.list = Empty
  OBVIOUS
<1>3. new \in Nat /\ new # 0 /\ new # users
  BY <1>0
<1>4. disk'[new] = blank /\ (users # 0 => disk'[users] = disk[users])
  <2> HIDE DEF blank
  <2>1. CASE temp = 0
    BY <1>0, <1>1, <2>1
  <2>2. CASE temp # 0
    BY <1>0, <1>1, <2>2
  <2> QED BY <2>1, <2>2
<1> HIDE DEF blank
<1>5. cmd' = [cmd EXCEPT ![c] = me]
  BY DEF OpenNew, Typed, TypeOK
<1>6. /\ me.pc = "opened" /\ me.fd = new /\ me.list = Changed(promised, cmd[c])
      /\ me.kind = cmd[c].kind /\ me.name = cmd[c].name /\ me.password = cmd[c].password
  BY <1>0 DEF Process
<1> HIDE DEF new, me
<1>7. me.list = Changed(promised, me)
  BY <1>6, ChangedSame
<1>8. cmd'[c] = me /\ \A d \in Commands : d # c => cmd'[d] = cmd[d] /\ cmd[d].pc = "idle"
  BY <1>0, <1>5 DEF Typed, TypeOK, Orderly, Alone, Busy
<1>9. Alone'
  BY <1>8 DEF Alone, Busy
<1>10. \A d \in Commands : Draft(d)'
  BY <1>0, <1>2, <1>4, <1>6, <1>7, <1>8 DEF Draft, Writing
<1>11. users' # 0 => disk'[users'].whole
  BY <1>0, <1>4 DEF Orderly
<1>12. Published' = promised'
  BY <1>0, <1>4 DEF Orderly, Published
<1> QED BY <1>0, <1>3, <1>9, <1>10, <1>11, <1>12 DEF Orderly

LEMMA FlushOrderly ==
  ASSUME Typed, Orderly, NEW c \in Commands, Flush(c)
  PROVE  Orderly'
<1> SUFFICES ASSUME ~crowd' PROVE Orderly'
  BY DEF Orderly
<1> DEFINE me == [cmd[c] EXCEPT !.pc = "written"]
<1>0. /\ ~crowd /\ cmd[c].pc = "opened" /\ cmd[c] \in Process /\ cmd[c].list \in Lists
      /\ cmd[c].fd = temp /\ temp # 0 /\ temp # users /\ temp \in 1 .. Len(disk)
      /\ disk[temp].list = Empty /\ cmd[c].list = Changed(promised, cmd[c])
      /\ UNCHANGED <<users, temp, promised, clock>> /\ disk[temp] \in Files
      /\ disk \in Seq(Files) /\ clock \in 0 .. MaxClock
  BY DEF Flush, Orderly, Draft, Writing, Typed, TypeOK, Process
<1>1. PICK file \in Overwritten(disk[temp], cmd[c].list) : disk' = [disk EXCEPT ![temp] = file]
  BY <1>0 DEF Flush
<1>2. file.whole /\ file.list = cmd[c].list
  BY <1>0, <1>1, OverwrittenTypes
<1>3. disk'[temp] = file /\ (users # 0 => disk'[users] = disk[users])
  BY <1>0, <1>1
<1>4. /\ cmd' = [cmd EXCEPT ![c] = me]
      /\ me.pc = "written" /\ me.fd = temp /\ me.list = cmd[c].list
      /\ me.kind = cmd[c].kind /\ me.name = cmd[c].name /\ me.password = cmd[c].password
  BY <1>0 DEF Flush, Typed, TypeOK, Process
<1> HIDE DEF me
<1>5. me.list = Changed(promised, me)
  BY <1>0, <1>4, ChangedSame
<1>6. cmd'[c] = me /\ \A d \in Commands : d # c => cmd'[d] = cmd[d] /\ cmd[d].pc = "idle"
  BY <1>0, <1>4 DEF Typed, TypeOK, Orderly, Alone, Busy
<1>7. Alone'
  BY <1>6 DEF Alone, Busy
<1>8. \A d \in Commands : Draft(d)'
  BY <1>0, <1>2, <1>3, <1>4, <1>5, <1>6 DEF Draft, Writing
<1>9. users' # 0 => disk'[users'].whole
  BY <1>0, <1>3 DEF Orderly
<1>10. Published' = promised'
  BY <1>0, <1>3 DEF Orderly, Published
<1> QED BY <1>0, <1>7, <1>8, <1>9, <1>10 DEF Orderly

LEMMA InitOrderly == Init => Orderly
<1> SUFFICES ASSUME Init PROVE Orderly
  OBVIOUS
<1>1. \A c \in Commands : cmd[c].pc = "idle"
  BY IdleTypes DEF Init
<1>2. (users # 0 => disk[users].whole) /\ Published = promised
  BY DEF Init, Published
<1> QED BY <1>1, <1>2 DEF Orderly, Alone, Busy, Draft, Writing, Init

LEMMA OrderlyStep == Typed /\ Orderly /\ [Next]_vars => Orderly'
<1> SUFFICES ASSUME Typed, Orderly, [Next]_vars PROVE Orderly'
  OBVIOUS
<1>1. ASSUME UNCHANGED <<disk, users, temp, cmd, promised, crowd>> PROVE Orderly'
  BY <1>1 DEF Orderly, Alone, Busy, Draft, Writing, Published
<1>2. ASSUME NEW c \in Commands, NEW kind \in Kinds, NEW n \in Names, NEW p \in Passwords,
             Begin(c, kind, n, p)
      PROVE  Orderly'
  BY <1>2, BeginOrderly
<1>3. ASSUME NEW c \in Commands, Refuse(c) \/ Kill(c) PROVE Orderly'
  <2>1. Busy(c) /\ End(c) /\ UNCHANGED <<disk, users, temp, promised, crowd>>
    BY <1>3 DEF Refuse, Kill, Busy
  <2> QED BY <2>1, EndOrderly DEF Orderly, Published
<1>4. ASSUME NEW c \in Commands, OpenNew(c) PROVE Orderly'
  BY <1>4, OpenOrderly
<1>5. ASSUME NEW c \in Commands, Flush(c) PROVE Orderly'
  BY <1>5, FlushOrderly
<1>6. ASSUME NEW c \in Commands, FlushFails(c) PROVE Orderly'
  <2>1. Busy(c) /\ End(c) /\ UNCHANGED <<users, temp, promised, crowd>>
    BY <1>6 DEF FlushFails, Busy
  <2>2. ~crowd /\ users # 0 => disk'[users] = disk[users]
    BY <1>6 DEF FlushFails, Typed, TypeOK, Orderly, Draft, Writing
  <2> QED BY <2>1, <2>2, EndOrderly DEF Orderly, Published
<1>7. ASSUME NEW c \in Commands, Rename(c) PROVE Orderly'
  <2>1. /\ Busy(c) /\ End(c) /\ users' = temp /\ temp # 0 /\ temp' = 0
        /\ UNCHANGED <<disk, crowd>> /\ promised' = Changed(promised, cmd[c])
    BY <1>7 DEF Rename, Busy
  <2>2. ~crowd => /\ disk[temp].whole
                  /\ disk[temp].list = Changed(promised, cmd[c])
    BY <1>7 DEF Rename, Orderly, Draft, Writing
  <2>3. ~crowd => Published' = promised'
    BY <2>1, <2>2 DEF Published
  <2> QED BY <2>1, <2>2, <2>3, EndOrderly
<1>8. ASSUME NEW c \in Commands, RenameFails(c) PROVE Orderly'
  <2>1. /\ Busy(c) /\ End(c) /\ temp' = 0 /\ UNCHANGED <<disk, users, promised, crowd>>
    BY <1>8 DEF RenameFails, Busy
  <2> QED BY <2>1, EndOrderly DEF Orderly, Published
<1>9. CASE TakeStamp \/ ReadList \/ Decide \/ Restart \/ Tick \/ UNCHANGED vars
  BY <1>1, <1>9 DEF TakeStamp, ReadList, Decide, Restart, Tick, vars
<1> QED
  BY <1>2, <1>3, <1>4, <1>5, <1>6, <1>7, <1>8, <1>9 DEF Next, Step, Proceed

-----------------------------------------------------------------------------
(* The server's copy *)

\* A step of somebody else: the stamp stays with the content, or has moved on.
LEMMA OthersCurrent ==
  ASSUME Typed, Typed', Current, Note, server' = server
  PROVE  Current'
<1> SUFFICES ASSUME ~tied' PROVE Current'
  BY DEF Current
<1>1. /\ ~tied /\ ~(Stamp' < Stamp) /\ (Stamp' = Stamp => Published' = Published)
      /\ server.pc = "decide" => seen \subseteq seen'
  BY DEF Note
<1>2. Stamp \in Int /\ Stamp' \in Int /\ server.stamp \in Int
  <2>1. Stamp \in -1 .. MaxClock /\ Stamp' \in -1 .. MaxClock
    <3>1. TypeOK' => (Stamp \in -1 .. MaxClock)'
      BY SeenTypes, PTL
    <3> QED BY <3>1, SeenTypes DEF Typed
  <2> QED BY <2>1, AccountsAssumption DEF Typed, TypeOK, Server
<1>3. Stamp <= Stamp' /\ server.stamp <= Stamp /\ server.stamp <= Stamp'
  BY <1>1, <1>2 DEF Current
<1>4. server.stamp = Stamp' => server.stamp = Stamp /\ Published' = Published
  BY <1>1, <1>2, <1>3
<1> QED BY <1>1, <1>3, <1>4 DEF Current

\* A step of the server, which leaves the file alone.
LEMMA OwnCurrent ==
  ASSUME Typed, Current, Note, UNCHANGED <<disk, users>>,
         TakeStamp \/ ReadList \/ Decide \/ Restart
  PROVE  Current'
<1> SUFFICES ASSUME ~tied' PROVE Current'
  BY DEF Current
<1>1. /\ ~tied /\ Stamp' = Stamp /\ Published' = Published /\ Published \in seen'
      /\ server \in Server /\ Stamp \in Int
  BY SeenTypes, AccountsAssumption DEF Note, Stamp, Published, Typed, TypeOK
<1>2. CASE TakeStamp
  <2>1. users = 0 => Stamp = -1 /\ server.stamp = Stamp
    BY <1>1 DEF Stamp, Current, Server
  <2> QED BY <1>1, <1>2, <2>1 DEF Current, TakeStamp, Server
<1>3. CASE ReadList
  BY <1>1, <1>3 DEF Current, ReadList, Server
<1>4. CASE Decide
  BY <1>1, <1>4 DEF Current, Decide, Server
<1>5. CASE Restart
  <2>1. Stamp >= -1 /\ (Stamp = -1 => Published = Empty)
    <3>1. users # 0 => disk[users].stamp \in 0 .. MaxClock
      <4>1. users # 0 => disk[users] \in Files
        BY DEF Typed, TypeOK
      <4> QED BY <4>1 DEF Files
    <3> QED BY <3>1, AccountsAssumption DEF Stamp, Published
  <2> QED BY <1>1, <1>5, <2>1 DEF Current, Restart
<1> QED BY <1>2, <1>3, <1>4, <1>5

LEMMA InitCurrent == Init => Current
<1> SUFFICES ASSUME Init PROVE Current
  OBVIOUS
<1>1. server.stamp = -1 /\ server.pc = "boot" /\ server.list = Empty
  BY DEF Init
<1>2. Stamp \in {-1, 0} /\ (Stamp = -1 => Published = Empty)
  BY DEF Init, Stamp, Published
<1> QED BY <1>1, <1>2 DEF Current

LEMMA CurrentStep == Typed /\ Typed' /\ Current /\ [Next]_vars => Current'
<1> SUFFICES ASSUME Typed, Typed', Current, [Next]_vars PROVE Current'
  OBVIOUS
<1>1. CASE UNCHANGED vars
  BY <1>1 DEF vars, Current, Stamp, Published
<1>2. CASE Note /\ (TakeStamp \/ ReadList \/ Decide \/ Restart)
  BY <1>2, OwnCurrent DEF TakeStamp, ReadList, Decide, Restart
<1>3. CASE Note /\ server' = server
  BY <1>3, OthersCurrent
<1> QED
  BY <1>1, <1>2, <1>3 DEF Next, Step, Proceed, Begin, Refuse, OpenNew, Flush, FlushFails,
     Rename, RenameFails, Kill, Tick

-----------------------------------------------------------------------------
\* The whole invariant holds in every reachable state.
THEOREM SafeAlways == Spec => []Safe
<1>1. Init => Safe
  BY InitTyped, InitOrderly, InitCurrent DEF Safe
<1>2. Safe /\ [Next]_vars => Safe'
  BY TypedStep, OrderlyStep, CurrentStep DEF Safe
<1> QED BY <1>1, <1>2, PTL DEF Spec

\* Every variable stays within its range: the names and the descriptors lead to inodes that
\* exist, and only hashed passwords are listed (UserStore::save_locked).
THEOREM TypeCorrect == Spec => []TypeOK
<1>1. Safe => TypeOK
  BY DEF Safe, Typed
<1> QED BY <1>1, SafeAlways, PTL

\* An interrupted save never leaves users.txt torn, one command at a time
\* (UserStore::save_locked).
THEOREM ListStaysWhole == Spec => []ListIsWhole
<1>1. Safe => ListIsWhole
  BY DEF Safe, Orderly, ListIsWhole
<1> QED BY <1>1, SafeAlways, PTL

\* users.txt says what the commands reported, no more and no less, one command at a time
\* (UserStore::add, set_password, remove).
THEOREM NothingIsForgotten == Spec => []NothingForgotten
<1>1. Safe => NothingForgotten
  BY DEF Safe, Orderly, NothingForgotten
<1> QED BY <1>1, SafeAlways, PTL

\* A sign-in is decided on a list the file held while it was checked, as long as every
\* change moved the stamp forward (UserStore::reload_if_changed_locked).
THEOREM SignInsAreCurrent == Spec => []SignInIsCurrent
<1>1. Safe => SignInIsCurrent
  BY DEF Safe, Current, SignInIsCurrent
<1> QED BY <1>1, SafeAlways, PTL
=============================================================================

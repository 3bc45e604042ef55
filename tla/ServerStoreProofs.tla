------------------------- MODULE ServerStoreProofs -------------------------
(***************************************************************************)
(* What holds of ServerStore for every set of sessions, keys, tags and     *)
(* sizes and whatever hazards strike: the mutex excludes, every stored     *)
(* file is the whole body of one upload made for its name, the tag beside  *)
(* it fits as long as no sidecar write is lost, no temporary file outlives *)
(* its upload, and the storage implements FileRegister.                    *)
(***************************************************************************)
EXTENDS StoreRefinement, TLAPS

-----------------------------------------------------------------------------
(* What a step does to the thread that takes it *)

\* A thread between commands is a well-formed, empty thread.
LEMMA IdleIsAThread == Idle \in Threads
<1>1. (CHOOSE k \in Keys : TRUE) \in Keys
  BY StoreAssumption
<1> QED
  BY <1>1, StoreAssumption DEF Idle, Threads, Labels, Stored, Nothing

\* What an empty thread holds.
LEMMA IdleFields ==
  Idle.pc = "idle" /\ Idle.want = 0 /\ Idle.got = 0
BY DEF Idle

\* The thread of one session changes, the others stay where they are.
Only(s) == \A r \in Sessions : r # s => session'[r] = session[r]

\* A thread goes on with the same upload, size and count.
Stays(s) ==
  /\ session'[s].key = session[s].key
  /\ session'[s].upload = session[s].upload
  /\ session'[s].want = session[s].want
  /\ session'[s].got = session[s].got

\* A thread that goes on inside its command changes its place and nothing else.
LEMMA Turned ==
  ASSUME TypeOK, NEW s \in Sessions, NEW label \in Labels, Goto(s, label)
  PROVE  /\ session' \in [Sessions -> Threads]
         /\ Only(s)
         /\ session'[s].pc = label
         /\ Stays(s)
BY DEF TypeOK, Goto, Threads, Only, Stays

\* A thread that ends its command is between commands.
LEMMA Ended ==
  ASSUME TypeOK, NEW s \in Sessions, End(s)
  PROVE  /\ session' \in [Sessions -> Threads]
         /\ Only(s)
         /\ session'[s].pc = "idle"
         /\ session'[s].want = 0 /\ session'[s].got = 0
<1>1. session' \in [Sessions -> Threads] /\ Only(s) /\ session'[s] = Idle
  BY IdleIsAThread DEF TypeOK, End, Only
<1> QED
  BY <1>1, IdleFields

\* A thread that moved one buffer has moved one more.
LEMMA Counted ==
  ASSUME TypeOK, NEW s \in Sessions, session' = [session EXCEPT ![s].got = @ + 1]
  PROVE  /\ session' \in [Sessions -> Threads]
         /\ Only(s)
         /\ session'[s].pc = session[s].pc
         /\ session'[s].key = session[s].key
         /\ session'[s].upload = session[s].upload
         /\ session'[s].want = session[s].want
         /\ session'[s].got = session[s].got + 1
<1>1. session[s].got + 1 \in Nat
  BY DEF TypeOK, Threads
<1>2. session' \in [Sessions -> Threads]
  BY <1>1 DEF TypeOK, Threads
<1> QED
  BY <1>2 DEF TypeOK, Threads, Only

\* The fields of a thread have the types declared for them.
LEMMA ThreadTypes ==
  ASSUME TypeOK, NEW s \in Sessions
  PROVE  /\ session[s].pc \in Labels
         /\ session[s].key \in Keys
         /\ session[s].upload \in 0 .. MaxRequests
         /\ session[s].want \in Nat
         /\ session[s].got \in Nat
         /\ session[s].source \in Stored
         /\ session[s].got <= session[s].want
BY DEF TypeOK, Threads

\* A thread that takes up a command starts from an empty thread.
LEMMA Begun ==
  ASSUME TypeOK, NEW s \in Sessions, NEW k \in Keys, NEW label \in Labels,
         session' = [session EXCEPT ![s] = [Idle EXCEPT !.pc = label, !.key = k]]
  PROVE  /\ session' \in [Sessions -> Threads]
         /\ Only(s)
         /\ session'[s].pc = label
         /\ session'[s].want = 0 /\ session'[s].got = 0
<1>1. /\ [Idle EXCEPT !.pc = label, !.key = k] \in Threads
      /\ [Idle EXCEPT !.pc = label, !.key = k].pc = label
      /\ [Idle EXCEPT !.pc = label, !.key = k].want = Idle.want
      /\ [Idle EXCEPT !.pc = label, !.key = k].got = Idle.got
  BY IdleIsAThread DEF Threads
<1>2. /\ session' \in [Sessions -> Threads] /\ Only(s)
      /\ session'[s] = [Idle EXCEPT !.pc = label, !.key = k]
  BY <1>1 DEF TypeOK, Only
<1> QED
  BY <1>1, <1>2, IdleFields

\* A thread that takes up an upload notes what was announced.
LEMMA Announces ==
  ASSUME TypeOK, NEW s \in Sessions, NEW k \in Keys, NEW size \in Sizes,
         NEW t \in Markers, BeginPut(s, k, size, t)
  PROVE  /\ session' \in [Sessions -> Threads]
         /\ Only(s)
         /\ session'[s].pc = "recv" /\ session'[s].key = k
         /\ session'[s].upload = Len(uploads) + 1
         /\ session'[s].want = size /\ session'[s].got = 0 /\ size \in Nat
         /\ uploads' \in Seq(Announced)
         /\ Len(uploads') = Len(uploads) + 1
         /\ uploads'[Len(uploads) + 1] = [key |-> k, size |-> size, tag |-> t]
         /\ \A u \in 1 .. Len(uploads) : uploads'[u] = uploads[u]
         /\ Len(uploads) + 1 \in 1 .. MaxRequests
         /\ requests' \in 0 .. MaxRequests /\ Len(uploads') <= requests'
         /\ session[s].pc = "idle" /\ tmp' = tmp \cup {Len(uploads) + 1}
         /\ UNCHANGED <<up, file, tag, mutex, left>>
<1> DEFINE new == [Idle EXCEPT !.pc = "recv", !.key = k, !.upload = Len(uploads) + 1,
                               !.want = size]
<1>1. size \in Nat
  BY StoreAssumption
<1>2. /\ Len(uploads) + 1 \in 1 .. MaxRequests
      /\ requests' \in 0 .. MaxRequests /\ Len(uploads) + 1 <= requests'
  BY StoreAssumption DEF TypeOK, BeginPut, Command
<1>3. [key |-> k, size |-> size, tag |-> t] \in Announced
  BY DEF Announced
<1>4. /\ uploads' \in Seq(Announced)
      /\ Len(uploads') = Len(uploads) + 1
      /\ uploads'[Len(uploads) + 1] = [key |-> k, size |-> size, tag |-> t]
      /\ \A u \in 1 .. Len(uploads) : uploads'[u] = uploads[u]
  BY <1>3 DEF TypeOK, BeginPut
<1>5. new \in Threads
  <2>1. /\ "recv" \in Labels /\ Len(uploads) + 1 \in 0 .. MaxRequests
    BY <1>2 DEF Labels
  <2> QED
    BY <1>1, <2>1, IdleIsAThread DEF Threads
<1>6. session' \in [Sessions -> Threads] /\ Only(s) /\ session'[s] = new
  BY <1>5 DEF TypeOK, BeginPut, Only
<1>7. /\ session'[s].pc = "recv" /\ session'[s].key = k
      /\ session'[s].upload = Len(uploads) + 1
      /\ session'[s].want = size /\ session'[s].got = 0
  BY <1>6 DEF Idle
<1>8. /\ session[s].pc = "idle" /\ tmp' = tmp \cup {Len(uploads) + 1}
      /\ UNCHANGED <<up, file, tag, mutex, left>>
  BY DEF BeginPut, Command
<1> QED
  BY <1>1, <1>2, <1>4, <1>6, <1>7, <1>8

\* A hazard that strikes brings its own count down and leaves the others.
LEMMA SpendTypes ==
  ASSUME TypeOK, NEW hazard \in Hazards, Spend(hazard)
  PROVE  /\ left' \in [Hazards -> Nat]
         /\ \A h \in Hazards : left'[h] <= Budget[h]
         /\ left'[hazard] # Budget[hazard]
         /\ \A h \in Hazards : left'[h] = Budget[h] => left[h] = Budget[h]
<1>1. left[hazard] - 1 \in Nat
  BY DEF TypeOK, Spend
<1>2. left' \in [Hazards -> Nat]
  BY <1>1 DEF TypeOK, Spend
<1>3. \A h \in Hazards : Budget[h] \in Nat /\ left[h] \in Nat /\ left[h] <= Budget[h]
  BY StoreAssumption DEF TypeOK
<1>4. left'[hazard] = left[hazard] - 1
  BY DEF TypeOK, Spend
<1>5. \A h \in Hazards : h # hazard => left'[h] = left[h]
  BY DEF TypeOK, Spend
<1> QED
  BY <1>2, <1>3, <1>4, <1>5

\* A download whose file is there notes its size, and otherwise ends.
LEMMA LookTurned ==
  ASSUME TypeOK, NEW s \in Sessions, ThreadOK(s), Look(s)
  PROVE  /\ session' \in [Sessions -> Threads]
         /\ Only(s)
         /\ session'[s].pc \in {"idle", "open"}
         /\ session'[s].got = 0 /\ session'[s].want \in Nat
<1>1. CASE file[session[s].key].upload = 0
  BY <1>1, Ended DEF Look
<1>2. CASE file[session[s].key].upload # 0
  <2>1. session[s].key \in Keys /\ session[s].got \in Nat
    BY DEF TypeOK, Threads
  <2>2. file[session[s].key].blocks \in Nat
    BY <2>1 DEF TypeOK, Stored
  <2>3. session' = [session EXCEPT ![s].pc = "open",
                                   ![s].want = file[session[s].key].blocks]
    BY <1>2 DEF Look
  <2>4. session' \in [Sessions -> Threads] /\ Only(s) /\ session'[s].pc = "open"
    BY <2>2, <2>3, ZenonT(60) DEF TypeOK, Threads, Labels, Only
  <2>5. session'[s].got = session[s].got /\ session'[s].want = file[session[s].key].blocks
    BY <2>3 DEF TypeOK, Threads
  <2> QED
    BY <1>2, <2>2, <2>4, <2>5 DEF ThreadOK, Look
<1> QED
  BY <1>1, <1>2

\* A download opens what the name leads to by now, or ends.
LEMMA OpenTurned ==
  ASSUME TypeOK, NEW s \in Sessions, Open(s)
  PROVE  /\ session' \in [Sessions -> Threads]
         /\ Only(s)
         /\ session'[s].pc \in {"idle", "send"}
         /\ session'[s].got <= session'[s].want
<1>1. CASE file[session[s].key].upload = 0
  BY <1>1, Ended DEF Open
<1>2. CASE file[session[s].key].upload # 0
  <2>1. session[s].key \in Keys
    BY ThreadTypes
  <2>2. file[session[s].key] \in Stored
    BY <2>1 DEF TypeOK
  <2>3. session' = [session EXCEPT ![s].pc = "send",
                                   ![s].source = file[session[s].key]]
    BY <1>2 DEF Open
  <2>4. session' \in [Sessions -> Threads] /\ Only(s) /\ session'[s].pc = "send"
    BY <2>2, <2>3, ZenonT(60) DEF TypeOK, Threads, Labels, Only
  <2>5. session'[s].got = session[s].got /\ session'[s].want = session[s].want
    BY <2>3 DEF TypeOK, Threads
  <2> QED
    BY <2>4, <2>5, ThreadTypes
<1> QED
  BY <1>1, <1>2

\* A thread that is not the one taking the step stays sound, as long as the
\* file it may have put in place or taken away is left alone.
LEMMA Bystander ==
  ASSUME TypeOK, NEW r \in Sessions, ThreadOK(r), session'[r] = session[r],
         Len(uploads) \in Nat, Len(uploads') \in Nat, Len(uploads') >= Len(uploads),
         \A u \in 1 .. Len(uploads) : uploads'[u] = uploads[u],
         file' = file
  PROVE  ThreadOK(r)'
BY DEF ThreadOK

\* A thread outside the blocks that change a tag leaves the others in theirs.
LEMMA OutsideKeeps ==
  ASSUME TypeOK, NEW s \in Sessions, Only(s), mutex \subseteq mutex' \cup {s},
         session[s].pc \notin {"retag", "mark", "untag"}, NEW k \in Keys, Changing(k)
  PROVE  Changing(k)'
BY DEF Changing, Only, TypeOK

\* A thread that has no temporary file to begin with orphans none.
LEMMA TmpFrame ==
  ASSUME TmpOwned, NEW s \in Sessions, Only(s), up' = up, tmp' = tmp,
         session[s].pc \notin {"recv", "rename"}
  PROVE  TmpOwned'
BY DEF TmpOwned, Only

\* Where neither file nor tag changes, a tag that fitted goes on fitting.
LEMMA TagsFrame ==
  ASSUME Sound, file' = file, tag' = tag, TagsIntact' => TagsIntact,
         \A u \in 1 .. Len(uploads) : uploads'[u] = uploads[u],
         \A k \in Keys : Changing(k) => Changing(k)'
  PROVE  TagsOK'
<1> SUFFICES ASSUME TagsIntact', NEW k \in Keys \ Chunks, ~Changing(k)'
             PROVE  tag'[k] = TagFor(k)'
  BY DEF TagsOK
<1>1. tag[k] = TagFor(k)
  BY DEF Sound, TagsOK
<1>2. TagFor(k)' = TagFor(k)
  <2>1. CASE file[k].upload = 0
    BY <2>1 DEF TagFor
  <2>2. CASE file[k].upload # 0
    <3>1. file[k].upload \in 1 .. Len(uploads)
      BY <2>2, StoreAssumption DEF Sound, WholeFiles, TypeOK, Stored
    <3> QED
      BY <2>2, <3>1 DEF TagFor
  <2> QED
    BY <2>1, <2>2
<1> QED
  BY <1>1, <1>2

\* No hazard makes lost sidecar writes unlost.
LEMMA IntactBefore ==
  ASSUME TypeOK, \/ left' = left
                 \/ \E h \in Hazards : Spend(h)
  PROVE  TagsIntact' => TagsIntact
<1>1. CASE left' = left
  BY <1>1 DEF TagsIntact
<1>2. ASSUME NEW h \in Hazards, Spend(h) PROVE TagsIntact' => TagsIntact
  BY <1>2, SpendTypes DEF TagsIntact, Hazards
<1> QED
  BY <1>1, <1>2

-----------------------------------------------------------------------------
(* No step leads out of Sound *)

\* No command, transfer, guarded block or failure breaks a part of Sound.
LEMMA SoundStep == Sound /\ [Next]_vars => Sound'
<1> SUFFICES ASSUME Sound, [Next]_vars PROVE Sound'
  OBVIOUS
<1> USE DEF Sound
<1>1. ASSUME NEW s \in Sessions, NEW k \in Keys, NEW size \in Sizes, NEW t \in Markers,
             BeginPut(s, k, size, t)
      PROVE  Sound'
  <2>1. /\ session[s].pc = "idle" /\ Only(s) /\ session' \in [Sessions -> Threads]
        /\ session'[s].pc = "recv" /\ session'[s].key = k
        /\ session'[s].upload = Len(uploads) + 1
        /\ session'[s].want = size /\ session'[s].got = 0 /\ size \in Nat
        /\ uploads'[Len(uploads) + 1] = [key |-> k, size |-> size, tag |-> t]
        /\ \A u \in 1 .. Len(uploads) : uploads'[u] = uploads[u]
        /\ Len(uploads) \in Nat /\ Len(uploads') = Len(uploads) + 1
        /\ tmp' = tmp \cup {Len(uploads) + 1}
        /\ UNCHANGED <<up, file, tag, mutex, left>>
    BY <1>1, Announces DEF TypeOK
  <2>2. TypeOK'
    <3>1. \A r \in Sessions : session'[r].got <= session'[r].want
      <4>1. session'[s].got <= session'[s].want
        BY <2>1
      <4>2. \A r \in Sessions : session[r].got <= session[r].want
        BY ThreadTypes
      <4> QED
        BY <2>1, <4>1, <4>2 DEF Only
    <3>2. /\ uploads' \in Seq(Announced) /\ Len(uploads) + 1 \in 1 .. MaxRequests
          /\ requests' \in 0 .. MaxRequests /\ Len(uploads') <= requests'
      BY <1>1, Announces
    <3> QED
      BY <2>1, <3>1, <3>2 DEF TypeOK
  <2>3. LockOK'
    BY <2>1 DEF LockOK, Inside, Only, TypeOK
  <2>4. (\A r \in Sessions : ThreadOK(r))'
    <3>1. ThreadOK(s)'
      BY <2>1 DEF ThreadOK
    <3>2. ASSUME NEW r \in Sessions, r # s PROVE ThreadOK(r)'
      BY <2>1, <3>2, Bystander DEF Only
    <3> QED
      BY <3>1, <3>2
  <2>5. WholeFiles'
    <3>1. ASSUME NEW x \in Keys, file[x].upload # 0
          PROVE  /\ file[x].upload <= Len(uploads')
                 /\ file[x].blocks = uploads'[file[x].upload].size
                 /\ uploads'[file[x].upload].key = x
      <4>1. file[x].upload \in 1 .. Len(uploads)
        BY <3>1, StoreAssumption DEF WholeFiles, TypeOK, Stored
      <4> QED
        BY <2>1, <3>1, <4>1 DEF WholeFiles
    <3> QED
      BY <2>1, <3>1 DEF WholeFiles
  <2>6. TagsOK'
    <3>1. \A x \in Keys : Changing(x) => Changing(x)'
      BY <2>1, OutsideKeeps DEF TypeOK
    <3>2. TagsIntact' => TagsIntact
      BY <2>1, IntactBefore DEF Hazards
    <3> QED
      BY <2>1, <3>1, <3>2, TagsFrame
  <2>7. TmpOwned'
    <3>1. ASSUME up', NEW u \in tmp'
          PROVE  \E r \in Sessions : session'[r].pc \in {"recv", "rename"} /\ session'[r].upload = u
      <4>1. CASE u = Len(uploads) + 1
        BY <2>1, <4>1
      <4>2. CASE u \in tmp
        <5>1. PICK r \in Sessions : session[r].pc \in {"recv", "rename"} /\ session[r].upload = u
          BY <2>1, <3>1, <4>2 DEF TmpOwned
        <5> QED
          BY <2>1, <5>1 DEF Only
      <4> QED
        BY <2>1, <3>1, <4>1, <4>2
    <3> QED
      BY <3>1 DEF TmpOwned
  <2> QED
    BY <2>2, <2>3, <2>4, <2>5, <2>6, <2>7
<1>2. ASSUME NEW s \in Sessions, NEW k \in Keys, BeginGet(s, k) PROVE Sound'
  <2>1. /\ session' \in [Sessions -> Threads] /\ Only(s)
        /\ session'[s].pc = "look" /\ session'[s].got = 0 /\ session'[s].want = 0
    BY <1>2, Begun DEF BeginGet, Labels
  <2>2. TypeOK'
    <3>1. \A r \in Sessions : session'[r].got <= session'[r].want
      BY <1>2, <2>1, ThreadTypes, StoreAssumption DEF Only, Stays, BeginGet
    <3>2. requests' \in 0 .. MaxRequests /\ Len(uploads) <= requests'
      BY <1>2, StoreAssumption DEF BeginGet, Command, TypeOK
    <3> QED
      BY <1>2, <2>1, <3>1, <3>2 DEF BeginGet, TypeOK, Command
  <2>3. LockOK'
    BY <1>2, <2>1 DEF BeginGet, Command, LockOK, Inside, Only, TypeOK
  <2>4. (\A r \in Sessions : ThreadOK(r))'
    <3>1. ThreadOK(s)'
      BY <1>2, <2>1 DEF ThreadOK, Stays, BeginGet, Command
    <3>2. ASSUME NEW r \in Sessions, r # s PROVE ThreadOK(r)'
      BY <1>2, <2>1, <3>2, Bystander DEF Only, TypeOK, BeginGet, Command
    <3> QED
      BY <3>1, <3>2
  <2>5. WholeFiles'
    BY <1>2, Begun, ThreadTypes, StoreAssumption DEF BeginGet, Command,
       TypeOK, ThreadOK, WholeFiles, Nothing
  <2>6. TagsOK'
    <3>1. \A x \in Keys : Changing(x) => Changing(x)'
      BY <1>2, <2>1, OutsideKeeps DEF TypeOK, BeginGet, Command
    <3>2. TagsIntact' => TagsIntact
      BY <1>2, <2>1, IntactBefore DEF Hazards, BeginGet, Command
    <3> QED
      BY <1>2, <2>1, <3>1, <3>2, TagsFrame DEF BeginGet, Command
  <2>7. TmpOwned'
    BY <1>2, <2>1, TmpFrame DEF BeginGet, Command
  <2> QED
    BY <2>2, <2>3, <2>4, <2>5, <2>6, <2>7
<1>3. ASSUME NEW s \in Sessions, NEW k \in Keys, BeginDelete(s, k) PROVE Sound'
  <2>1. /\ session' \in [Sessions -> Threads] /\ Only(s)
        /\ session'[s].pc = "remove" /\ session'[s].got = 0 /\ session'[s].want = 0
    BY <1>3, Begun DEF BeginDelete, Labels
  <2>2. TypeOK'
    <3>1. \A r \in Sessions : session'[r].got <= session'[r].want
      BY <1>3, <2>1, ThreadTypes, StoreAssumption DEF Only, Stays, BeginDelete
    <3>2. requests' \in 0 .. MaxRequests /\ Len(uploads) <= requests'
      BY <1>3, StoreAssumption DEF BeginDelete, Command, TypeOK
    <3> QED
      BY <1>3, <2>1, <3>1, <3>2 DEF BeginDelete, TypeOK, Command
  <2>3. LockOK'
    BY <1>3, <2>1 DEF BeginDelete, Command, LockOK, Inside, Only, TypeOK
  <2>4. (\A r \in Sessions : ThreadOK(r))'
    <3>1. ThreadOK(s)'
      BY <1>3, <2>1 DEF ThreadOK, Stays, BeginDelete, Command
    <3>2. ASSUME NEW r \in Sessions, r # s PROVE ThreadOK(r)'
      BY <1>3, <2>1, <3>2, Bystander DEF Only, TypeOK, BeginDelete, Command
    <3> QED
      BY <3>1, <3>2
  <2>5. WholeFiles'
    BY <1>3, Begun, ThreadTypes, StoreAssumption DEF BeginDelete, Command,
       TypeOK, ThreadOK, WholeFiles, Nothing
  <2>6. TagsOK'
    <3>1. \A x \in Keys : Changing(x) => Changing(x)'
      BY <1>3, <2>1, OutsideKeeps DEF TypeOK, BeginDelete, Command
    <3>2. TagsIntact' => TagsIntact
      BY <1>3, <2>1, IntactBefore DEF Hazards, BeginDelete, Command
    <3> QED
      BY <1>3, <2>1, <3>1, <3>2, TagsFrame DEF BeginDelete, Command
  <2>7. TmpOwned'
    BY <1>3, <2>1, TmpFrame DEF BeginDelete, Command
  <2> QED
    BY <2>2, <2>3, <2>4, <2>5, <2>6, <2>7
<1>4. ASSUME NEW s \in Sessions, LockToPut(s) PROVE Sound'
  <2>1. /\ session' \in [Sessions -> Threads] /\ Only(s)
        /\ session'[s].pc = "rename" /\ Stays(s)
    BY <1>4, Turned DEF LockToPut, Labels, Received
  <2>2. TypeOK'
    <3>1. \A r \in Sessions : session'[r].got <= session'[r].want
      BY <1>4, <2>1, ThreadTypes, StoreAssumption DEF Only, Stays,
         LockToPut, Received
    <3> QED
      BY <1>4, <2>1, <3>1 DEF LockToPut, TypeOK, Received, Lock
  <2>3. LockOK'
    BY <1>4, <2>1 DEF LockToPut, Received, Lock, LockOK, Inside, Only, TypeOK
  <2>4. (\A r \in Sessions : ThreadOK(r))'
    <3>1. ThreadOK(s)'
      BY <1>4, <2>1 DEF ThreadOK, Stays, LockToPut, Received, Lock
    <3>2. ASSUME NEW r \in Sessions, r # s PROVE ThreadOK(r)'
      BY <1>4, <2>1, <3>2, Bystander DEF Only, TypeOK, LockToPut, Received, Lock
    <3> QED
      BY <3>1, <3>2
  <2>5. WholeFiles'
    BY <1>4, Turned, ThreadTypes, StoreAssumption DEF LockToPut, Received,
       Lock, TypeOK, ThreadOK, WholeFiles, Nothing
  <2>6. TagsOK'
    <3>1. \A x \in Keys : Changing(x) => Changing(x)'
      BY <1>4, <2>1, OutsideKeeps DEF TypeOK, LockToPut, Received, Lock
    <3>2. TagsIntact' => TagsIntact
      BY <1>4, <2>1, IntactBefore DEF Hazards, LockToPut, Received, Lock
    <3> QED
      BY <1>4, <2>1, <3>1, <3>2, TagsFrame DEF LockToPut, Received, Lock
  <2>7. TmpOwned'
    BY <1>4, <2>1 DEF LockToPut, Received, Lock, TmpOwned, Only, Stays, TypeOK
  <2> QED
    BY <2>2, <2>3, <2>4, <2>5, <2>6, <2>7
<1>5. ASSUME NEW s \in Sessions, Rename(s) PROVE Sound'
  <2>1. /\ session' \in [Sessions -> Threads] /\ Only(s)
        /\ \/ session'[s].pc = "idle" /\ session'[s].got = 0 /\ session'[s].want = 0
           \/ session'[s].pc = "retag" /\ Stays(s)
    BY <1>5, Turned, Ended DEF Rename, Labels
  <2>2. TypeOK'
    <3>1. \A r \in Sessions : session'[r].got <= session'[r].want
      BY <1>5, <2>1, ThreadTypes, StoreAssumption DEF Only, Stays, Rename
    <3>2. session[s].upload \in 0 .. MaxRequests /\ session[s].got \in Nat
      BY ThreadTypes
    <3>3. file' \in [Keys -> Stored]
      BY <1>5, <3>2 DEF Rename, TypeOK, Stored
    <3> QED
      BY <1>5, <2>1, <3>1, <3>3 DEF Rename, TypeOK, Unlock
  <2>3. LockOK'
    <3>1. CASE session[s].key \in Chunks
      <4>1. Only(s) /\ session'[s].pc = "idle" /\ mutex' = mutex \ {s} /\ session[s].pc \in Inside
        BY <1>5, <3>1, Ended DEF Rename, Unlock, Inside
      <4> QED
        BY <4>1 DEF LockOK, Inside, Only, TypeOK
    <3>2. CASE session[s].key \notin Chunks
      <4>1. Only(s) /\ session'[s].pc = "retag" /\ mutex' = mutex /\ session[s].pc \in Inside
        BY <1>5, <3>2, Turned DEF Rename, Inside, Labels
      <4> QED
        BY <4>1 DEF LockOK, Inside, Only, TypeOK
    <3> QED
      BY <3>1, <3>2
  <2>4. (\A r \in Sessions : ThreadOK(r))'
    <3>1. session'[s].pc \in {"idle", "retag"}
      BY <1>5, <2>1
    <3>2. ThreadOK(s)'
      BY <1>5, <2>1, <3>1, ThreadTypes DEF Rename, ThreadOK, Stays, TypeOK
    <3>3. ASSUME NEW r \in Sessions, r # s PROVE ThreadOK(r)'
      <4>1. session'[r] = session[r] /\ session[r].pc \notin Inside
        BY <1>5, <2>1, <3>3 DEF Rename, LockOK, Inside, Only
      <4>2. ThreadOK(r)
        OBVIOUS
      <4> QED
        BY <1>5, <4>1, <4>2 DEF Rename, ThreadOK, Inside
    <3> QED
      BY <3>2, <3>3
  <2>5. WholeFiles'
    BY <1>5, Turned, Ended, ThreadTypes, StoreAssumption DEF Rename, Unlock,
       TypeOK, ThreadOK, WholeFiles, Nothing
  <2>6. TagsOK'
    <3>1. session[s].key \in Keys
      BY ThreadTypes
    <3>2. ASSUME TagsIntact', NEW x \in Keys \ Chunks, ~Changing(x)'
          PROVE  tag'[x] = TagFor(x)'
      <4>1. x # session[s].key
        <5>1. CASE session[s].key \in Chunks
          BY <5>1
        <5>2. CASE session[s].key \notin Chunks
          <6>1. session'[s].pc = "retag" /\ session'[s].key = session[s].key /\ s \in mutex'
            BY <1>5, <5>2, Turned DEF Rename, LockOK, Inside, Labels, Stays
          <6> QED
            BY <3>2, <6>1 DEF Changing
        <5> QED
          BY <5>1, <5>2
      <4>2. ~Changing(x)
        BY <1>5 , <4>1 DEF Rename, Changing, LockOK, Inside
      <4>3. TagsIntact
        BY <1>5, <3>2 DEF Rename, TagsIntact
      <4>4. file'[x] = file[x] /\ tag' = tag /\ uploads' = uploads
        BY <1>5, <3>1, <4>1 DEF Rename, TypeOK
      <4> QED
        BY <4>2, <4>3, <4>4 DEF TagsOK, TagFor
    <3> QED
      BY <3>2 DEF TagsOK
  <2>7. TmpOwned'
    BY <1>5, <2>1 DEF Rename, Unlock, TmpOwned, Only, Stays, TypeOK
  <2> QED
    BY <2>2, <2>3, <2>4, <2>5, <2>6, <2>7
<1>6. ASSUME NEW s \in Sessions, RenameFails(s) PROVE Sound'
  <2>1. /\ session' \in [Sessions -> Threads] /\ Only(s)
        /\ session'[s].pc = "idle" /\ session'[s].got = 0 /\ session'[s].want = 0
    BY <1>6, Ended DEF RenameFails
  <2>2. TypeOK'
    <3>1. \A r \in Sessions : session'[r].got <= session'[r].want
      BY <1>6, <2>1, ThreadTypes, StoreAssumption DEF Only, Stays, RenameFails
    <3>2. left' \in [Hazards -> Nat] /\ \A h \in Hazards : left'[h] <= Budget[h]
      BY <1>6, SpendTypes DEF RenameFails, Hazards, TypeOK
    <3> QED
      BY <1>6, <2>1, <3>1, <3>2 DEF RenameFails, TypeOK, Unlock
  <2>3. LockOK'
    BY <1>6, <2>1 DEF RenameFails, Unlock, LockOK, Inside, Only, TypeOK
  <2>4. (\A r \in Sessions : ThreadOK(r))'
    <3>1. ThreadOK(s)'
      BY <2>1 DEF ThreadOK
    <3>2. ASSUME NEW r \in Sessions, r # s PROVE ThreadOK(r)'
      BY <1>6, <2>1, <3>2, Bystander DEF Only, RenameFails, TypeOK
    <3> QED
      BY <3>1, <3>2
  <2>5. WholeFiles'
    BY <1>6, Ended, ThreadTypes, StoreAssumption, SpendTypes DEF
       RenameFails, Unlock, TypeOK, ThreadOK, WholeFiles, Nothing, Hazards
  <2>6. TagsOK'
    <3>1. \A x \in Keys : Changing(x) => Changing(x)'
      BY <1>6, <2>1, OutsideKeeps DEF TypeOK, RenameFails, Unlock
    <3>2. TagsIntact' => TagsIntact
      BY <1>6, <2>1, IntactBefore DEF Hazards, RenameFails, Unlock
    <3> QED
      BY <1>6, <2>1, <3>1, <3>2, TagsFrame DEF RenameFails, Unlock
  <2>7. TmpOwned'
    BY <1>6, <2>1 DEF RenameFails, Unlock, TmpOwned, Only, Stays, TypeOK
  <2> QED
    BY <2>2, <2>3, <2>4, <2>5, <2>6, <2>7
<1>7. ASSUME NEW s \in Sessions, EmptyTag(s) PROVE Sound'
  <2>1. /\ session' \in [Sessions -> Threads] /\ Only(s)
        /\ session'[s].pc = "mark" /\ Stays(s)
    BY <1>7, Turned DEF EmptyTag, Labels
  <2>2. TypeOK'
    <3>1. \A r \in Sessions : session'[r].got <= session'[r].want
      BY <1>7, <2>1, ThreadTypes, StoreAssumption DEF Only, Stays, EmptyTag
    <3> QED
      BY <1>7, <2>1, <3>1 DEF EmptyTag, Markers, TypeOK
  <2>3. LockOK'
    BY <1>7, <2>1 DEF EmptyTag, LockOK, Inside, Only, TypeOK
  <2>4. (\A r \in Sessions : ThreadOK(r))'
    <3>1. ThreadOK(s)'
      BY <1>7, <2>1 DEF ThreadOK, Stays, EmptyTag
    <3>2. ASSUME NEW r \in Sessions, r # s PROVE ThreadOK(r)'
      BY <1>7, <2>1, <3>2, Bystander DEF Only, TypeOK, EmptyTag
    <3> QED
      BY <3>1, <3>2
  <2>5. WholeFiles'
    BY <1>7, Turned, ThreadTypes, StoreAssumption DEF EmptyTag, TypeOK,
       ThreadOK, WholeFiles, Nothing
  <2>6. TagsOK'
    <3>1. session[s].key \in Keys
      BY ThreadTypes
    <3>2. /\ session' \in [Sessions -> Threads] /\ Only(s)
        /\ session'[s].pc = "mark" /\ Stays(s)
      BY <1>7, Turned DEF EmptyTag, Labels
    <3>3. ASSUME TagsIntact', NEW x \in Keys \ Chunks, ~Changing(x)'
          PROVE  tag'[x] = TagFor(x)'
      <4>1. x # session[s].key /\ ~Changing(x)
        BY <1>7, <3>2, <3>3 DEF EmptyTag, Changing, LockOK, Inside, Only, Stays
      <4>2. TagsIntact
        BY <1>7, <3>3 DEF EmptyTag, TagsIntact
      <4> QED
        BY <1>7, <3>1, <4>1, <4>2 DEF EmptyTag, TagsOK, TagFor, TypeOK
    <3> QED
      BY <3>3 DEF TagsOK
  <2>7. TmpOwned'
    BY <1>7, <2>1, TmpFrame DEF EmptyTag
  <2> QED
    BY <2>2, <2>3, <2>4, <2>5, <2>6, <2>7
<1>8. ASSUME NEW s \in Sessions, WriteTag(s) PROVE Sound'
  <2>1. /\ session' \in [Sessions -> Threads] /\ Only(s)
        /\ session'[s].pc = "idle" /\ session'[s].got = 0 /\ session'[s].want = 0
    BY <1>8, Ended DEF WriteTag
  <2>2. TypeOK'
    <3>1. \A r \in Sessions : session'[r].got <= session'[r].want
      BY <1>8, <2>1, ThreadTypes, StoreAssumption DEF Only, Stays, WriteTag
    <3>2. tag' \in [Keys -> Markers]
      <4>1. uploads[session[s].upload] \in Announced
        BY <1>8 DEF WriteTag, ThreadOK, TypeOK
      <4> QED
        BY <1>8, <4>1 DEF WriteTag, TypeOK, Announced
    <3> QED
      BY <1>8, <2>1, <3>1, <3>2 DEF WriteTag, TypeOK, Unlock
  <2>3. LockOK'
    BY <1>8, <2>1 DEF WriteTag, Unlock, LockOK, Inside, Only, TypeOK
  <2>4. (\A r \in Sessions : ThreadOK(r))'
    <3>1. ThreadOK(s)'
      BY <1>8, <2>1 DEF ThreadOK, Stays, WriteTag, Unlock
    <3>2. ASSUME NEW r \in Sessions, r # s PROVE ThreadOK(r)'
      BY <1>8, <2>1, <3>2, Bystander DEF Only, TypeOK, WriteTag, Unlock
    <3> QED
      BY <3>1, <3>2
  <2>5. WholeFiles'
    BY <1>8, Ended, ThreadTypes, StoreAssumption DEF WriteTag, Unlock,
       TypeOK, ThreadOK, WholeFiles, Nothing
  <2>6. TagsOK'
    <3>1. ASSUME TagsIntact', NEW x \in Keys \ Chunks, ~Changing(x)'
          PROVE  tag'[x] = TagFor(x)'
      <4>1. CASE x = session[s].key
        <5>1. session[s].upload # 0 /\ file[x].upload = session[s].upload
          BY <1>8, <4>1 DEF WriteTag, ThreadOK, TypeOK
        <5> QED
          BY <1>8, <4>1, <5>1 DEF WriteTag, TagFor, TypeOK
      <4>2. CASE x # session[s].key
        <5>1. ~Changing(x)
          BY <1>8, <4>2 DEF WriteTag, Changing, LockOK, Inside
        <5>2. TagsIntact
          BY <1>8, <3>1 DEF WriteTag, TagsIntact
        <5>3. tag'[x] = tag[x] /\ TagFor(x)' = TagFor(x)
          BY <1>8, <4>2 DEF WriteTag, TagFor, TypeOK
        <5> QED
          BY <5>1, <5>2, <5>3 DEF TagsOK
      <4> QED
        BY <4>1, <4>2
    <3> QED
      BY <3>1 DEF TagsOK
  <2>7. TmpOwned'
    BY <1>8, <2>1, TmpFrame DEF WriteTag, Unlock
  <2> QED
    BY <2>2, <2>3, <2>4, <2>5, <2>6, <2>7
<1>9. ASSUME NEW s \in Sessions, TagFails(s) PROVE Sound'
  <2>1. /\ session' \in [Sessions -> Threads] /\ Only(s)
        /\ session'[s].pc = "idle" /\ session'[s].got = 0 /\ session'[s].want = 0
    BY <1>9, Ended DEF TagFails
  <2>2. TypeOK'
    <3>1. \A r \in Sessions : session'[r].got <= session'[r].want
      BY <1>9, <2>1, ThreadTypes, StoreAssumption DEF Only, Stays, TagFails
    <3>2. left' \in [Hazards -> Nat] /\ \A h \in Hazards : left'[h] <= Budget[h]
      BY <1>9, SpendTypes DEF TagFails, Hazards, TypeOK
    <3> QED
      BY <1>9, <2>1, <3>1, <3>2 DEF TagFails, TypeOK, Unlock
  <2>3. LockOK'
    BY <1>9, <2>1 DEF TagFails, Unlock, LockOK, Inside, Only, TypeOK
  <2>4. (\A r \in Sessions : ThreadOK(r))'
    <3>1. ThreadOK(s)'
      BY <1>9, <2>1 DEF ThreadOK, Stays, TagFails, Unlock
    <3>2. ASSUME NEW r \in Sessions, r # s PROVE ThreadOK(r)'
      BY <1>9, <2>1, <3>2, Bystander DEF Only, TypeOK, TagFails, Unlock
    <3> QED
      BY <3>1, <3>2
  <2>5. WholeFiles'
    BY <1>9, Ended, ThreadTypes, StoreAssumption, SpendTypes DEF TagFails,
       Unlock, TypeOK, ThreadOK, WholeFiles, Nothing, Hazards
  <2>6. TagsOK'
    <3>1. left'["untagged"] = left["untagged"] - 1 /\ left["untagged"] <= Budget["untagged"]
      BY <1>9 DEF TagFails, Spend, TypeOK, Hazards
    <3>2. left["untagged"] \in Nat /\ Budget["untagged"] \in Nat
      BY StoreAssumption DEF TypeOK, Hazards
    <3>3. ~TagsIntact'
      BY <3>1, <3>2 DEF TagsIntact
    <3> QED
      BY <3>3 DEF TagsOK
  <2>7. TmpOwned'
    BY <1>9, <2>1, TmpFrame DEF TagFails, Unlock
  <2> QED
    BY <2>2, <2>3, <2>4, <2>5, <2>6, <2>7
<1>10. ASSUME NEW s \in Sessions, Look(s) PROVE Sound'
  <2>1. /\ session' \in [Sessions -> Threads] /\ Only(s)
        /\ session'[s].pc \in {"idle", "open"} /\ session'[s].got = 0 /\ session'[s].want \in Nat
    BY <1>10, LookTurned DEF Look
  <2>2. TypeOK'
    <3>1. \A r \in Sessions : session'[r].got <= session'[r].want
      BY <1>10, <2>1, ThreadTypes, StoreAssumption DEF Only, Stays, Look
    <3> QED
      BY <1>10, <2>1, <3>1 DEF Look, TypeOK
  <2>3. LockOK'
    BY <1>10, <2>1 DEF Look, LockOK, Inside, Only, TypeOK
  <2>4. (\A r \in Sessions : ThreadOK(r))'
    <3>1. ThreadOK(s)'
      BY <1>10, <2>1 DEF ThreadOK, Stays, Look
    <3>2. ASSUME NEW r \in Sessions, r # s PROVE ThreadOK(r)'
      BY <1>10, <2>1, <3>2, Bystander DEF Only, TypeOK, Look
    <3> QED
      BY <3>1, <3>2
  <2>5. WholeFiles'
    BY <1>10, LookTurned, ThreadTypes, StoreAssumption DEF Look, TypeOK,
       ThreadOK, WholeFiles, Nothing
  <2>6. TagsOK'
    <3>1. \A x \in Keys : Changing(x) => Changing(x)'
      BY <1>10, <2>1, OutsideKeeps DEF TypeOK, Look
    <3>2. TagsIntact' => TagsIntact
      BY <1>10, <2>1, IntactBefore DEF Hazards, Look
    <3> QED
      BY <1>10, <2>1, <3>1, <3>2, TagsFrame DEF Look
  <2>7. TmpOwned'
    BY <1>10, <2>1, TmpFrame DEF Look
  <2> QED
    BY <2>2, <2>3, <2>4, <2>5, <2>6, <2>7
<1>11. ASSUME NEW s \in Sessions, Open(s) PROVE Sound'
  <2>1. /\ session' \in [Sessions -> Threads] /\ Only(s)
        /\ session'[s].pc \in {"idle", "send"} /\ session'[s].got <= session'[s].want
    BY <1>11, OpenTurned DEF Open
  <2>2. TypeOK'
    <3>1. \A r \in Sessions : session'[r].got <= session'[r].want
      BY <1>11, <2>1, ThreadTypes, StoreAssumption DEF Only, Stays, Open
    <3> QED
      BY <1>11, <2>1, <3>1 DEF Open, TypeOK
  <2>3. LockOK'
    BY <1>11, <2>1 DEF Open, LockOK, Inside, Only, TypeOK
  <2>4. (\A r \in Sessions : ThreadOK(r))'
    <3>1. ThreadOK(s)'
      BY <1>11, <2>1 DEF ThreadOK, Stays, Open
    <3>2. ASSUME NEW r \in Sessions, r # s PROVE ThreadOK(r)'
      BY <1>11, <2>1, <3>2, Bystander DEF Only, TypeOK, Open
    <3> QED
      BY <3>1, <3>2
  <2>5. WholeFiles'
    BY <1>11, OpenTurned, ThreadTypes, StoreAssumption DEF Open, TypeOK,
       ThreadOK, WholeFiles, Nothing
  <2>6. TagsOK'
    <3>1. \A x \in Keys : Changing(x) => Changing(x)'
      BY <1>11, <2>1, OutsideKeeps DEF TypeOK, Open
    <3>2. TagsIntact' => TagsIntact
      BY <1>11, <2>1, IntactBefore DEF Hazards, Open
    <3> QED
      BY <1>11, <2>1, <3>1, <3>2, TagsFrame DEF Open
  <2>7. TmpOwned'
    BY <1>11, <2>1, TmpFrame DEF Open
  <2> QED
    BY <2>2, <2>3, <2>4, <2>5, <2>6, <2>7
<1>12. ASSUME NEW s \in Sessions, LockToDelete(s) PROVE Sound'
  <2>1. /\ session' \in [Sessions -> Threads] /\ Only(s)
        /\ session'[s].pc = "unlink" /\ Stays(s)
    BY <1>12, Turned DEF LockToDelete, Labels
  <2>2. TypeOK'
    <3>1. \A r \in Sessions : session'[r].got <= session'[r].want
      BY <1>12, <2>1, ThreadTypes, StoreAssumption DEF Only, Stays, LockToDelete
    <3> QED
      BY <1>12, <2>1, <3>1 DEF LockToDelete, TypeOK, Lock
  <2>3. LockOK'
    BY <1>12, <2>1 DEF LockToDelete, Lock, LockOK, Inside, Only, TypeOK
  <2>4. (\A r \in Sessions : ThreadOK(r))'
    <3>1. ThreadOK(s)'
      BY <1>12, <2>1 DEF ThreadOK, Stays, LockToDelete, Lock
    <3>2. ASSUME NEW r \in Sessions, r # s PROVE ThreadOK(r)'
      BY <1>12, <2>1, <3>2, Bystander DEF Only, TypeOK, LockToDelete, Lock
    <3> QED
      BY <3>1, <3>2
  <2>5. WholeFiles'
    BY <1>12, Turned, ThreadTypes, StoreAssumption DEF LockToDelete, Lock,
       TypeOK, ThreadOK, WholeFiles, Nothing
  <2>6. TagsOK'
    <3>1. \A x \in Keys : Changing(x) => Changing(x)'
      BY <1>12, <2>1, OutsideKeeps DEF TypeOK, LockToDelete, Lock
    <3>2. TagsIntact' => TagsIntact
      BY <1>12, <2>1, IntactBefore DEF Hazards, LockToDelete, Lock
    <3> QED
      BY <1>12, <2>1, <3>1, <3>2, TagsFrame DEF LockToDelete, Lock
  <2>7. TmpOwned'
    BY <1>12, <2>1, TmpFrame DEF LockToDelete, Lock
  <2> QED
    BY <2>2, <2>3, <2>4, <2>5, <2>6, <2>7
<1>13. ASSUME NEW s \in Sessions, Unlink(s) PROVE Sound'
  <2>1. /\ session' \in [Sessions -> Threads] /\ Only(s)
        /\ \/ session'[s].pc = "idle" /\ session'[s].got = 0 /\ session'[s].want = 0
           \/ session'[s].pc = "untag" /\ Stays(s)
    BY <1>13, Turned, Ended DEF Unlink, Labels
  <2>2. TypeOK'
    <3>1. \A r \in Sessions : session'[r].got <= session'[r].want
      BY <1>13, <2>1, ThreadTypes, StoreAssumption DEF Only, Stays, Unlink
    <3>2. Nothing \in Stored
      BY StoreAssumption DEF Nothing, Stored
    <3>3. file' \in [Keys -> Stored]
      BY <1>13, <3>2 DEF Unlink, TypeOK
    <3> QED
      BY <1>13, <2>1, <3>1, <3>3 DEF Unlink, TypeOK, Unlock
  <2>3. LockOK'
    <3>1. CASE session[s].key \in Chunks
      <4>1. Only(s) /\ session'[s].pc = "idle" /\ mutex' = mutex \ {s} /\ session[s].pc \in Inside
        BY <1>13, <3>1, Ended DEF Unlink, Unlock, Inside
      <4> QED
        BY <4>1 DEF LockOK, Inside, Only, TypeOK
    <3>2. CASE session[s].key \notin Chunks
      <4>1. Only(s) /\ session'[s].pc = "untag" /\ mutex' = mutex /\ session[s].pc \in Inside
        BY <1>13, <3>2, Turned DEF Unlink, Inside, Labels
      <4> QED
        BY <4>1 DEF LockOK, Inside, Only, TypeOK
    <3> QED
      BY <3>1, <3>2
  <2>4. (\A r \in Sessions : ThreadOK(r))'
    <3>1. session'[s].pc \in {"idle", "untag"}
      BY <1>13, <2>1
    <3>2. ThreadOK(s)'
      BY <1>13, <2>1, <3>1, ThreadTypes DEF Unlink, ThreadOK, Stays, TypeOK, Nothing
    <3>3. ASSUME NEW r \in Sessions, r # s PROVE ThreadOK(r)'
      <4>1. session'[r] = session[r] /\ session[r].pc \notin Inside
        BY <1>13, <2>1, <3>3 DEF Unlink, LockOK, Inside, Only
      <4>2. ThreadOK(r)
        OBVIOUS
      <4> QED
        BY <1>13, <4>1, <4>2 DEF Unlink, ThreadOK, Inside
    <3> QED
      BY <3>2, <3>3
  <2>5. WholeFiles'
    BY <1>13, Turned, Ended, ThreadTypes, StoreAssumption DEF Unlink,
       Unlock, TypeOK, ThreadOK, WholeFiles, Nothing
  <2>6. TagsOK'
    <3>1. session[s].key \in Keys
      BY ThreadTypes
    <3>2. ASSUME TagsIntact', NEW x \in Keys \ Chunks, ~Changing(x)'
          PROVE  tag'[x] = TagFor(x)'
      <4>1. x # session[s].key
        <5>1. CASE session[s].key \in Chunks
          BY <5>1
        <5>2. CASE session[s].key \notin Chunks
          <6>1. session'[s].pc = "untag" /\ session'[s].key = session[s].key /\ s \in mutex'
            BY <1>13, <5>2, Turned DEF Unlink, LockOK, Inside, Labels, Stays
          <6> QED
            BY <3>2, <6>1 DEF Changing
        <5> QED
          BY <5>1, <5>2
      <4>2. ~Changing(x)
        BY <1>13 , <4>1 DEF Unlink, Changing, LockOK, Inside
      <4>3. TagsIntact
        BY <1>13, <3>2 DEF Unlink, TagsIntact
      <4>4. file'[x] = file[x] /\ tag' = tag /\ uploads' = uploads
        BY <1>13, <3>1, <4>1 DEF Unlink, TypeOK
      <4> QED
        BY <4>2, <4>3, <4>4 DEF TagsOK, TagFor
    <3> QED
      BY <3>2 DEF TagsOK
  <2>7. TmpOwned'
    BY <1>13, <2>1, TmpFrame DEF Unlink, Unlock
  <2> QED
    BY <2>2, <2>3, <2>4, <2>5, <2>6, <2>7
<1>14. ASSUME NEW s \in Sessions, RemoveTag(s) PROVE Sound'
  <2>1. /\ session' \in [Sessions -> Threads] /\ Only(s)
        /\ session'[s].pc = "idle" /\ session'[s].got = 0 /\ session'[s].want = 0
    BY <1>14, Ended DEF RemoveTag
  <2>2. TypeOK'
    <3>1. \A r \in Sessions : session'[r].got <= session'[r].want
      BY <1>14, <2>1, ThreadTypes, StoreAssumption DEF Only, Stays, RemoveTag
    <3> QED
      BY <1>14, <2>1, <3>1 DEF RemoveTag, Markers, TypeOK, Unlock
  <2>3. LockOK'
    BY <1>14, <2>1 DEF RemoveTag, Unlock, LockOK, Inside, Only, TypeOK
  <2>4. (\A r \in Sessions : ThreadOK(r))'
    <3>1. ThreadOK(s)'
      BY <1>14, <2>1 DEF ThreadOK, Stays, RemoveTag, Unlock
    <3>2. ASSUME NEW r \in Sessions, r # s PROVE ThreadOK(r)'
      BY <1>14, <2>1, <3>2, Bystander DEF Only, TypeOK, RemoveTag, Unlock
    <3> QED
      BY <3>1, <3>2
  <2>5. WholeFiles'
    BY <1>14, Ended, ThreadTypes, StoreAssumption DEF RemoveTag, Unlock,
       TypeOK, ThreadOK, WholeFiles, Nothing
  <2>6. TagsOK'
    <3>1. ASSUME TagsIntact', NEW x \in Keys \ Chunks, ~Changing(x)'
          PROVE  tag'[x] = TagFor(x)'
      <4>1. CASE x = session[s].key
        <5>1. file[x].upload = 0
          BY <1>14, <4>1 DEF RemoveTag, ThreadOK
        <5> QED
          BY <1>14, <4>1, <5>1 DEF RemoveTag, TagFor, TypeOK
      <4>2. CASE x # session[s].key
        <5>1. ~Changing(x)
          BY <1>14, <4>2 DEF RemoveTag, Changing, LockOK, Inside
        <5>2. TagsIntact
          BY <1>14, <3>1 DEF RemoveTag, TagsIntact
        <5>3. tag'[x] = tag[x] /\ TagFor(x)' = TagFor(x)
          BY <1>14, <4>2 DEF RemoveTag, TagFor, TypeOK
        <5> QED
          BY <5>1, <5>2, <5>3 DEF TagsOK
      <4> QED
        BY <4>1, <4>2
    <3> QED
      BY <3>1 DEF TagsOK
  <2>7. TmpOwned'
    BY <1>14, <2>1, TmpFrame DEF RemoveTag, Unlock
  <2> QED
    BY <2>2, <2>3, <2>4, <2>5, <2>6, <2>7
<1>15. ASSUME NEW s \in Sessions, Receive(s) PROVE Sound'
  <2>1. /\ session' \in [Sessions -> Threads] /\ Only(s)
        /\ /\ session'[s].pc = "recv" /\ session'[s].key = session[s].key
           /\ session'[s].upload = session[s].upload
           /\ session'[s].want = session[s].want /\ session'[s].got = session[s].got + 1
    BY <1>15, Counted DEF Receive
  <2>2. TypeOK'
    <3>1. \A r \in Sessions : session'[r].got <= session'[r].want
      BY <1>15, <2>1, ThreadTypes, StoreAssumption DEF Only, Stays, Receive
    <3> QED
      BY <1>15, <2>1, <3>1 DEF Receive, TypeOK
  <2>3. LockOK'
    BY <1>15, <2>1 DEF Receive, LockOK, Inside, Only, TypeOK
  <2>4. (\A r \in Sessions : ThreadOK(r))'
    <3>1. ThreadOK(s)'
      BY <1>15, <2>1 DEF ThreadOK, Stays, Receive
    <3>2. ASSUME NEW r \in Sessions, r # s PROVE ThreadOK(r)'
      BY <1>15, <2>1, <3>2, Bystander DEF Only, TypeOK, Receive
    <3> QED
      BY <3>1, <3>2
  <2>5. WholeFiles'
    BY <1>15, Counted, ThreadTypes, StoreAssumption DEF Receive, TypeOK,
       ThreadOK, WholeFiles, Nothing
  <2>6. TagsOK'
    <3>1. \A x \in Keys : Changing(x) => Changing(x)'
      BY <1>15, <2>1, OutsideKeeps DEF TypeOK, Receive
    <3>2. TagsIntact' => TagsIntact
      BY <1>15, <2>1, IntactBefore DEF Hazards, Receive
    <3> QED
      BY <1>15, <2>1, <3>1, <3>2, TagsFrame DEF Receive
  <2>7. TmpOwned'
    BY <1>15, <2>1 DEF Receive, TmpOwned, Only, Stays, TypeOK
  <2> QED
    BY <2>2, <2>3, <2>4, <2>5, <2>6, <2>7
<1>16. ASSUME NEW s \in Sessions, ReceiveFails(s) PROVE Sound'
  <2>1. /\ session' \in [Sessions -> Threads] /\ Only(s)
        /\ session'[s].pc = "idle" /\ session'[s].got = 0 /\ session'[s].want = 0
    BY <1>16, Ended DEF ReceiveFails
  <2>2. TypeOK'
    <3>1. \A r \in Sessions : session'[r].got <= session'[r].want
      BY <1>16, <2>1, ThreadTypes, StoreAssumption DEF Only, Stays, ReceiveFails
    <3>2. left' \in [Hazards -> Nat] /\ \A h \in Hazards : left'[h] <= Budget[h]
      BY <1>16, SpendTypes DEF ReceiveFails, Hazards, TypeOK
    <3> QED
      BY <1>16, <2>1, <3>1, <3>2 DEF ReceiveFails, TypeOK
  <2>3. LockOK'
    BY <1>16, <2>1 DEF ReceiveFails, LockOK, Inside, Only, TypeOK
  <2>4. (\A r \in Sessions : ThreadOK(r))'
    <3>1. ThreadOK(s)'
      BY <2>1 DEF ThreadOK
    <3>2. ASSUME NEW r \in Sessions, r # s PROVE ThreadOK(r)'
      BY <1>16, <2>1, <3>2, Bystander DEF Only, ReceiveFails, TypeOK
    <3> QED
      BY <3>1, <3>2
  <2>5. WholeFiles'
    BY <1>16, Ended, ThreadTypes, StoreAssumption, SpendTypes DEF
       ReceiveFails, TypeOK, ThreadOK, WholeFiles, Nothing, Hazards
  <2>6. TagsOK'
    <3>1. \A x \in Keys : Changing(x) => Changing(x)'
      BY <1>16, <2>1, OutsideKeeps DEF TypeOK, ReceiveFails
    <3>2. TagsIntact' => TagsIntact
      BY <1>16, <2>1, IntactBefore DEF Hazards, ReceiveFails
    <3> QED
      BY <1>16, <2>1, <3>1, <3>2, TagsFrame DEF ReceiveFails
  <2>7. TmpOwned'
    BY <1>16, <2>1 DEF ReceiveFails, TmpOwned, Only, Stays, TypeOK
  <2> QED
    BY <2>2, <2>3, <2>4, <2>5, <2>6, <2>7
<1>17. ASSUME NEW s \in Sessions, Send(s) PROVE Sound'
  <2>1. /\ session' \in [Sessions -> Threads] /\ Only(s)
        /\ /\ session'[s].pc \in {"idle", "send"}
           /\ session'[s].got <= session'[s].want
    BY <1>17, Counted, Ended, ThreadTypes DEF Send
  <2>2. TypeOK'
    <3>1. \A r \in Sessions : session'[r].got <= session'[r].want
      BY <1>17, <2>1, ThreadTypes, StoreAssumption DEF Only, Stays, Send
    <3> QED
      BY <1>17, <2>1, <3>1 DEF Send, TypeOK
  <2>3. LockOK'
    BY <1>17, <2>1 DEF Send, LockOK, Inside, Only, TypeOK
  <2>4. (\A r \in Sessions : ThreadOK(r))'
    <3>1. ThreadOK(s)'
      BY <1>17, <2>1 DEF ThreadOK, Stays, Send
    <3>2. ASSUME NEW r \in Sessions, r # s PROVE ThreadOK(r)'
      BY <1>17, <2>1, <3>2, Bystander DEF Only, TypeOK, Send
    <3> QED
      BY <3>1, <3>2
  <2>5. WholeFiles'
    BY <1>17, Counted, Ended, ThreadTypes, StoreAssumption DEF Send, TypeOK,
       ThreadOK, WholeFiles, Nothing
  <2>6. TagsOK'
    <3>1. \A x \in Keys : Changing(x) => Changing(x)'
      BY <1>17, <2>1, OutsideKeeps DEF TypeOK, Send
    <3>2. TagsIntact' => TagsIntact
      BY <1>17, <2>1, IntactBefore DEF Hazards, Send
    <3> QED
      BY <1>17, <2>1, <3>1, <3>2, TagsFrame DEF Send
  <2>7. TmpOwned'
    BY <1>17, <2>1, TmpFrame DEF Send
  <2> QED
    BY <2>2, <2>3, <2>4, <2>5, <2>6, <2>7
<1>18. ASSUME NEW s \in Sessions, SendEnds(s) PROVE Sound'
  <2>1. /\ session' \in [Sessions -> Threads] /\ Only(s)
        /\ session'[s].pc = "idle" /\ session'[s].got = 0 /\ session'[s].want = 0
    BY <1>18, Ended DEF SendEnds
  <2>2. TypeOK'
    <3>1. \A r \in Sessions : session'[r].got <= session'[r].want
      BY <1>18, <2>1, ThreadTypes, StoreAssumption DEF Only, Stays, SendEnds
    <3>2. left' \in [Hazards -> Nat] /\ \A h \in Hazards : left'[h] <= Budget[h]
      BY <1>18, SpendTypes DEF SendEnds, Hazards, TypeOK
    <3> QED
      BY <1>18, <2>1, <3>1, <3>2 DEF SendEnds, TypeOK
  <2>3. LockOK'
    BY <1>18, <2>1 DEF SendEnds, LockOK, Inside, Only, TypeOK
  <2>4. (\A r \in Sessions : ThreadOK(r))'
    <3>1. ThreadOK(s)'
      BY <1>18, <2>1 DEF ThreadOK, Stays, SendEnds
    <3>2. ASSUME NEW r \in Sessions, r # s PROVE ThreadOK(r)'
      BY <1>18, <2>1, <3>2, Bystander DEF Only, TypeOK, SendEnds
    <3> QED
      BY <3>1, <3>2
  <2>5. WholeFiles'
    BY <1>18, Ended, ThreadTypes, StoreAssumption, SpendTypes DEF SendEnds,
       TypeOK, ThreadOK, WholeFiles, Nothing, Hazards
  <2>6. TagsOK'
    <3>1. \A x \in Keys : Changing(x) => Changing(x)'
      BY <1>18, <2>1, OutsideKeeps DEF TypeOK, SendEnds
    <3>2. TagsIntact' => TagsIntact
      BY <1>18, <2>1, IntactBefore DEF Hazards, SendEnds
    <3> QED
      BY <1>18, <2>1, <3>1, <3>2, TagsFrame DEF SendEnds
  <2>7. TmpOwned'
    BY <1>18, <2>1, TmpFrame DEF SendEnds
  <2> QED
    BY <2>2, <2>3, <2>4, <2>5, <2>6, <2>7
<1>19. ASSUME Crash PROVE Sound'
  <2>2. TypeOK'
    <3>1. /\ session' \in [Sessions -> Threads]
          /\ \A r \in Sessions : session'[r].got <= session'[r].want
      BY <1>19, IdleIsAThread, IdleFields DEF Crash
    <3>2. left' \in [Hazards -> Nat] /\ \A h \in Hazards : left'[h] <= Budget[h]
      BY <1>19, SpendTypes DEF Crash, Hazards
    <3> QED
      BY <1>19, <3>1, <3>2 DEF Crash, TypeOK
  <2>3. LockOK'
    BY <1>19, IdleFields DEF Crash, LockOK, Inside, Only, TypeOK
  <2>4. (\A r \in Sessions : ThreadOK(r))'
    BY <1>19, IdleFields DEF Crash, ThreadOK, LockOK, Inside, Only, Stays,
       TypeOK
  <2>5. WholeFiles'
    BY <1>19, IdleIsAThread, ThreadTypes, StoreAssumption, SpendTypes DEF
       Crash, TypeOK, ThreadOK, WholeFiles, Nothing, Hazards
  <2>6. TagsOK'
    BY <1>19, IdleIsAThread, ThreadTypes, SpendTypes DEF Crash, TypeOK,
       LockOK, ThreadOK, TagsOK, TagsIntact, TagFor, WholeFiles, Changing,
       Inside, Only, Labels, Nothing, Hazards
  <2>7. TmpOwned'
    BY <1>19, IdleFields DEF Crash, TmpOwned, Only, Stays, TypeOK
  <2> QED
    BY <2>2, <2>3, <2>4, <2>5, <2>6, <2>7
<1>20. ASSUME Start PROVE Sound'
  <2>2. TypeOK'
    BY <1>20, StoreAssumption DEF Start, TypeOK
  <2>3. LockOK'
    BY <1>20, ThreadTypes DEF Start, LockOK, Inside, Only, TypeOK
  <2>4. (\A r \in Sessions : ThreadOK(r))'
    BY <1>20, ThreadTypes DEF Start, ThreadOK, LockOK, Inside, Only, TypeOK
  <2>5. WholeFiles'
    BY <1>20, ThreadTypes, StoreAssumption DEF Start, TypeOK, ThreadOK,
       WholeFiles, Nothing
  <2>6. TagsOK'
    BY <1>20, ThreadTypes DEF Start, TypeOK, LockOK, ThreadOK, TagsOK,
       TagsIntact, TagFor, WholeFiles, Changing, Inside, Only, Labels,
       Nothing, Hazards
  <2>7. TmpOwned'
    BY <1>20, ThreadTypes DEF Start, TypeOK, TmpOwned, Only
  <2> QED
    BY <2>2, <2>3, <2>4, <2>5, <2>6, <2>7
<1>21. ASSUME AccountCommand PROVE Sound'
  <2>2. TypeOK'
    <3>1. left' \in [Hazards -> Nat] /\ \A h \in Hazards : left'[h] <= Budget[h]
      BY <1>21, SpendTypes DEF AccountCommand, Hazards
    <3> QED
      BY <1>21, <3>1 DEF AccountCommand, TypeOK
  <2>3. LockOK'
    BY <1>21, ThreadTypes, SpendTypes DEF AccountCommand, LockOK, Inside,
       Only, TypeOK, Hazards
  <2>4. (\A r \in Sessions : ThreadOK(r))'
    BY <1>21, ThreadTypes, SpendTypes DEF AccountCommand, ThreadOK, LockOK,
       Inside, Only, TypeOK, Hazards
  <2>5. WholeFiles'
    BY <1>21, ThreadTypes, StoreAssumption, SpendTypes DEF AccountCommand,
       TypeOK, ThreadOK, WholeFiles, Nothing, Hazards
  <2>6. TagsOK'
    BY <1>21, ThreadTypes, SpendTypes DEF AccountCommand, TypeOK, LockOK,
       ThreadOK, TagsOK, TagsIntact, TagFor, WholeFiles, Changing, Inside,
       Only, Labels, Nothing, Hazards
  <2>7. TmpOwned'
    BY <1>21, ThreadTypes, SpendTypes DEF AccountCommand, TypeOK, TmpOwned,
       Only, Hazards
  <2> QED
    BY <2>2, <2>3, <2>4, <2>5, <2>6, <2>7
<1>22. CASE UNCHANGED vars
  <2>1. TypeOK'
    BY <1>22 DEF vars, TypeOK
  <2>2. LockOK'
    BY <1>22 DEF vars, LockOK
  <2>3. (\A r \in Sessions : ThreadOK(r))'
    BY <1>22 DEF vars, ThreadOK
  <2>4. WholeFiles'
    BY <1>22 DEF vars, WholeFiles
  <2>5. TagsOK'
    BY <1>22 DEF vars, TagsOK, TagsIntact, TagFor, Changing
  <2>6. TmpOwned'
    BY <1>22 DEF vars, TmpOwned
  <2> QED
    BY <2>1, <2>2, <2>3, <2>4, <2>5, <2>6
<1> QED
  BY <1>1, <1>2, <1>3, <1>4, <1>5, <1>6, <1>7, <1>8, <1>9, <1>10, <1>11,
     <1>12, <1>13, <1>14, <1>15, <1>16, <1>17, <1>18, <1>19, <1>20, <1>21,
     <1>22 DEF Next, Step, Transfer

-----------------------------------------------------------------------------
(* The theorems of the specification *)

\* An empty store is sound.
THEOREM SoundInit == Init => Sound
<1> SUFFICES ASSUME Init PROVE Sound
  OBVIOUS
<1>1. TypeOK
  <2>1. file \in [Keys -> Stored]
    BY StoreAssumption DEF Init, Nothing, Stored
  <2>2. session \in [Sessions -> Threads] /\ \A s \in Sessions : session[s].got <= session[s].want
    BY IdleIsAThread, IdleFields DEF Init
  <2>3. left \in [Hazards -> Nat] /\ \A h \in Hazards : left[h] <= Budget[h]
    BY StoreAssumption DEF Init
  <2>4. uploads \in Seq(Announced) /\ Len(uploads) <= requests
    BY DEF Init
  <2> QED
    BY <2>1, <2>2, <2>3, <2>4, StoreAssumption DEF Init, Markers, TypeOK
<1>2. LockOK /\ \A s \in Sessions : ThreadOK(s)
  BY DEF Init, LockOK, ThreadOK, Inside, Idle
<1>3. WholeFiles /\ TagsOK /\ TmpOwned
  BY DEF Init, WholeFiles, TagsOK, TagFor, TmpOwned, Nothing
<1> QED
  BY <1>1, <1>2, <1>3 DEF Sound

\* Sound is inductive, so it holds in every state the server can reach.
THEOREM SoundAlways == Spec => []Sound
BY SoundInit, SoundStep, PTL DEF Spec

\* Every variable keeps its type and no transfer runs past its announced size,
\* for any number of sessions and keys.
THEOREM TypeCorrect == Spec => []TypeOK
<1>1. Sound => TypeOK
  BY DEF Sound
<1> QED
  BY SoundAlways, <1>1, PTL

\* What a name leads to is the whole body of one upload announced for it,
\* whatever crashes, drops and concurrent sessions did meanwhile.
THEOREM FilesAreWhole == Spec => []WholeFiles
<1>1. Sound => WholeFiles
  BY DEF Sound
<1> QED
  BY SoundAlways, <1>1, PTL

\* Whoever takes the mutex finds the tag of the file that is there, as long as
\* no sidecar write was lost: concurrency alone never makes a tag lie.
THEOREM TagsMatch == Spec => []TagMatchesFile
<1>1. Sound => TagMatchesFile
  BY DEF Sound, TagsOK, TagMatchesFile, Changing
<1> QED
  BY SoundAlways, <1>1, PTL

\* A temporary file belongs to an upload in progress.
THEOREM TmpIsOwned == Spec => []TmpOwned
<1>1. Sound => TmpOwned
  BY DEF Sound
<1> QED
  BY SoundAlways, <1>1, PTL

-----------------------------------------------------------------------------
(* The refinement.  The invariant Sound supplies what the mapping needs to   *)
(* know of a reachable state: one thread at most inside the mutex, and the   *)
(* upload it is about the one the name leads to.                             *)

\* Nothing the mapping reads changes, so the register does not either.
LEMMA ContentKeeps ==
  ASSUME Sound, NEW k \in Keys, file'[k] = file[k], tag'[k] = tag[k],
         Changing(k)' <=> Changing(k),
         \A u \in 1 .. Len(uploads) : uploads'[u] = uploads[u]
  PROVE  ContentOf(k)' = ContentOf(k)
<1>1. CASE file[k].upload = 0
  BY <1>1 DEF ContentOf
<1>2. CASE file[k].upload # 0
  <2>1. file[k].upload \in 1 .. Len(uploads)
    BY <1>2, StoreAssumption DEF Sound, TypeOK, WholeFiles, Stored
  <2>2. Version(file[k].upload)' = Version(file[k].upload)
    BY <2>1 DEF Version
  <2> QED
    BY <1>2, <2>2 DEF ContentOf
<1> QED
  BY <1>1, <1>2

\* While a thread is between a key's file and its tag, the tag on disk does not
\* count.
LEMMA ContentIgnoresTag ==
  ASSUME NEW k \in Keys, file' = file, uploads' = uploads, Changing(k), Changing(k)'
  PROVE  ContentOf(k)' = ContentOf(k)
BY DEF ContentOf, Version

\* A step that touches neither files, tags nor announcements, taken by a thread
\* that is not between a file and its tag, before or after.
LEMMA QuietStep ==
  ASSUME Sound, NEW s \in Sessions, Only(s), session' \in [Sessions -> Threads],
         file' = file, tag' = tag, uploads' = uploads,
         mutex \ {s} = mutex' \ {s},
         session[s].pc \notin {"retag", "mark", "untag"},
         session'[s].pc \notin {"retag", "mark", "untag"}
  PROVE  UNCHANGED <<Offered, Content>>
<1>1. ASSUME NEW k \in Keys PROVE Changing(k)' <=> Changing(k)
  BY DEF Changing, Only, Sound, TypeOK
<1>2. ASSUME NEW k \in Keys PROVE ContentOf(k)' = ContentOf(k)
  BY <1>1, ContentKeeps
<1>3. Offered' = Offered
  BY DEF Offered, OfferedFor, Version
<1> QED
  BY <1>2, <1>3 DEF Content

\* Where what is announced stays and one key at most gets another content, the
\* register changes at that key only.
LEMMA OneKey ==
  ASSUME NEW k \in Keys, \A x \in Keys : x # k => ContentOf(x)' = ContentOf(x)
  PROVE  Content' = [Content EXCEPT ![k] = ContentOf(k)']
BY DEF Content

LEMMA OfferedKeeps == uploads' = uploads => Offered' = Offered
BY DEF Offered, OfferedFor, Version

\* A thread inside the mutex is there alone, so no other key is between its
\* file and its tag, before its step or after.
LEMMA AloneInside ==
  ASSUME Sound, NEW s \in Sessions, session[s].pc \in Inside,
         mutex' \subseteq mutex, s \in mutex' => session'[s].key = session[s].key,
         NEW x \in Keys, x # session[s].key
  PROVE  mutex = {s} /\ ~Changing(x) /\ ~Changing(x)'
<1>1. mutex = {s}
  BY DEF Sound, LockOK, TypeOK
<1> QED
  BY <1>1 DEF Changing

\* Whatever has been announced is a version.
LEMMA VersionsOffered ==
  ASSUME Sound, NEW u \in 1 .. Len(uploads)
  PROVE  Version(u) \in Versions
<1>1. uploads \in Seq(Announced) /\ Len(uploads) <= requests /\ requests \in 0 .. MaxRequests
  BY DEF Sound, TypeOK
<1>2. uploads[u] \in Announced
  BY <1>1
<1>3. uploads[u].tag \in Markers
  BY <1>2 DEF Announced
<1>4. u \in 1 .. MaxRequests
  BY <1>1, StoreAssumption
<1> QED
  BY <1>3, <1>4 DEF Version, Versions

\* A command that announces an upload offers its version and publishes nothing.
LEMMA BeginPutOffers ==
  ASSUME Sound, NEW s \in Sessions, NEW k \in Keys, NEW size \in Sizes,
         NEW t \in Markers, BeginPut(s, k, size, t)
  PROVE  Register!Next
<1>n. PICK n \in Nat : n = Len(uploads) + 1
  BY Announces DEF Sound, TypeOK
<1>1. /\ session[s].pc = "idle" /\ Only(s) /\ session' \in [Sessions -> Threads]
      /\ session'[s].pc = "recv"
      /\ uploads'[n] = [key |-> k, size |-> size, tag |-> t]
      /\ \A u \in 1 .. Len(uploads) : uploads'[u] = uploads[u]
      /\ Len(uploads') = n /\ n \in 1 .. MaxRequests /\ Len(uploads) \in Nat
      /\ UNCHANGED <<file, tag, mutex>>
  BY <1>n, Announces DEF Sound, TypeOK
<1>2. Content' = Content
  <2>1. ASSUME NEW x \in Keys PROVE Changing(x)' <=> Changing(x)
    BY <1>1 DEF Changing, Only, Sound, TypeOK
  <2> QED
    BY <1>1, <2>1, ContentKeeps DEF Content
<1>3. Offered' = [Offered EXCEPT ![k] = @ \cup {<<n, t>>}]
  <2>1. \A v : v \in 1 .. n <=> v \in 1 .. Len(uploads) \/ v = n
    BY <1>n, <1>1
    <2>2. Version(n)' = <<n, t>>
    BY <1>1 DEF Version
  <2>3. \A v \in 1 .. Len(uploads) : Version(v)' = Version(v)
    BY <1>1 DEF Version
  <2>4. ASSUME NEW x \in Keys
        PROVE  OfferedFor(x)' = OfferedFor(x) \cup (IF x = k THEN {<<n, t>>} ELSE {})
    <3>1. ASSUME NEW v
          PROVE  v \in OfferedFor(x)' <=> \E u \in 1 .. n : uploads'[u].key = x /\ v = Version(u)'
      BY <1>1 DEF OfferedFor
    <3>2. ASSUME NEW v
          PROVE  v \in OfferedFor(x) <=>
                   \E u \in 1 .. Len(uploads) : uploads[u].key = x /\ v = Version(u)
      BY DEF OfferedFor
    <3>3. uploads'[n].key = k
      BY <1>1
    <3>4. ASSUME NEW v
          PROVE  v \in OfferedFor(x)' <=> v \in OfferedFor(x) \/ (x = k /\ v = <<n, t>>)
      BY <1>1, <2>1, <2>2, <2>3, <3>1, <3>2, <3>3
    <3> QED
      BY <3>4
  <2> QED
    BY <2>4 DEF Offered
<1>4. <<n, t>> \in Versions
  BY <1>1 DEF Versions
<1> QED
  BY <1>2, <1>3, <1>4 DEF Register!Next, Register!Offer

\* The rename is the moment an upload is published, tag included.
LEMMA RenamePublishes ==
  ASSUME Sound, NEW s \in Sessions, Rename(s)
  PROVE  Register!Next
<1>k. PICK k \in Keys, u \in Nat : k = session[s].key /\ u = session[s].upload
  BY ThreadTypes, StoreAssumption DEF Sound
<1>1. session[s].pc = "rename" /\ u \in 1 .. Len(uploads) /\ uploads[u].key = k
  BY <1>k DEF Rename, Sound, ThreadOK
<1>2. file' = [file EXCEPT ![k] = [upload |-> u, blocks |-> session[s].got]]
  BY <1>k DEF Rename
<1>3. UNCHANGED <<tag, uploads>>
  BY DEF Rename
<1>4. /\ mutex' \subseteq mutex
      /\ s \in mutex' => session'[s].key = k /\ session'[s].pc = "retag"
      /\ k \notin Chunks => mutex' = mutex
  BY <1>k, <1>1, Turned DEF Rename, Unlock, Goto, Sound, TypeOK, Labels, Stays
<1>5. ContentOf(k)' = Version(u)
  <2>1. file'[k].upload = u /\ u # 0
    BY <1>1, <1>2 DEF Sound, TypeOK
  <2>2. k \in Chunks \/ Changing(k)'
    BY <1>1, <1>4 DEF Changing, Sound, LockOK, Inside
  <2> QED
    BY <1>3, <2>1, <2>2 DEF ContentOf, Version
<1>6. ASSUME NEW x \in Keys, x # k PROVE ContentOf(x)' = ContentOf(x)
  <2>1. ~Changing(x) /\ ~Changing(x)'
    BY <1>k, <1>1, <1>4, <1>6, AloneInside DEF Inside
  <2>2. file'[x] = file[x]
    BY <1>2, <1>6 DEF Sound, TypeOK
  <2> QED
    BY <1>3, <2>1, <2>2, ContentKeeps
<1>7. Content' = [Content EXCEPT ![k] = Version(u)] /\ Offered' = Offered
  BY <1>1, <1>3, <1>5, <1>6, OneKey, OfferedKeeps
<1>8. Version(u) \in Offered[k]
  BY <1>1 DEF Offered, OfferedFor
<1>9. Version(u) \in Versions
  BY <1>1, VersionsOffered
<1> QED
  BY <1>1, <1>7, <1>8, <1>9 DEF Register!Next, Register!Publish

\* The write of the tag is invisible: the upload has been published with it.
LEMMA TagStutters ==
  ASSUME Sound, NEW s \in Sessions, EmptyTag(s) \/ WriteTag(s)
  PROVE  UNCHANGED <<Offered, Content>>
<1>k. PICK k \in Keys, u \in Nat : k = session[s].key /\ u = session[s].upload
  BY ThreadTypes, StoreAssumption DEF Sound
<1>1. /\ session[s].pc \in {"retag", "mark"} /\ u \in 1 .. Len(uploads)
      /\ file[k].upload = u /\ s \in mutex
      /\ UNCHANGED <<file, uploads>>
  BY <1>k DEF EmptyTag, WriteTag, Sound, ThreadOK, LockOK, Inside
<1>2. Changing(k)
  BY <1>k, <1>1 DEF Changing
<1>3. ASSUME NEW x \in Keys, x # k PROVE ContentOf(x)' = ContentOf(x)
  <2>1. mutex' \subseteq mutex /\ (s \in mutex' => session'[s].key = k)
    BY <1>k, Turned DEF EmptyTag, WriteTag, Unlock, Labels, Stays, Sound, TypeOK, LockOK
  <2>2. ~Changing(x) /\ ~Changing(x)'
    BY <1>k, <1>1, <1>3, <2>1, AloneInside DEF Inside
  <2>3. tag'[x] = tag[x]
    BY <1>k, <1>3 DEF EmptyTag, WriteTag, Sound, TypeOK
  <2> QED
    BY <1>1, <2>2, <2>3, ContentKeeps
<1>4. CASE EmptyTag(s)
  <2>1. session'[s].pc = "mark" /\ session'[s].key = k /\ mutex' = mutex
    BY <1>k, <1>4, Turned DEF EmptyTag, Labels, Stays, Sound
  <2>2. Changing(k)'
    BY <1>1, <2>1 DEF Changing
  <2>3. ContentOf(k)' = ContentOf(k)
    BY <1>1, <1>2, <2>2, ContentIgnoresTag
  <2> QED
    BY <1>1, <1>3, <2>3, OfferedKeeps DEF Content
<1>5. CASE WriteTag(s)
  <2>1. tag'[k] = uploads[u].tag
    BY <1>k, <1>5 DEF WriteTag, Sound, TypeOK
  <2>2. ContentOf(k) = Version(u)
    BY <1>1, <1>2 DEF ContentOf
  <2>3. ContentOf(k)' = Version(u)
    BY <1>1, <2>1 DEF ContentOf, Version
  <2> QED
    BY <1>1, <1>3, <2>2, <2>3, OfferedKeeps DEF Content
<1> QED
  BY <1>4, <1>5

\* The unlink is the moment a key is cleared.
LEMMA UnlinkRemoves ==
  ASSUME Sound, NEW s \in Sessions, Unlink(s)
  PROVE  Register!Next
<1>k. PICK k \in Keys : k = session[s].key
  BY ThreadTypes DEF Sound
<1>1. session[s].pc = "unlink" /\ UNCHANGED <<tag, uploads>>
  BY DEF Unlink
<1>2. file' = [file EXCEPT ![k] = Nothing]
  BY <1>k DEF Unlink
<1>3. ContentOf(k)' = NoTag
  BY <1>2 DEF ContentOf, Nothing, Sound, TypeOK
<1>4. ASSUME NEW x \in Keys, x # k PROVE ContentOf(x)' = ContentOf(x)
  <2>1. mutex' \subseteq mutex /\ (s \in mutex' => session'[s].key = k)
    BY <1>k, <1>1, Turned DEF Unlink, Unlock, Goto, Sound, TypeOK, LockOK, Labels, Stays
  <2>2. ~Changing(x) /\ ~Changing(x)'
    BY <1>k, <1>1, <1>4, <2>1, AloneInside DEF Inside
  <2>3. file'[x] = file[x]
    BY <1>2, <1>4 DEF Sound, TypeOK
  <2> QED
    BY <1>1, <2>2, <2>3, ContentKeeps
<1>5. Content' = [Content EXCEPT ![k] = NoTag] /\ Offered' = Offered
  BY <1>1, <1>3, <1>4, OneKey, OfferedKeeps
<1> QED
  BY <1>5 DEF Register!Next, Register!Remove

\* The sidecar of a file that is gone is gone for whoever looks.
LEMMA RemoveTagStutters ==
  ASSUME Sound, NEW s \in Sessions, RemoveTag(s)
  PROVE  UNCHANGED <<Offered, Content>>
<1>k. PICK k \in Keys : k = session[s].key
  BY ThreadTypes DEF Sound
<1>1. /\ session[s].pc = "untag" /\ file[k].upload = 0
      /\ tag' = [tag EXCEPT ![k] = NoTag] /\ mutex' \subseteq mutex /\ s \notin mutex'
      /\ UNCHANGED <<file, uploads>>
  BY <1>k DEF RemoveTag, Unlock, Sound, ThreadOK
<1>2. ASSUME NEW x \in Keys, x # k PROVE ContentOf(x)' = ContentOf(x)
  <2>1. ~Changing(x) /\ ~Changing(x)'
    BY <1>k, <1>1, <1>2, AloneInside DEF Inside
  <2>2. tag'[x] = tag[x]
    BY <1>1, <1>2 DEF Sound, TypeOK
  <2> QED
    BY <1>1, <2>1, <2>2, ContentKeeps
<1>3. ContentOf(k)' = ContentOf(k)
  BY <1>1 DEF ContentOf
<1> QED
  BY <1>1, <1>2, <1>3, OfferedKeeps DEF Content

\* No sidecar write is lost: the server does not die, and none fails.
TagsSafe == Budget["crash"] = 0 /\ Budget["untagged"] = 0

\* A hazard whose budget is nought does not strike.
LEMMA NeverSpent ==
  ASSUME TypeOK, NEW hazard \in Hazards, Budget[hazard] = 0
  PROVE  ~Spend(hazard)
BY DEF TypeOK, Spend

\* Every step of a thread maps to a step of the register or to none.
LEMMA ThreadStep ==
  ASSUME Sound, TagsSafe, NEW s \in Sessions, Step(s) \/ Transfer(s)
  PROVE  Register!Next \/ UNCHANGED <<Offered, Content>>
<1> DEFINE Goal == Register!Next \/ UNCHANGED <<Offered, Content>>
<1>1. TypeOK /\ ThreadOK(s)
  BY DEF Sound
<1>2. ASSUME LockToPut(s) PROVE Goal
  <2>1. /\ session' \in [Sessions -> Threads] /\ Only(s)
          /\ session[s].pc \notin {"retag", "mark", "untag"}
          /\ session'[s].pc \notin {"retag", "mark", "untag"}
    BY <1>2, <1>1, Turned DEF LockToPut, Labels, Received, Lock, Unlock
  <2>2. UNCHANGED <<file, tag, uploads>> /\ mutex \ {s} = mutex' \ {s}
    BY <1>2 DEF LockToPut, Received, Lock, Unlock, TypeOK
  <2> QED
    BY <2>1, <2>2, QuietStep
<1>3. ASSUME RenameFails(s) PROVE Goal
  <2>1. /\ session' \in [Sessions -> Threads] /\ Only(s)
          /\ session[s].pc \notin {"retag", "mark", "untag"}
          /\ session'[s].pc \notin {"retag", "mark", "untag"}
    BY <1>3, <1>1, Ended DEF RenameFails, Labels, Unlock
  <2>2. UNCHANGED <<file, tag, uploads>> /\ mutex \ {s} = mutex' \ {s}
    BY <1>3 DEF RenameFails, Unlock, TypeOK
  <2> QED
    BY <2>1, <2>2, QuietStep
<1>4. ASSUME Look(s) PROVE Goal
  <2>1. /\ session' \in [Sessions -> Threads] /\ Only(s)
          /\ session[s].pc \notin {"retag", "mark", "untag"}
          /\ session'[s].pc \notin {"retag", "mark", "untag"}
    BY <1>4, <1>1, LookTurned DEF Look, Labels
  <2>2. UNCHANGED <<file, tag, uploads>> /\ mutex \ {s} = mutex' \ {s}
    BY <1>4 DEF Look, TypeOK
  <2> QED
    BY <2>1, <2>2, QuietStep
<1>5. ASSUME Open(s) PROVE Goal
  <2>1. /\ session' \in [Sessions -> Threads] /\ Only(s)
          /\ session[s].pc \notin {"retag", "mark", "untag"}
          /\ session'[s].pc \notin {"retag", "mark", "untag"}
    BY <1>5, <1>1, OpenTurned DEF Open, Labels
  <2>2. UNCHANGED <<file, tag, uploads>> /\ mutex \ {s} = mutex' \ {s}
    BY <1>5 DEF Open, TypeOK
  <2> QED
    BY <2>1, <2>2, QuietStep
<1>6. ASSUME LockToDelete(s) PROVE Goal
  <2>1. /\ session' \in [Sessions -> Threads] /\ Only(s)
          /\ session[s].pc \notin {"retag", "mark", "untag"}
          /\ session'[s].pc \notin {"retag", "mark", "untag"}
    BY <1>6, <1>1, Turned DEF LockToDelete, Labels, Lock
  <2>2. UNCHANGED <<file, tag, uploads>> /\ mutex \ {s} = mutex' \ {s}
    BY <1>6 DEF LockToDelete, Lock, TypeOK
  <2> QED
    BY <2>1, <2>2, QuietStep
<1>7. ASSUME Receive(s) PROVE Goal
  <2>1. /\ session' \in [Sessions -> Threads] /\ Only(s)
          /\ session[s].pc \notin {"retag", "mark", "untag"}
          /\ session'[s].pc \notin {"retag", "mark", "untag"}
    BY <1>7, <1>1, Counted DEF Receive, Labels
  <2>2. UNCHANGED <<file, tag, uploads>> /\ mutex \ {s} = mutex' \ {s}
    BY <1>7 DEF Receive, TypeOK
  <2> QED
    BY <2>1, <2>2, QuietStep
<1>8. ASSUME ReceiveFails(s) PROVE Goal
  <2>1. /\ session' \in [Sessions -> Threads] /\ Only(s)
          /\ session[s].pc \notin {"retag", "mark", "untag"}
          /\ session'[s].pc \notin {"retag", "mark", "untag"}
    BY <1>8, <1>1, Ended DEF ReceiveFails, Labels
  <2>2. UNCHANGED <<file, tag, uploads>> /\ mutex \ {s} = mutex' \ {s}
    BY <1>8 DEF ReceiveFails, TypeOK
  <2> QED
    BY <2>1, <2>2, QuietStep
<1>9. ASSUME Send(s) PROVE Goal
  <2>1. /\ session' \in [Sessions -> Threads] /\ Only(s)
          /\ session[s].pc \notin {"retag", "mark", "untag"}
          /\ session'[s].pc \notin {"retag", "mark", "untag"}
    BY <1>9, <1>1, Ended, Counted DEF Send, Labels
  <2>2. UNCHANGED <<file, tag, uploads>> /\ mutex \ {s} = mutex' \ {s}
    BY <1>9 DEF Send, TypeOK
  <2> QED
    BY <2>1, <2>2, QuietStep
<1>10. ASSUME SendEnds(s) PROVE Goal
  <2>1. /\ session' \in [Sessions -> Threads] /\ Only(s)
          /\ session[s].pc \notin {"retag", "mark", "untag"}
          /\ session'[s].pc \notin {"retag", "mark", "untag"}
    BY <1>10, <1>1, Ended DEF SendEnds, Labels
  <2>2. UNCHANGED <<file, tag, uploads>> /\ mutex \ {s} = mutex' \ {s}
    BY <1>10 DEF SendEnds, TypeOK
  <2> QED
    BY <2>1, <2>2, QuietStep
<1>11. ASSUME TagFails(s) PROVE FALSE
  BY <1>1, <1>11, NeverSpent DEF TagFails, TagsSafe, Hazards
<1> QED
  BY <1>2, <1>3, <1>4, <1>5, <1>6, <1>7, <1>8, <1>9, <1>10, <1>11,
     RenamePublishes, TagStutters, UnlinkRemoves, RemoveTagStutters DEF Step, Transfer

\* Every step of the storage maps to a step of the register or to none.
LEMMA RegisterStep ==
  ASSUME TagsSafe, Sound, [Next]_vars
  PROVE  [Register!Next]_<<Offered, Content>>
<1>1. TypeOK
  BY DEF Sound
<1>2. CASE \E s \in Sessions, k \in Keys, size \in Sizes, t \in Markers : BeginPut(s, k, size, t)
  BY <1>2, BeginPutOffers
<1>3. ASSUME NEW s \in Sessions, NEW k \in Keys, BeginGet(s, k) \/ BeginDelete(s, k)
      PROVE  UNCHANGED <<Offered, Content>>
  <2>1. /\ session' \in [Sessions -> Threads] /\ Only(s)
        /\ session[s].pc = "idle" /\ session'[s].pc \in {"look", "remove"}
    BY <1>1, <1>3, Begun DEF BeginGet, BeginDelete, Command, Labels
  <2>2. UNCHANGED <<file, tag, uploads, mutex>>
    BY <1>3 DEF BeginGet, BeginDelete
  <2> QED
    BY <2>1, <2>2, QuietStep
<1>4. CASE \E s \in Sessions : Step(s) \/ Transfer(s)
  BY <1>4, ThreadStep
<1>5. CASE Crash
  BY <1>1, <1>5, NeverSpent DEF Crash, TagsSafe, Hazards
<1>6. CASE Start \/ AccountCommand \/ UNCHANGED vars
  <2>1. UNCHANGED <<file, tag, uploads, mutex, session>>
    BY <1>6 DEF Start, AccountCommand, vars
  <2>2. ASSUME NEW k \in Keys PROVE ContentOf(k)' = ContentOf(k)
    BY <2>1, ContentKeeps DEF Changing
  <2> QED
    BY <2>1, <2>2, OfferedKeeps DEF Content
<1> QED
  BY <1>2, <1>3, <1>4, <1>5, <1>6 DEF Next

\* At the start nothing is stored and nothing offered.
LEMMA RegisterInit == Init => Register!Init
<1> SUFFICES ASSUME Init PROVE Register!Init
  OBVIOUS
<1>1. Offered = [k \in Keys |-> {}]
  BY DEF Init, Offered, OfferedFor
<1>2. Content = [k \in Keys |-> NoTag]
  BY DEF Init, Content, ContentOf, Nothing
<1> QED
  BY <1>1, <1>2 DEF Register!Init

\* With no sidecar write lost, the storage implements a register per key:
\* however many threads put, get and delete (session.cpp:256-266), and whatever
\* transfers fail or account commands interfere, content and tag change
\* together, to a version some client announced for that key, or to nothing.
THEOREM StoreImplementsRegister ==
  ASSUME TagsSafe
  PROVE  Spec => ImplementsRegister
<1>1. Sound /\ [Next]_vars => [Register!Next]_<<Offered, Content>>
  BY RegisterStep
<1> QED
  BY <1>1, RegisterInit, SoundAlways, PTL DEF Spec, ImplementsRegister, Register!Spec
=============================================================================

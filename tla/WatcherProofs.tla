---------------------------- MODULE WatcherProofs ----------------------------
(***************************************************************************)
(* What the watcher remembers has been uploaded, and what is downloaded is *)
(* the newest version stored: for any files, any number of edits and any   *)
(* number of failures.                                                     *)
(***************************************************************************)
EXTENDS Watcher, TLAPS

\* The types the argument needs; the version of a file only grows.
Types ==
  /\ folder \in [Names -> [version : Nat, stamp : Nat, there : BOOLEAN]]
  /\ todo \subseteq Names /\ cur \in Names /\ now \in Nat /\ read \in Nat
  /\ seen \in [Names -> Nat] /\ newest \in [Names -> Nat]
  /\ disk \in [stamps : [Names -> Nat], torn : BOOLEAN]
  /\ pending \in [Names -> Nat] /\ late \subseteq Names \X Nat

\* Nothing is stored, pending or a stamp that the file has not had yet.
Stored(f) ==
  /\ newest[f] <= folder[f].version /\ folder[f].stamp <= folder[f].version
  /\ pending[f] <= newest[f]

\* The stamp taken before an upload is no newer than what the upload reads, which in turn
\* is at least as new as what was stored before it.
UnderWay ==
  /\ pc = "seal" => now <= folder[cur].version
  /\ pc = "upload" => /\ now <= read /\ newest[cur] <= read
                      /\ read <= folder[cur].version

\* A body stored late is one the file has had, and no newer than what is uploaded after it.
Had(f, v) == v <= folder[f].version /\ (pc = "upload" /\ f = cur => v <= read)
LateWas == \A f \in Names, v \in Nat : <<f, v>> \in late => Had(f, v)

\* RecordedWasUploaded is not inductive: recording a stamp relies on what was read after the
\* stamp was taken, and on no body being newer that is stored late.
Remembered ==
  Types /\ (\A f \in Names : Stored(f)) /\ UnderWay /\ LateWas /\ RecordedWasUploaded

LEMMA InitRemembered == Init => Remembered
<1> SUFFICES ASSUME Init PROVE Remembered
  OBVIOUS
<1>1. AnyName \in Names
  BY WatcherAssumption DEF AnyName
<1>2. Types
  BY <1>1 DEF Init, Types, Nothing
<1>3. (\A f \in Names : Stored(f)) /\ UnderWay /\ LateWas /\ RecordedWasUploaded
  BY DEF Init, Stored, UnderWay, LateWas, RecordedWasUploaded, Nothing
<1> QED BY <1>2, <1>3 DEF Remembered

\* Steps that store nothing and do not lead into an upload: what is pending may go, and
\* bodies that the files have had may be left behind.
LEMMA Frame ==
  ASSUME Remembered,
         UNCHANGED <<folder, cur, now, read, disk, newest>>, seen' \in {seen, Nothing},
         pending' \in [Names -> Nat], \A f \in Names : pending'[f] \in {0, pending[f]},
         late' \subseteq Names \X Nat, todo' \subseteq Names,
         \A f \in Names, v \in Nat : <<f, v>> \in late' \ late => v <= folder[f].version,
         \/ pc' \in {"off", "scan", "open state", "write state", "sync"}
         \/ pc' = pc /\ late' = late
  PROVE  Remembered'
<1> USE DEF Remembered
<1>0. /\ Nothing \in [Names -> Nat] /\ \A f \in Names : Nothing[f] = 0
      /\ newest \in [Names -> Nat] /\ seen \in [Names -> Nat]
  BY DEF Types, Nothing
<1>5. seen' \in [Names -> Nat] /\ \A f \in Names : seen'[f] \in {0, seen[f]}
  BY <1>0
<1>1. Types'
  BY <1>5 DEF Types
<1>2. ASSUME NEW f \in Names PROVE Stored(f)'
  <2>1. /\ pending'[f] = 0 \/ pending'[f] = pending[f]
        /\ pending[f] <= newest[f] /\ newest[f] \in Nat /\ pending[f] \in Nat
    BY <1>0 DEF Stored, Types
  <2>2. pending'[f] <= newest[f]
    BY ONLY <2>1
  <2> QED BY <2>2 DEF Stored
<1>3. UnderWay' /\ LateWas'
  BY DEF UnderWay, LateWas, Had
<1>4. ASSUME NEW f \in Names
      PROVE  seen'[f] <= newest'[f] /\ disk'.stamps[f] <= newest'[f]
  <2>1. /\ seen'[f] = 0 \/ seen'[f] = seen[f]
        /\ seen[f] <= newest[f] /\ newest[f] \in Nat /\ seen[f] \in Nat
    BY <1>0, <1>5 DEF RecordedWasUploaded
  <2>2. seen'[f] <= newest[f]
    BY ONLY <2>1
  <2> QED BY <2>2 DEF RecordedWasUploaded
<1> QED BY <1>1, <1>2, <1>3, <1>4 DEF RecordedWasUploaded

\* A body cut off is one that was being sent.
LEMMA CutOffKeeps ==
  ASSUME Remembered, CutOff, pc' \in {"off", "scan"}, seen' \in {seen, Nothing},
         UNCHANGED <<folder, cur, now, read, disk>>, todo' \subseteq Names
  PROVE  Remembered'
<1> USE DEF Remembered
<1>1. Sent \subseteq Names \X Nat
  BY DEF Sent, Types
<1>2. \A f \in Names, v \in Nat : <<f, v>> \in Sent => v <= folder[f].version
  BY DEF Sent, UnderWay, Stored, Types
<1>3. /\ newest' = newest /\ pending' \in [Names -> Nat]
      /\ \A f \in Names : pending'[f] \in {0, pending[f]}
  BY DEF CutOff, Stores, Types
<1>4. \A body \in late' \ late : body \in Sent
  BY DEF CutOff, Stores
<1>5. late' \subseteq Names \X Nat
  BY <1>1, <1>4 DEF Types
<1> QED BY <1>2, <1>3, <1>4, <1>5, Frame

\* A late body makes nothing newer than what the file has had, or than what is read.
LEMMA LateRemembered ==
  ASSUME Remembered, NEW f \in Names, NEW v \in Versions, LateStore(f, v) PROVE Remembered'
<1> USE DEF Remembered
<1>0. /\ v \in Nat /\ <<f, v>> \in late /\ Had(f, v) /\ newest[f] \in Nat
      /\ UNCHANGED <<folder, watcher, disk, pending>> /\ late' \subseteq late
      /\ newest' = [newest EXCEPT ![f] = Newer(newest[f], v)]
  BY DEF LateStore, World, Versions, LateWas, Types
<1>1. Newer(newest[f], v) \in Nat /\ newest[f] <= Newer(newest[f], v)
      /\ Newer(newest[f], v) \in {newest[f], v}
  BY <1>0 DEF Newer
<1>2. /\ newest' \in [Names -> Nat] /\ newest'[f] = Newer(newest[f], v)
      /\ \A g \in Names \ {f} : newest'[g] = newest[g]
  BY <1>0, <1>1 DEF Types
<1>3. Types'
  BY <1>0, <1>2 DEF Types, watcher
<1>4. ASSUME NEW g \in Names PROVE Stored(g)'
  BY <1>0, <1>1, <1>2 DEF Stored, Types, Had
<1>5. UnderWay'
  BY <1>0, <1>1, <1>2 DEF UnderWay, Types, Had, watcher
<1>6. LateWas'
  BY <1>0 DEF LateWas, Had, watcher
<1>7. ASSUME NEW g \in Names
      PROVE  seen'[g] <= newest'[g] /\ disk'.stamps[g] <= newest'[g]
  BY <1>0, <1>1, <1>2 DEF RecordedWasUploaded, Types, watcher
<1> QED BY <1>3, <1>4, <1>5, <1>6, <1>7 DEF RecordedWasUploaded

\* A restarted watcher remembers what the state file has kept.
LEMMA StartRemembered == ASSUME Remembered, Start PROVE Remembered'
<1> USE DEF Remembered, Start, World, Stores
<1>1. PICK kept \in SUBSET Names :
        seen' = [f \in Names |-> IF f \in kept THEN disk.stamps[f] ELSE 0]
  OBVIOUS
<1>2. disk.stamps \in [Names -> Nat]
  BY DEF Types
<1>3. Types'
  BY <1>1, <1>2 DEF Types
<1>4. \A f \in Names : Stored(f)'
  BY DEF Stored
<1>5. RecordedWasUploaded'
  BY <1>1, <1>2 DEF RecordedWasUploaded, Types
<1>6. UnderWay' /\ LateWas'
  BY DEF UnderWay, LateWas, Had
<1> QED BY <1>3, <1>4, <1>5, <1>6

\* The stamp is taken from the file as it is now.
LEMMA LookRemembered == ASSUME Remembered, NEW f \in Names, Look(f) PROVE Remembered'
<1> USE DEF Remembered, Look, World, Stores
<1>1. folder[f].stamp \in Nat /\ folder[f].stamp <= folder[f].version
  BY DEF Types, Stored
<1>2. Types'
  BY <1>1 DEF Types
<1>3. UnderWay' /\ LateWas'
  BY <1>1 DEF UnderWay, LateWas, Had
<1>4. (\A g \in Names : Stored(g)') /\ RecordedWasUploaded'
  BY DEF Stored, RecordedWasUploaded
<1> QED BY <1>2, <1>3, <1>4

\* What is read is no older than the stamp, and than everything stored so far.
LEMMA SealRemembered == ASSUME Remembered, Seal PROVE Remembered'
<1> USE DEF Remembered, Seal, World, Stores
<1>1. folder[cur].version \in Nat /\ newest[cur] <= folder[cur].version
  BY DEF Types, Stored
<1>2. Types'
  BY <1>1 DEF Types
<1>3. UnderWay' /\ LateWas'
  BY <1>1 DEF UnderWay, LateWas, Had
<1>4. (\A g \in Names : Stored(g)') /\ RecordedWasUploaded'
  BY DEF Stored, RecordedWasUploaded
<1> QED BY <1>2, <1>3, <1>4

\* What was stored is recorded.
LEMMA UploadRemembered == ASSUME Remembered, Upload PROVE Remembered'
<1> USE DEF Remembered
<1>0. /\ pc = "upload" /\ pc' = "scan" /\ newest' = [newest EXCEPT ![cur] = read]
      /\ seen' = [seen EXCEPT ![cur] = now]
      /\ pending' \in {pending, [pending EXCEPT ![cur] = read]}
      /\ UNCHANGED <<folder, todo, cur, now, read, disk, late>>
  BY DEF Upload, Recorded, World
<1>1. Types'
  BY <1>0 DEF Types
<1>2. /\ now <= read /\ newest[cur] <= read /\ read <= folder[cur].version
      /\ now \in Nat /\ read \in Nat /\ cur \in Names
      /\ folder[cur].version \in Nat
  BY <1>0 DEF UnderWay, Types
<1>3. ASSUME NEW f \in Names
      PROVE  /\ newest'[f] \in Nat /\ newest[f] <= newest'[f]
             /\ f = cur => newest'[f] <= folder[f].version
             /\ f # cur => newest'[f] = newest[f]
  BY <1>0, <1>2 DEF Types, Stored
<1>4. ASSUME NEW f \in Names PROVE Stored(f)'
  BY <1>0, <1>2, <1>3 DEF Stored, Types
<1>5. ASSUME NEW f \in Names PROVE seen'[f] <= newest'[f] /\ disk'.stamps[f] <= newest'[f]
  <2>1. /\ seen[f] <= newest[f] /\ disk.stamps[f] <= newest[f]
        /\ seen[f] \in Nat /\ disk.stamps[f] \in Nat /\ newest[f] \in Nat
    BY DEF RecordedWasUploaded, Types
  <2>2. disk'.stamps[f] <= newest'[f]
    BY <1>0, <1>3, <2>1
  <2> QED BY <1>0, <1>2, <1>3, <2>1, <2>2 DEF Types
<1>6. UnderWay' /\ LateWas'
  BY <1>0 DEF UnderWay, LateWas, Had
<1> QED BY <1>1, <1>4, <1>5, <1>6 DEF RecordedWasUploaded

\* The state file takes over what is remembered, before it is written out whole.
LEMMA SaveRemembered ==
  ASSUME Remembered, OpenState \/ WriteState
  PROVE  Remembered'
<1> USE DEF Remembered
<1>1. /\ disk' \in [stamps : [Names -> Nat], torn : BOOLEAN]
      /\ disk'.stamps \in {seen, disk.stamps}
      /\ UNCHANGED <<folder, cur, now, read, seen, newest, pending, late>>
      /\ pc' \in {"write state", "sync"} /\ todo' \subseteq Names
  <2>1. CASE OpenState
    <3>1. disk \in [stamps : [Names -> Nat], torn : BOOLEAN] /\ seen \in [Names -> Nat]
      BY DEF Types
    <3>2. disk' = [stamps |-> seen, torn |-> TRUE] \/ disk' = disk
      BY <2>1 DEF OpenState
    <3>3. /\ disk' \in [stamps : [Names -> Nat], torn : BOOLEAN]
          /\ disk'.stamps \in {seen, disk.stamps}
      <4>1. CASE disk' = [stamps |-> seen, torn |-> TRUE]
        BY <3>1, <4>1
      <4>2. CASE disk' = disk
        BY <3>1, <4>2
      <4> QED BY <3>2, <4>1, <4>2
    <3> QED BY <2>1, <3>3 DEF OpenState, World, Stores, Types, Listed
  <2>2. CASE WriteState
    <3>1. disk' \in {[stamps |-> disk.stamps, torn |-> FALSE], disk}
      BY <2>2 DEF WriteState, Types
    <3>2. disk \in [stamps : [Names -> Nat], torn : BOOLEAN]
      BY DEF Types
    <3> QED BY <2>2, <3>1, <3>2 DEF WriteState, World, Stores, Listed
  <2> QED BY <2>1, <2>2
<1>2. Types'
  BY <1>1 DEF Types
<1>3. (\A f \in Names : Stored(f)') /\ UnderWay' /\ LateWas'
  BY <1>1 DEF Stored, UnderWay, LateWas, Had
<1>4. RecordedWasUploaded'
  BY <1>1 DEF RecordedWasUploaded
<1> QED BY <1>2, <1>3, <1>4

\* Versions only grow, so what was no newer than a file stays so.
LEMMA EditRemembered == ASSUME Remembered, NEW f \in Names, Edit(f) PROVE Remembered'
<1> USE DEF Remembered, Edit, Stores, watcher
<1> DEFINE v == folder[f].version + 1
<1>1. v \in Nat /\ folder[f].version < v /\ folder[f].stamp <= v
  BY DEF Types, Stored
<1>2. /\ folder' \in [Names -> [version : Nat, stamp : Nat, there : BOOLEAN]]
      /\ folder'[f].version = v /\ folder'[f].stamp <= v
      /\ \A g \in Names \ {f} : folder'[g] = folder[g]
  <2>1. CASE folder' = [folder EXCEPT ![f] = [version |-> v, stamp |-> v, there |-> TRUE]]
    BY <1>1, <2>1 DEF Types
  <2>2. CASE folder' = [folder EXCEPT ![f].version = v]
    BY <1>1, <2>2 DEF Types
  <2> QED BY <2>1, <2>2
<1>3. Types'
  BY <1>2 DEF Types
<1>4. \A g \in Names : Stored(g)'
  BY <1>1, <1>2 DEF Stored, Types
<1>5. UnderWay'
  <2>1. folder[cur].version <= folder'[cur].version
    BY <1>1, <1>2 DEF Types
  <2>2. folder[cur].version \in Nat /\ folder'[cur].version \in Nat
    BY <1>2 DEF Types
  <2> QED BY <2>1, <2>2 DEF UnderWay, Types
<1>7. LateWas'
  BY <1>1, <1>2 DEF LateWas, Had, Types
<1>6. RecordedWasUploaded'
  BY DEF RecordedWasUploaded
<1> QED BY <1>3, <1>4, <1>5, <1>6, <1>7

LEMMA RemoveRemembered == ASSUME Remembered, NEW f \in Names, Remove(f) PROVE Remembered'
<1> USE DEF Remembered, Remove, Stores, watcher
<1>1. /\ folder' \in [Names -> [version : Nat, stamp : Nat, there : BOOLEAN]]
      /\ \A g \in Names : /\ folder'[g].version = folder[g].version
                          /\ folder'[g].stamp = folder[g].stamp
  BY DEF Types
<1>2. Types' /\ (\A g \in Names : Stored(g)')
  BY <1>1 DEF Types, Stored
<1>3. UnderWay' /\ LateWas' /\ RecordedWasUploaded'
  BY <1>1 DEF UnderWay, LateWas, Had, RecordedWasUploaded, Types
<1> QED BY <1>2, <1>3

LEMMA StepRemembered == Remembered /\ [Next]_vars => Remembered'
<1> SUFFICES ASSUME Remembered, [Next]_vars PROVE Remembered'
  OBVIOUS
<1> USE DEF World, Stores, watcher
<1>0. /\ pending \in [Names -> Nat] /\ late \subseteq Names \X Nat /\ todo \subseteq Names
      /\ \A f \in Names : pending[f] <= folder[f].version
  BY DEF Remembered, Types, Stored
<1>1. CASE Start
  BY <1>1, StartRemembered
<1>2. ASSUME NEW f \in Names, Look(f) PROVE Remembered'
  BY <1>2, LookRemembered
<1>3. ASSUME NEW f \in Names, Forward(f) PROVE Remembered'
  BY <1>0, <1>3, Frame DEF Forward, Visits
<1>17. ASSUME NEW f \in Names, ForwardFails(f) PROVE Remembered'
  BY <1>0, <1>17, Frame DEF ForwardFails, Visits
<1>18. ASSUME NEW f \in Names, NEW v \in Versions, LateStore(f, v) PROVE Remembered'
  BY <1>18, LateRemembered
<1>4. CASE Seal
  BY <1>4, SealRemembered
<1>5. CASE Upload
  BY <1>5, UploadRemembered
<1>6. CASE UploadFails
  BY <1>0, <1>6, CutOffKeeps DEF UploadFails
<1>7. CASE EndScan
  BY <1>0, <1>7, Frame DEF EndScan, Listed
<1>8. CASE OpenState \/ WriteState
  BY <1>8, SaveRemembered
<1>9. CASE EndSync
  BY <1>0, <1>9, Frame DEF EndSync
<1>10. CASE Interrupt
  BY <1>0, <1>10, Frame DEF Interrupt
<1>11. CASE Kill
  BY <1>11, CutOffKeeps DEF Kill
<1>12. CASE Outage
  BY <1>0, <1>12, Frame DEF Outage
<1>13. ASSUME NEW f \in Names, Edit(f) PROVE Remembered'
  BY <1>13, EditRemembered
<1>14. ASSUME NEW f \in Names, Remove(f) PROVE Remembered'
  BY <1>14, RemoveRemembered
<1>15. CASE UNCHANGED vars
  BY <1>0, <1>15, Frame DEF vars
<1> QED
  BY <1>1, <1>2, <1>3, <1>4, <1>5, <1>6, <1>7, <1>8, <1>9, <1>10, <1>11, <1>12, <1>13,
     <1>14, <1>15, <1>17, <1>18 DEF Next, Step

\* The invariant holds in every reachable state, for any folder and any failures.
THEOREM RememberedAlways == Spec => []Remembered
<1>1. Init => Remembered
  BY InitRemembered
<1>2. Remembered /\ [Next]_vars => Remembered'
  BY StepRemembered
<1> QED BY <1>1, <1>2, PTL DEF Spec

\* The watcher never takes a version for uploaded that was not: a stamp it remembers, in
\* memory or in its state file, is no newer than what was last stored (cmd_watch).
THEOREM NothingSkipped == Spec => []RecordedWasUploaded
<1>1. Remembered => RecordedWasUploaded
  BY DEF Remembered
<1> QED BY <1>1, RememberedAlways, PTL

-----------------------------------------------------------------------------
(* Types, and what a download returns *)

\* The newest version stored waits at the peers if anything does, else it is at the server:
\* unless an older one went, or will go, over it.
Latest(f) ==
  f \notin crossed => newest[f] = IF pending[f] # 0 THEN pending[f] ELSE server[f]

\* A file that is there has a version, and so has what is uploaded.  Latest relies on it:
\* it takes 0 for "nothing stored".
Real ==
  /\ \A f \in Names : folder[f].there => folder[f].version > 0
  /\ pc = "upload" => read > 0
  /\ pc = "sync" => todo \subseteq Listed

Sound == Remembered /\ TypeOK /\ Real /\ (\A f \in Names : Latest(f))

LEMMA InitSound == Init => Sound
<1> SUFFICES ASSUME Init PROVE Sound
  OBVIOUS
<1>1. AnyName \in Names
  BY WatcherAssumption DEF AnyName
<1>2. TypeOK
  BY <1>1, WatcherAssumption DEF Init, TypeOK, Nothing, File, Versions
<1>3. Real /\ (\A f \in Names : Latest(f))
  BY DEF Init, Real, Latest, Nothing
<1> QED BY <1>2, <1>3, InitRemembered DEF Sound

\* One hazard fewer.
LEMMA StrikesTypes == ASSUME TypeOK, Strikes PROVE left' \in 0 .. Budget
<1>1. left \in 0 .. Budget
  BY DEF TypeOK
<1> QED BY <1>1, WatcherAssumption DEF Strikes

LEMMA NothingTypes == Nothing \in [Names -> Versions]
BY WatcherAssumption DEF Nothing, Versions

LEMMA StoreTypes ==
  ASSUME TypeOK
  PROVE  /\ seen \in [Names -> Versions] /\ server \in [Names -> Versions]
         /\ pending \in [Names -> Versions] /\ newest \in [Names -> Versions]
         /\ disk.stamps \in [Names -> Versions]
BY DEF TypeOK

\* An edit makes the file's next version, and the file is there.
LEMMA EditMakes ==
  ASSUME TypeOK, NEW f \in Names, Edit(f)
  PROVE  /\ folder' \in [Names -> File]
         /\ folder'[f].version > 0
         /\ \A g \in Names \ {f} : folder'[g] = folder[g]
<1>1. folder \in [Names -> File] /\ folder[f] \in File
  BY DEF TypeOK
<1> DEFINE v == folder[f].version + 1
<1>2. v \in Versions /\ v > 0
  BY <1>1, WatcherAssumption DEF Edit, File, Versions
<1>3. CASE folder' = [folder EXCEPT ![f] = [version |-> v, stamp |-> v, there |-> TRUE]]
  <2>1. [version |-> v, stamp |-> v, there |-> TRUE] \in File
    BY <1>2 DEF File
  <2> HIDE DEF v
  <2> QED BY <1>1, <1>2, <1>3, <2>1
<1>4. CASE folder' = [folder EXCEPT ![f].version = v]
  <2> HIDE DEF v
  <2>1. [folder[f] EXCEPT !.version = v] \in File
    BY <1>1, <1>2 DEF File
  <2>2. [folder[f] EXCEPT !.version = v].version = v
    BY <1>1 DEF File
  <2> QED BY <1>1, <1>2, <1>4, <2>1, <2>2
<1> QED BY <1>3, <1>4 DEF Edit

\* What a body that is cut off leaves behind.
LEMMA CutOffTypes ==
  ASSUME TypeOK, CutOff
  PROVE  /\ {server', pending', newest'} \subseteq [Names -> Versions]
         /\ late' \subseteq Names \X Versions /\ crossed' \subseteq Names
<1>1. Sent \subseteq Names \X Versions
  <2>1. /\ \A f \in Names : <<f, pending[f]>> \in Names \X Versions
        /\ <<cur, read>> \in Names \X Versions
        /\ todo \subseteq Names
    BY StoreTypes DEF TypeOK
  <2> QED BY <2>1 DEF Sent
<1>2. 0 \in Versions
  BY WatcherAssumption DEF Versions
<1>3. late' \subseteq Names \X Versions
  <2>1. \A b \in late' : b \in late \/ b \in Sent
    BY DEF CutOff, Stores
  <2> QED BY <1>1, <2>1 DEF TypeOK
<1>4. newest' = newest /\ server' = server /\ crossed' \subseteq crossed \cup {cur}
  BY DEF CutOff, Stores
<1>5. pending' = pending \/ pending' = [pending EXCEPT ![cur] = 0]
  BY DEF CutOff, Stores
<1>6. pending' \in [Names -> Versions]
  BY <1>2, <1>5, StoreTypes
<1> QED BY <1>3, <1>4, <1>6, StoreTypes DEF TypeOK

LEMMA TypeStep == Remembered /\ TypeOK /\ [Next]_vars => TypeOK'
<1> SUFFICES ASSUME Remembered, TypeOK, [Next]_vars PROVE TypeOK'
  OBVIOUS
<1> USE DEF World, Stores, watcher
<1>0. disk \in [stamps : [Names -> Nat], torn : BOOLEAN]
  BY DEF Remembered, Types
<1>1. CASE Start
  <2>1. PICK kept \in SUBSET Names :
          seen' = [f \in Names |-> IF f \in kept THEN disk.stamps[f] ELSE 0]
    BY <1>1 DEF Start
  <2>2. seen' \in [Names -> Versions]
    BY <2>1, StoreTypes, WatcherAssumption DEF Versions
  <2> QED BY <1>1, <2>2 DEF Start, TypeOK
<1>2. ASSUME NEW f \in Names, Look(f) PROVE TypeOK'
  BY <1>2 DEF Look, TypeOK, File
<1>3. ASSUME NEW f \in Names, Forward(f) PROVE TypeOK'
  BY <1>3, WatcherAssumption DEF Forward, Visits, TypeOK, Versions
<1>17. ASSUME NEW f \in Names, ForwardFails(f) PROVE TypeOK'
  <2>1. left' \in 0 .. Budget
    BY <1>17, StrikesTypes DEF ForwardFails, TypeOK
  <2>2. pending[f] \in Versions
    BY StoreTypes
  <2>3. late' \subseteq Names \X Versions
    <3>1. \A b \in late' : b \in late \/ b = <<f, pending[f]>>
      BY <1>17 DEF ForwardFails
    <3>2. late \subseteq Names \X Versions /\ <<f, pending[f]>> \in Names \X Versions
      BY <2>2 DEF TypeOK
    <3> QED BY <3>1, <3>2
  <2> QED BY <1>17, <2>1, <2>3 DEF ForwardFails, Visits, TypeOK
<1>18. ASSUME NEW f \in Names, NEW v \in Versions, LateStore(f, v) PROVE TypeOK'
  <2>1. newest' \in [Names -> Versions] /\ server' \in [Names -> Versions]
    <3>1. Newer(newest[f], v) \in Versions
      BY StoreTypes DEF Newer
    <3> QED BY <1>18, <3>1, StoreTypes DEF LateStore
  <2>2. crossed' \subseteq Names /\ late' \subseteq Names \X Versions
    <3>1. late' \subseteq late /\ crossed' \subseteq crossed \cup {f}
      BY <1>18 DEF LateStore
    <3>2. late \subseteq Names \X Versions /\ crossed \subseteq Names
      BY DEF TypeOK
    <3> QED BY ONLY <3>1, <3>2, f \in Names
  <2>3. UNCHANGED <<folder, watcher, disk, pending, left>> /\ hidden' = hidden
    BY <1>18 DEF LateStore
  <2> QED BY <2>1, <2>2, <2>3 DEF TypeOK
<1>4. CASE Seal
  BY <1>4 DEF Seal, TypeOK, File
<1>5. CASE Upload
  <2>1. seen' \in [Names -> Versions]
    BY <1>5 DEF Upload, Recorded, TypeOK
  <2>2. {server', pending', newest'} \subseteq [Names -> Versions] /\ crossed' \subseteq Names
    BY <1>5 DEF Upload, TypeOK
  <2> QED BY <1>5, <2>1, <2>2 DEF Upload, TypeOK
<1>6. CASE UploadFails
  BY <1>6, CutOffTypes, StrikesTypes DEF UploadFails, TypeOK
<1>7. CASE EndScan
  BY <1>7 DEF EndScan, Listed, TypeOK
<1>8. CASE OpenState
  <2>1. left' \in 0 .. Budget
    BY <1>8, StrikesTypes DEF OpenState, TypeOK
  <2>2. \/ disk' = [stamps |-> seen, torn |-> TRUE]
        \/ disk' = disk /\ pc' = "sync"
    BY <1>8 DEF OpenState
  <2>3. disk'.stamps \in {seen, disk.stamps} /\ (pc' = "write state" => disk'.torn)
    <3>1. CASE disk' = [stamps |-> seen, torn |-> TRUE]
      BY <3>1
    <3>2. CASE disk' = disk /\ pc' = "sync"
      BY <3>2
    <3> QED BY <2>2, <3>1, <3>2
  <2> QED BY <1>8, <2>1, <2>2, <2>3 DEF OpenState, Listed, TypeOK
<1>9. CASE WriteState
  <2>1. disk'.stamps = disk.stamps
    BY <1>0, <1>9 DEF WriteState
  <2> QED BY <1>9, <2>1, StrikesTypes DEF WriteState, Listed, TypeOK
<1>10. CASE EndSync
  <2>1. seen' \in [Names -> Versions]
    BY <1>10, StoreTypes, NothingTypes DEF EndSync
  <2> QED BY <1>10, <2>1 DEF EndSync, TypeOK
<1>11. CASE Interrupt
  BY <1>11, StrikesTypes DEF Interrupt, TypeOK
<1>12. CASE Kill
  BY <1>12, CutOffTypes, StrikesTypes, NothingTypes DEF Kill, TypeOK
<1>13. CASE Outage
  BY <1>13, StrikesTypes DEF Outage, TypeOK
<1>14. ASSUME NEW f \in Names, Edit(f) PROVE TypeOK'
  <2>1. folder' \in [Names -> File]
    BY <1>14, EditMakes
  <2>2. left' \in 0 .. Budget /\ hidden' \subseteq Names
    BY <1>14, StrikesTypes DEF Edit, TypeOK
  <2> QED BY <1>14, <2>1, <2>2 DEF Edit, TypeOK
<1>15. ASSUME NEW f \in Names, Remove(f) PROVE TypeOK'
  BY <1>15, StrikesTypes DEF Remove, TypeOK, File
<1>16. CASE UNCHANGED vars
  BY <1>16 DEF vars, TypeOK
<1> QED
  BY <1>1, <1>2, <1>3, <1>4, <1>5, <1>6, <1>7, <1>8, <1>9, <1>10, <1>11, <1>12, <1>13,
     <1>14, <1>15, <1>16, <1>17, <1>18 DEF Next, Step

\* An upload leaves the name crossed, or is from now on the newest version.
LEMMA UploadLatest ==
  ASSUME Sound, Upload, NEW f \in Names PROVE Latest(f)'
<1>0. /\ pc = "upload" /\ cur \in Names /\ read \in Nat /\ read > 0 /\ newest[cur] <= read
      /\ pending[cur] \in Nat /\ newest[cur] \in Nat /\ pending[cur] <= newest[cur]
      /\ {server, pending, newest} \subseteq [Names -> Versions] /\ Latest(f)
      /\ newest' = [newest EXCEPT ![cur] = read]
  BY DEF Upload, Sound, Remembered, Types, UnderWay, Stored, Real, TypeOK
<1>1. CASE f # cur
  BY <1>0, <1>1 DEF Upload, Latest
<1>2. CASE f = cur /\ online
  BY <1>0, <1>2 DEF Upload, Latest, Overtaken
<1>3. CASE f = cur /\ ~online
  BY <1>0, <1>3 DEF Upload, Latest
<1> QED BY <1>1, <1>2, <1>3

\* A body stored late is the newest, or no newer than what is pending, or crosses.
LEMMA LateLatest ==
  ASSUME Sound, NEW g \in Names, NEW v \in Versions, LateStore(g, v), NEW f \in Names
  PROVE  Latest(f)'
<1>0. /\ v \in Nat /\ pending[g] \in Nat /\ newest[g] \in Nat /\ Latest(f)
      /\ {server, pending, newest} \subseteq [Names -> Versions]
  <2>1. v \in Nat
    BY DEF Versions
  <2>2. pending[g] \in Nat /\ newest[g] \in Nat
    BY DEF Sound, Remembered, Types
  <2> QED BY <2>1, <2>2, StoreTypes DEF Sound
<1>1. CASE f # g
  BY <1>0, <1>1 DEF LateStore, Latest
<1>2. ASSUME f = g, f \notin crossed' PROVE Latest(f)'
  <2>1. /\ f \notin crossed /\ ~Overtaken(f, v) /\ pending' = pending
        /\ server'[f] = v /\ newest'[f] = Newer(newest[f], v)
    BY <1>0, <1>2 DEF LateStore
  <2>2. newest[f] = IF pending[f] # 0 THEN pending[f] ELSE server[f]
    BY <1>0, <2>1 DEF Latest
  <2>3. CASE pending[f] # 0
    <3>1. v <= pending[f] /\ newest[f] = pending[f]
      BY <1>0, <1>2, <2>1, <2>2, <2>3 DEF Overtaken
    <3> QED BY <1>0, <1>2, <2>1, <2>3, <3>1 DEF Latest, Newer
  <2>4. CASE pending[f] = 0
    <3>1. newest[f] <= v
      BY <1>0, <1>2, <2>1, <2>4 DEF Overtaken
    <3> QED BY <1>0, <1>2, <2>1, <2>4, <3>1 DEF Latest, Newer
  <2> QED BY <2>3, <2>4
<1> QED BY <1>1, <1>2 DEF Latest

\* A record torn by an upload that failed leaves the name crossed.
LEMMA CutOffLatest == ASSUME Sound, CutOff, NEW f \in Names PROVE Latest(f)'
BY DEF Sound, TypeOK, CutOff, Stores, Latest

LEMMA LatestStep == Sound /\ [Next]_vars => \A f \in Names : Latest(f)'
<1> SUFFICES ASSUME Sound, [Next]_vars, NEW f \in Names PROVE Latest(f)'
  OBVIOUS
<1>1. CASE UNCHANGED <<server, pending, newest, crossed>>
  BY <1>1 DEF Sound, Latest
<1>2. CASE Upload
  BY <1>2, UploadLatest
<1>3. CASE UploadFails \/ Kill
  BY <1>3, CutOffLatest DEF UploadFails, Kill
<1>4. ASSUME NEW g \in Names, Forward(g) PROVE Latest(f)'
  <2>1. pending[g] # 0 /\ {server, pending} \subseteq [Names -> Versions] /\ Latest(f)
    BY <1>4 DEF Sound, Real, Forward, Visits, Listed, TypeOK
  <2> QED BY <1>4, <2>1 DEF Forward, Latest
<1>5. ASSUME NEW g \in Names, NEW v \in Versions, LateStore(g, v) PROVE Latest(f)'
  BY <1>5, LateLatest
<1> QED
  BY <1>1, <1>2, <1>3, <1>4, <1>5 DEF Next, Step, Start, Look, Seal, ForwardFails, EndScan,
     OpenState, WriteState, EndSync, Interrupt, Outage, Edit, Remove, vars, Stores

LEMMA RealStep == Sound /\ [Next]_vars => Real'
<1> SUFFICES ASSUME Sound, [Next]_vars PROVE Real'
  OBVIOUS
<1> USE DEF World, watcher, Sound, Real, Listed
<1>1. CASE UNCHANGED <<folder, read>> /\ pc' \notin {"upload", "sync"}
  BY <1>1
<1>2. CASE UNCHANGED <<folder, read, pc, todo, pending>>
  BY <1>2
<1>3. CASE Seal
  BY <1>3 DEF Seal, TypeOK
<1>4. ASSUME NEW f \in Names, Edit(f) PROVE Real'
  <2>1. /\ pc' = "upload" => read' > 0
        /\ pc' = "sync" => todo' \subseteq Listed'
    BY <1>4 DEF Edit, Stores
  <2> QED BY <1>4, <2>1, EditMakes
<1>5. ASSUME NEW f \in Names, Remove(f) PROVE Real'
  BY <1>5 DEF Remove, Stores, TypeOK, File
<1>6. ASSUME NEW f \in Names, Look(f) PROVE Real'
  BY <1>6 DEF Look
<1>7. CASE EndScan \/ OpenState \/ WriteState
  BY <1>7 DEF EndScan, OpenState, WriteState, Stores
<1>8. ASSUME NEW f \in Names, Forward(f) \/ ForwardFails(f) PROVE Real'
  BY <1>8 DEF Forward, ForwardFails, Visits, TypeOK
<1> QED
  BY <1>1, <1>2, <1>3, <1>4, <1>5, <1>6, <1>7, <1>8 DEF Next, Step, Start, Upload, UploadFails,
     EndSync, Interrupt, Kill, Outage, LateStore, Stores, vars

\* The whole invariant holds in every reachable state.
THEOREM SoundAlways == Spec => []Sound
<1>1. Init => Sound
  BY InitSound
<1>2. Sound /\ [Next]_vars => Sound'
  BY StepRemembered, TypeStep, LatestStep, RealStep DEF Sound
<1> QED BY <1>1, <1>2, PTL DEF Spec

\* Every variable of the watch loop and its surroundings stays within its range.
THEOREM TypeCorrect == Spec => []TypeOK
<1>1. Sound => TypeOK
  BY DEF Sound
<1> QED BY <1>1, SoundAlways, PTL

\* A download returns the newest version ever stored, at the server or at the peers: until
\* the next upload, unless an older one was forwarded or stored late over it, or a failed
\* upload tore its record (cmd_download, cmd_watch, sync_one).
THEOREM DownloadsAreNewest == Spec => []DownloadIsNewest
<1>1. Sound => DownloadIsNewest
  BY DEF Sound, Latest, DownloadIsNewest, Downloaded
<1> QED BY <1>1, SoundAlways, PTL
=============================================================================

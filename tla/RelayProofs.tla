---------------------------- MODULE RelayProofs ----------------------------
(***************************************************************************)
(* What holds of Relay for every set of names, contents and processes and  *)
(* every shard layout: its types, that shards are released only for a      *)
(* content the server has held or has taken another for, which takes a     *)
(* lost tag or a full disk, that the server never holds a stream spoilt by *)
(* a corrupted shard or filed under another name, what a pending record is *)
(* worth until it goes away, and what an acknowledged upload can count on. *)
(***************************************************************************)
EXTENDS Relay, FiniteSetTheorems, TLAPS

-----------------------------------------------------------------------------
(* Types *)

\* A worker between commands holds a well-formed, empty job.
LEMMA IdleIsAJob == Idle \in Jobs
<1>1. (CHOOSE n \in Names : TRUE) \in Names
  BY NamesAssumption
<1> QED
  BY <1>1, SizesAssumption DEF Idle, Jobs, Labels, Bodies

\* So does one whose request is never answered.
LEMMA StuckIsAJob == Stuck \in Jobs /\ Stuck.pc = "hung"
BY IdleIsAJob DEF Stuck, Jobs, Labels

\* The changes a step makes to the fields of one job keep it a job.
LEMMA JobEnds ==
  ASSUME job \in [Workers -> Jobs], NEW w \in Workers
  PROVE  [job EXCEPT ![w] = Idle] \in [Workers -> Jobs]
BY IdleIsAJob

\* Going on to the next request of a command keeps the job well-formed.
LEMMA JobTurns ==
  ASSUME job \in [Workers -> Jobs], NEW w \in Workers, NEW label \in Labels
  PROVE  [job EXCEPT ![w].pc = label] \in [Workers -> Jobs]
BY DEF Jobs

\* A loop over shards only ever shortens its list of shards to visit.
LEMMA JobVisits ==
  ASSUME job \in [Workers -> Jobs], NEW w \in Workers, NEW some \in SUBSET Indices
  PROVE  [job EXCEPT ![w].todo = some] \in [Workers -> Jobs]
BY DEF Jobs

\* Entering a loop over shards, with all of them still to visit.
LEMMA JobSetsOut ==
  ASSUME job \in [Workers -> Jobs], NEW w \in Workers,
         NEW label \in Labels, NEW some \in SUBSET Indices
  PROVE  [job EXCEPT ![w].pc = label, ![w].todo = some] \in [Workers -> Jobs]
BY ZenonT(60) DEF Jobs

\* A shard a peer accepted is noted among the references for the record.
LEMMA JobPlaces ==
  ASSUME job \in [Workers -> Jobs], NEW w \in Workers,
         NEW some \in SUBSET Indices, NEW i \in Indices
  PROVE  [job EXCEPT ![w].todo = some, ![w].refs = @ \cup {i}] \in [Workers -> Jobs]
BY ZenonT(60) DEF Jobs

\* A shard that came back is noted together with the state it came back in.
LEMMA JobFetches ==
  ASSUME job \in [Workers -> Jobs], NEW w \in Workers,
         NEW some \in SUBSET Indices, NEW i \in Indices, NEW state \in ChunkState
  PROVE  [job EXCEPT ![w].todo = some, ![w].usable = @ \cup {<<i, state>>}]
           \in [Workers -> Jobs]
<1>1. job[w].usable \cup {<<i, state>>} \in SUBSET (Indices \X ChunkState)
  BY DEF Jobs
<1>2. ASSUME NEW pieces \in SUBSET (Indices \X ChunkState)
      PROVE  [job EXCEPT ![w].todo = some, ![w].usable = pieces]
               \in [Workers -> Jobs]
  BY ZenonT(60) DEF Jobs
<1> QED
  BY <1>1, <1>2

\* Putting the usable shards together ends the loop that fetched them.
LEMMA JobRebuilds ==
  ASSUME job \in [Workers -> Jobs], NEW w \in Workers,
         NEW label \in Labels, NEW kind \in Bodies
  PROVE  [job EXCEPT ![w].pc = label, ![w].usable = {}, ![w].body = kind]
           \in [Workers -> Jobs]
<1>1. [job EXCEPT ![w].pc = label, ![w].usable = {}] \in [Workers -> Jobs]
  BY ZenonT(60) DEF Jobs
<1>2. ASSUME NEW all \in [Workers -> Jobs]
      PROVE  [all EXCEPT ![w].body = kind] \in [Workers -> Jobs]
  BY ZenonT(60) DEF Jobs
<1> QED
  BY <1>1, <1>2

\* A hazard that strikes leaves every count of hazards a natural number.
LEMMA SpendTypes ==
  ASSUME TypeOK, NEW hazard \in Hazards, Spend(hazard)
  PROVE  left' \in [Hazards -> Nat]
BY DEF TypeOK, Spend

\* A stream that was sealed has a name and a tag.
LEMMA SealedTypes ==
  ASSUME TypeOK, NEW s \in 1 .. Len(sealed)
  PROVE  sealed[s] \in Versions /\ sealed[s].name \in Names /\ sealed[s].tag \in Tags
<1>1. sealed \in Seq(Versions)
  BY DEF TypeOK
<1>2. sealed[s] \in Versions
  BY <1>1
<1> QED
  BY <1>2 DEF Versions

\* What Store leaves on the server, and what it adds to the history.
LEMMA StoreTypes ==
  ASSUME TypeOK, NEW request \in Requests, request.seal <= Len(sealed), Store(request)
  PROVE  /\ server' \in [Names -> Streams] /\ held' \subseteq Seals
         /\ mistaken' \subseteq Versions /\ left' \in [Hazards -> Nat]
<1>1. request.seal \in 1 .. Len(sealed) /\ request.name \in Names
  BY SizesAssumption DEF Requests, Seals, TypeOK
<1>2. PICK t \in {sealed[request.seal].tag, server[request.name].tag, NoTag} :
        /\ (t = sealed[request.seal].tag /\ UNCHANGED left) \/ Spend("untagged")
        /\ server' = [server EXCEPT ![request.name] =
                        [seal |-> request.seal, body |-> request.body, tag |-> t]]
        /\ held' \subseteq held \cup 1 .. Len(sealed)
        /\ mistaken' \subseteq mistaken \cup Versions
  BY DEF Store
<1>3. t \in Tags \cup {NoTag}
  BY <1>1, SealedTypes DEF TypeOK, Streams
<1>4. [seal |-> request.seal, body |-> request.body, tag |-> t] \in Streams
  BY <1>3, SizesAssumption DEF Requests, Streams, Seals
<1>5. server' \in [Names -> Streams]
  BY <1>2, <1>4 DEF TypeOK
<1>6. held' \subseteq Seals
  BY <1>2, SizesAssumption DEF TypeOK, Seals
<1>7. left' \in [Hazards -> Nat]
  BY <1>2, SpendTypes DEF TypeOK, Hazards
<1> QED
  BY <1>2, <1>5, <1>6, <1>7 DEF TypeOK

\* What a worker sends is a request, once it has something to send.
LEMMA SentTypes ==
  ASSUME TypeOK, NEW w \in Workers, job[w].seal # 0
  PROVE  Sent(w) \in Requests
BY SizesAssumption DEF TypeOK, Sent, Requests, Jobs, Seals

\* A fresh workspace and an empty server have the types declared for them.
THEOREM TypeInit == Init => TypeOK
<1> SUFFICES ASSUME Init PROVE TypeOK
  OBVIOUS
<1>1. job \in [Workers -> Jobs]
  BY IdleIsAJob DEF Init
<1>2. server \in [Names -> Streams] /\ manifest \in [Names -> Records]
  BY SizesAssumption DEF Init, NoFile, NoRecord, Streams, Records, Bodies
<1>3. sealed \in Seq(Versions) /\ Len(sealed) \in 0 .. MaxSeals
  BY SizesAssumption DEF Init
<1> QED
  BY <1>1, <1>2, <1>3, SizesAssumption DEF Init, TypeOK, ChunkState

\* A worker in the middle of a command has a stream to send.
LEMMA BusySends ==
  ASSUME Safe, NEW w \in Workers, job[w].pc \notin {"idle", "hung"}
  PROVE  /\ job[w].seal # 0 /\ job[w].seal \in 1 .. Len(sealed)
         /\ Sent(w) \in Requests /\ Sent(w).seal <= Len(sealed)
<1>1. job[w].seal # 0 /\ job[w].seal \in 1 .. Len(sealed)
  BY DEF Safe, JobOK
<1>2. Sent(w) \in Requests
  BY <1>1, SentTypes DEF Safe
<1>3. Sent(w).seal = job[w].seal
  BY DEF Sent
<1> QED
  BY <1>1, <1>2, <1>3 DEF Safe, TypeOK

\* No request, loop turn or failure takes a variable out of its type.
LEMMA TypeStep == Safe /\ [Next]_vars => TypeOK'
<1> SUFFICES ASSUME Safe, [Next]_vars PROVE TypeOK'
  OBVIOUS
<1> TypeOK
  BY DEF Safe
<1> USE DEF Workers, history
<1>1. ASSUME NEW w \in Uploaders, NEW n \in Names, NEW t \in Tags,
             SealUpload(w, n, t)
      PROVE  TypeOK'
  <2>1. [Idle EXCEPT !.pc = "probe", !.name = n, !.seal = Len(sealed) + 1] \in Jobs
    <3>1. Len(sealed) + 1 \in 0 .. MaxSeals
      BY <1>1, SizesAssumption DEF SealUpload, TypeOK
    <3> QED
      BY <3>1, IdleIsAJob DEF Jobs, Labels
  <2>2. job' \in [Workers -> Jobs]
    BY <1>1, <2>1 DEF SealUpload, TypeOK
  <2>3. sealed' \in Seq(Versions) /\ Len(sealed') \in 0 .. MaxSeals
    BY <1>1, SizesAssumption DEF SealUpload, TypeOK, Versions
  <2>4. held' \subseteq Seals
    BY <1>1, SizesAssumption DEF SealUpload, TypeOK, Seals
  <2> QED
    BY <1>1, <2>2, <2>3, <2>4 DEF SealUpload, TypeOK
<1>2. ASSUME NEW w \in Uploaders, NEW n \in Names, Delete(w, n) PROVE TypeOK'
  <2>1. server' \in [Names -> Streams]
    <3>1. NoFile \in Streams /\ [NoFile EXCEPT !.tag = server[n].tag] \in Streams
      BY SizesAssumption DEF TypeOK, NoFile, Streams, Bodies
    <3> QED
      BY <1>2, <3>1 DEF Delete, TypeOK
  <2>2. left' \in [Hazards -> Nat]
    BY <1>2, SpendTypes DEF Delete, Hazards
  <2> QED
    BY <1>2, <2>1, <2>2 DEF Delete, TypeOK
<1>3. ASSUME NEW w \in Syncers, NEW n \in Names, BeginSync(w, n) PROVE TypeOK'
  <2>1. [Idle EXCEPT !.pc = "fetch", !.name = n, !.seal = manifest[n].seal,
                     !.refs = manifest[n].refs, !.todo = manifest[n].refs] \in Jobs
    BY IdleIsAJob DEF TypeOK, Records, Jobs, Labels
  <2> QED
    BY <1>3, <2>1 DEF BeginSync, TypeOK
<1>4. ASSUME NEW w \in Workers, Crash(w) PROVE TypeOK'
  <2>1. job' \in [Workers -> Jobs]
    BY <1>4, JobEnds DEF Crash, End, TypeOK
  <2>2. left' \in [Hazards -> Nat]
    BY <1>4, SpendTypes DEF Crash, Hazards
  <2>3. late' \subseteq Requests
    BY <1>4, BusySends DEF Crash, AbandonPut, TypeOK
  <2> QED
    BY <1>4, <2>1, <2>2, <2>3 DEF Crash, TypeOK
<1>5. ASSUME NEW w \in Workers, ProbeAnswered(w) PROVE TypeOK'
  <2>1. job' \in [Workers -> Jobs]
    BY <1>5, JobTurns DEF ProbeAnswered, TypeOK, Labels
  <2> QED
    BY <1>5, <2>1 DEF ProbeAnswered, TypeOK
<1>6. ASSUME NEW w \in Workers, ProbeUnanswered(w) PROVE TypeOK'
  <2>1. job' \in [Workers -> Jobs]
    <3>1. [job EXCEPT ![w].pc = "place", ![w].todo = EveryShard] \in [Workers -> Jobs]
      BY JobSetsOut DEF EveryShard, TypeOK, Labels
    <3> QED
      BY <1>6, <3>1, JobEnds DEF ProbeUnanswered, End, TypeOK
  <2>2. left' \in [Hazards -> Nat]
    BY <1>6, SpendTypes DEF ProbeUnanswered, TypeOK, Hazards
  <2> QED
    BY <1>6, <2>1, <2>2 DEF ProbeUnanswered, TypeOK
<1>7. ASSUME NEW w \in Workers, UploadStat(w) PROVE TypeOK'
  <2>1. job' \in [Workers -> Jobs]
    <3>1. [job EXCEPT ![w].pc = "put"] \in [Workers -> Jobs]
      BY JobTurns DEF TypeOK, Labels
    <3> QED
      BY <1>7, <3>1, JobEnds DEF UploadStat, End, TypeOK
  <2>2. left' \in [Hazards -> Nat]
    BY <1>7, SpendTypes DEF UploadStat, TypeOK, Hazards
  <2>3. acked' \subseteq Names
    BY <1>7 DEF UploadStat, TypeOK, Jobs
  <2> QED
    BY <1>7, <2>1, <2>2, <2>3 DEF UploadStat, TypeOK
<1>8. ASSUME NEW w \in Workers, UploadPut(w) PROVE TypeOK'
  <2>1. job' \in [Workers -> Jobs]
    BY <1>8, JobEnds DEF UploadPut, End, TypeOK
  <2>2. /\ server' \in [Names -> Streams] /\ held' \subseteq Seals
        /\ mistaken' \subseteq Versions /\ left' \in [Hazards -> Nat]
    BY <1>8, BusySends, StoreTypes DEF UploadPut
  <2>3. acked' \subseteq Names
    BY <1>8 DEF UploadPut, TypeOK, Jobs
  <2> QED
    BY <1>8, <2>1, <2>2, <2>3 DEF UploadPut, TypeOK
<1>9. ASSUME NEW w \in Workers, PutFails(w) PROVE TypeOK'
  <2>1. job' \in [Workers -> Jobs]
    BY <1>9, JobEnds DEF PutFails, End, TypeOK
  <2>2. left' \in [Hazards -> Nat]
    BY <1>9, SpendTypes DEF PutFails, Hazards
  <2>3. late' \subseteq Requests
    BY <1>9, BusySends DEF PutFails, AbandonPut, TypeOK
  <2> QED
    BY <1>9, <2>1, <2>2, <2>3 DEF PutFails, TypeOK
<1>10. ASSUME NEW request \in late, LateStore(request) PROVE TypeOK'
  <2>1. /\ server' \in [Names -> Streams] /\ held' \subseteq Seals
        /\ mistaken' \subseteq Versions /\ left' \in [Hazards -> Nat]
    BY <1>10, StoreTypes DEF LateStore, TypeOK, Safe, LateOK
  <2> QED
    BY <1>10, <2>1 DEF LateStore, TypeOK
<1>11. ASSUME NEW w \in Workers, Place(w) PROVE TypeOK'
  <2>1. PICK i \in Indices :
          LET c == <<job[w].seal, i>>
              rest == job[w].todo \ {i}
          IN \/ /\ chunk' = [chunk EXCEPT ![c] = "intact"]
                /\ job' = [job EXCEPT ![w].todo = rest, ![w].refs = @ \cup {i}]
                /\ UNCHANGED left
             \/ /\ Spend("fault")
                /\ chunk' \in {chunk, [chunk EXCEPT ![c] = "intact"]}
                /\ job' = [job EXCEPT ![w].todo = rest]
    BY <1>11 DEF Place
  <2>2. job[w].todo \ {i} \in SUBSET Indices
    BY DEF TypeOK, Jobs
  <2>3. job' \in [Workers -> Jobs]
    <3>1. [job EXCEPT ![w].todo = job[w].todo \ {i}] \in [Workers -> Jobs]
      BY <2>2, JobVisits DEF TypeOK
    <3>2. [job EXCEPT ![w].todo = job[w].todo \ {i}, ![w].refs = @ \cup {i}]
            \in [Workers -> Jobs]
      BY <2>2, JobPlaces DEF TypeOK
    <3> QED
      BY <2>1, <3>1, <3>2
  <2>4. chunk' \in [Seals \X Indices -> ChunkState]
    BY <2>1 DEF TypeOK, ChunkState
  <2>5. left' \in [Hazards -> Nat]
    BY <2>1, SpendTypes DEF TypeOK, Hazards
  <2> QED
    BY <1>11, <2>3, <2>4, <2>5 DEF Place, TypeOK
<1>12. ASSUME NEW w \in Workers, TooFewPlaced(w) PROVE TypeOK'
  <2>1. job' \in [Workers -> Jobs]
    BY <1>12, JobEnds DEF TooFewPlaced, End, TypeOK
  <2> QED
    BY <1>12, <2>1 DEF TooFewPlaced, TypeOK
<1>13. ASSUME NEW w \in Workers, RecordPending(w) PROVE TypeOK'
  <2>1. job' \in [Workers -> Jobs]
    BY <1>13, JobEnds DEF RecordPending, End, TypeOK
  <2>2. [state |-> "full", seal |-> job[w].seal, refs |-> job[w].refs] \in Records
    BY DEF TypeOK, Jobs, Records
  <2>3. acked' \subseteq Names
    BY <1>13 DEF RecordPending, TypeOK, Jobs
  <2> QED
    BY <1>13, <2>1, <2>2, <2>3 DEF RecordPending, TypeOK
<1>14. ASSUME NEW w \in Workers, TearRecord(w) PROVE TypeOK'
  <2>1. job' \in [Workers -> Jobs]
    BY <1>14, JobEnds DEF TearRecord, End, TypeOK
  <2>2. [state |-> "torn", seal |-> 0, refs |-> {}] \in Records
    BY SizesAssumption DEF Records
  <2>3. left' \in [Hazards -> Nat]
    BY <1>14, SpendTypes DEF TearRecord, Hazards
  <2> QED
    BY <1>14, <2>1, <2>2, <2>3 DEF TearRecord, TypeOK
<1>15. ASSUME NEW w \in Workers, Fetch(w) PROVE TypeOK'
  <2>1. PICK i \in Indices :
          LET state == chunk[<<job[w].seal, i>>]
              rest == job[w].todo \ {i}
          IN \/ /\ Verified(state)
                /\ job' = [job EXCEPT ![w].todo = rest,
                                      ![w].usable = @ \cup {<<i, state>>}]
                /\ UNCHANGED left
             \/ /\ job' = [job EXCEPT ![w].todo = rest]
                /\ UNCHANGED left
             \/ /\ Spend("fault")
                /\ job' = [job EXCEPT ![w].todo = rest]
    BY <1>15 DEF Fetch
  <2>2. job[w].todo \ {i} \in SUBSET Indices
    BY DEF TypeOK, Jobs
  <2>3. Verified(chunk[<<job[w].seal, i>>]) => chunk[<<job[w].seal, i>>] \in ChunkState
    BY DEF Verified, ChunkState
  <2>4. job' \in [Workers -> Jobs]
    <3>1. [job EXCEPT ![w].todo = job[w].todo \ {i}] \in [Workers -> Jobs]
      BY <2>2, JobVisits DEF TypeOK
    <3>2. ASSUME NEW state \in ChunkState
          PROVE  [job EXCEPT ![w].todo = job[w].todo \ {i},
                             ![w].usable = @ \cup {<<i, state>>}] \in [Workers -> Jobs]
      BY <2>2, JobFetches DEF TypeOK
    <3> QED
      BY <2>1, <2>3, <3>1, <3>2
  <2>5. left' \in [Hazards -> Nat]
    BY <2>1, SpendTypes DEF TypeOK, Hazards
  <2> QED
    BY <1>15, <2>4, <2>5 DEF Fetch, TypeOK
<1>16. ASSUME NEW w \in Workers, Rebuild(w) PROVE TypeOK'
  <2>1. ASSUME NEW kind \in Bodies
        PROVE  [job EXCEPT ![w].pc = "check", ![w].usable = {}, ![w].body = kind]
                 \in [Workers -> Jobs]
    BY <2>1, JobRebuilds DEF Labels, TypeOK
  <2>2. \/ job' = [job EXCEPT ![w] = Idle]
        \/ \E kind \in Bodies :
             job' = [job EXCEPT ![w].pc = "check", ![w].usable = {}, ![w].body = kind]
    <3>1. "whole" \in Bodies /\ "mixed" \in Bodies /\ "cut" \in Bodies
      BY DEF Bodies
    <3>2. DEFINE Checked(kind) ==
                   job' = [job EXCEPT ![w].pc = "check", ![w].usable = {}, ![w].body = kind]
                 sound == \A piece \in job[w].usable : piece[2] = "intact"
    <3>3. \/ End(w) \/ Checked(IF sound THEN "whole" ELSE "mixed")
          \/ Checked(IF sound THEN "cut" ELSE "mixed")
      BY <1>16 DEF Rebuild
    <3>4. End(w) \/ Checked("whole") \/ Checked("cut") \/ Checked("mixed")
      <4>1. CASE sound
        BY <3>3, <4>1
      <4>2. CASE ~sound
        BY <3>3, <4>2
      <4> QED
        BY <4>1, <4>2
    <3>5. CASE End(w)
      BY <3>5 DEF End
    <3>6. ASSUME NEW kind \in Bodies, Checked(kind)
          PROVE  \E k \in Bodies :
                   job' = [job EXCEPT ![w].pc = "check", ![w].usable = {}, ![w].body = k]
      BY <3>6
    <3> HIDE DEF Checked
    <3> QED
      BY <3>1, <3>4, <3>5, <3>6
  <2>3. job' \in [Workers -> Jobs]
    <3>1. CASE job' = [job EXCEPT ![w] = Idle]
      BY <3>1, JobEnds DEF TypeOK
    <3>2. CASE \E kind \in Bodies :
                 job' = [job EXCEPT ![w].pc = "check", ![w].usable = {}, ![w].body = kind]
      BY <2>1, <3>2
    <3> QED
      BY <2>2, <3>1, <3>2
  <2>4. left' \in [Hazards -> Nat]
    BY <1>16, SpendTypes DEF Rebuild, TypeOK, Hazards
  <2> QED
    BY <1>16, <2>3, <2>4 DEF Rebuild, TypeOK
<1>17. ASSUME NEW w \in Workers, SyncStat(w) PROVE TypeOK'
  <2>1. job[w].refs \in SUBSET Indices
    BY DEF TypeOK, Jobs
  <2>2. job' \in [Workers -> Jobs]
    <3>1. [job EXCEPT ![w].pc = "release", ![w].todo = job[w].refs]
            \in [Workers -> Jobs]
      BY <2>1, JobSetsOut DEF TypeOK, Labels
    <3>2. [job EXCEPT ![w].pc = "forward"] \in [Workers -> Jobs]
      BY JobTurns DEF TypeOK, Labels
    <3> QED
      BY <1>17, <3>1, <3>2, JobEnds DEF SyncStat, End, TypeOK
  <2>3. left' \in [Hazards -> Nat]
    BY <1>17, SpendTypes DEF SyncStat, TypeOK, Hazards
  <2> QED
    BY <1>17, <2>2, <2>3 DEF SyncStat, TypeOK
<1>18. ASSUME NEW w \in Workers, Forward(w) PROVE TypeOK'
  <2>1. job[w].refs \in SUBSET Indices
    BY DEF TypeOK, Jobs
  <2>2. job' \in [Workers -> Jobs]
    BY <1>18, <2>1, JobSetsOut DEF Forward, TypeOK, Labels
  <2>3. /\ server' \in [Names -> Streams] /\ held' \subseteq Seals
        /\ mistaken' \subseteq Versions /\ left' \in [Hazards -> Nat]
    BY <1>18, BusySends, StoreTypes DEF Forward
  <2> QED
    BY <1>18, <2>2, <2>3 DEF Forward, TypeOK
<1>19. ASSUME NEW w \in Workers, Release(w) PROVE TypeOK'
  <2>1. PICK i \in Indices :
          /\ job' = [job EXCEPT ![w].todo = @ \ {i}]
          /\ \/ /\ chunk' = [chunk EXCEPT ![<<job[w].seal, i>>] =
                               IF @ \in {"intact", "damaged"} THEN "released" ELSE @]
                /\ UNCHANGED left
             \/ /\ Spend("fault")
                /\ UNCHANGED chunk
    BY <1>19 DEF Release
  <2>2. job[w].todo \ {i} \in SUBSET Indices
    BY DEF TypeOK, Jobs
  <2>3. job' \in [Workers -> Jobs]
    BY <2>1, <2>2, JobVisits DEF TypeOK
  <2>4. chunk' \in [Seals \X Indices -> ChunkState]
    BY <2>1 DEF TypeOK, ChunkState
  <2>5. left' \in [Hazards -> Nat]
    BY <2>1, SpendTypes DEF TypeOK, Hazards
  <2> QED
    BY <1>19, <2>3, <2>4, <2>5 DEF Release, TypeOK
<1>20. ASSUME NEW w \in Workers, RemoveRecord(w) PROVE TypeOK'
  <2>1. job' \in [Workers -> Jobs]
    BY <1>20, JobEnds DEF RemoveRecord, End, TypeOK
  <2>2. NoRecord \in Records
    BY SizesAssumption DEF NoRecord, Records
  <2>3. manifest' \in [Names -> Records]
    BY <1>20, <2>2 DEF RemoveRecord, TypeOK
  <2> QED
    BY <1>20, <2>1, <2>3 DEF RemoveRecord, TypeOK
<1>21. ASSUME NEW c \in Seals \X Indices, Damage(c) PROVE TypeOK'
  <2>1. chunk' \in [Seals \X Indices -> ChunkState]
    BY <1>21 DEF Damage, TypeOK, ChunkState
  <2>2. left' \in [Hazards -> Nat]
    BY <1>21, SpendTypes DEF Damage, Hazards
  <2> QED
    BY <1>21, <2>1, <2>2 DEF Damage, TypeOK
<1>22. CASE ServerDown
  <2>1. late' \subseteq Requests
    BY <1>22, BusySends DEF ServerDown, TypeOK
  <2>2. job' \in [Workers -> Jobs]
    BY <1>22, IdleIsAJob DEF ServerDown, TypeOK
  <2>3. left' \in [Hazards -> Nat]
    BY <1>22, SpendTypes DEF ServerDown, Hazards
  <2> QED
    BY <1>22, <2>1, <2>2, <2>3 DEF ServerDown, TypeOK
<1>23. CASE ServerReturns
  BY <1>23 DEF ServerReturns, TypeOK
<1>24. CASE UNCHANGED vars
  BY <1>24 DEF vars, history, TypeOK
<1>25. ASSUME NEW w \in Workers, Hang(w) PROVE TypeOK'
  <2>1. job' \in [Workers -> Jobs]
    BY <1>25, StuckIsAJob DEF Hang, TypeOK
  <2>2. left' \in [Hazards -> Nat]
    BY <1>25, SpendTypes DEF Hang, Hazards
  <2>3. late' \subseteq Requests
    BY <1>25, BusySends DEF Hang, AbandonPut, TypeOK
  <2> QED
    BY <1>25, <2>1, <2>2, <2>3 DEF Hang, TypeOK
<1> QED
  BY <1>1, <1>2, <1>3, <1>4, <1>5, <1>6, <1>7, <1>8, <1>9, <1>10, <1>11, <1>12,
     <1>13, <1>14, <1>15, <1>16, <1>17, <1>18, <1>19, <1>20, <1>21, <1>22, <1>23,
     <1>24, <1>25 DEF Next, Proceed

-----------------------------------------------------------------------------
(* The other parts of Safe *)

\* Hazards only ever strike.
LEMMA SpentStep ==
  ASSUME TypeOK, [Next]_vars, NEW h \in Hazards
  PROVE  left'[h] \in Nat /\ left'[h] <= left[h]
<1>1. left \in [Hazards -> Nat]
  BY DEF TypeOK
<1>2. ASSUME NEW hazard \in Hazards, Spend(hazard)
      PROVE  left'[h] \in Nat /\ left'[h] <= left[h]
  BY <1>1, <1>2 DEF Spend
<1>s. ASSUME NEW request, Store(request) PROVE left' = left \/ Spend("untagged")
  <2>1. \E t \in {sealed[request.seal].tag, server[request.name].tag, NoTag} :
          IF t = sealed[request.seal].tag THEN left' = left ELSE Spend("untagged")
    BY <1>s DEF Store
  <2> QED BY <2>1
<1>3. left' = left \/ \E hazard \in Hazards : Spend(hazard)
  <2>1. ASSUME NEW w \in Workers, UploadPut(w) \/ Forward(w) PROVE left' = left \/ Spend("untagged")
    BY <2>1, <1>s DEF UploadPut, Forward
  <2>2. ASSUME NEW request \in late, LateStore(request) PROVE left' = left \/ Spend("untagged")
    BY <2>2, <1>s DEF LateStore
  <2>3. ASSUME NEW w \in Workers, Proceed(w) PROVE left' = left \/ \E hazard \in Hazards : Spend(hazard)
    BY <2>1, <2>3 DEF Proceed, Hazards, ProbeAnswered, ProbeUnanswered, UploadStat, PutFails,
       Place, TooFewPlaced, RecordPending, TearRecord, Fetch, Rebuild, SyncStat, Release,
       RemoveRecord
  <2> QED
    BY <2>2, <2>3 DEF Next, vars, Hazards, SealUpload, Delete, BeginSync, Crash, Hang, Damage,
       ServerDown, ServerReturns
<1> QED BY <1>1, <1>2, <1>3

\* Nothing sealed, held or mistaken is forgotten, and no hazard is given back.
Grows ==
  /\ held \subseteq held'
  /\ mistaken \subseteq mistaken'
  /\ Len(sealed) <= Len(sealed')
  /\ \A s \in 1 .. Len(sealed) : sealed'[s] = sealed[s]
  /\ \A h \in Hazards : left'[h] \in Nat /\ left'[h] <= left[h]

\* Settled after the step.
SettledNext(s) == s \in held' \/ (s \in 1 .. Len(sealed') /\ sealed'[s] \in mistaken')

\* What was settled stays settled.
LEMMA SettledStays ==
  ASSUME Safe, Grows, NEW s, Settled(s)
  PROVE  SettledNext(s)
<1>1. Len(sealed) \in Nat /\ Len(sealed') \in Nat
  BY DEF Safe, TypeOK, Grows
<1> QED
  BY <1>1 DEF Settled, SettledNext, Grows

\* A body that may be sent stays one.
LEMMA BodyStays ==
  ASSUME Safe, Grows, NEW kind, BodyOK(kind)
  PROVE  kind # "mixed" /\ (kind = "cut" => left'["disk"] < Budget["disk"])
<1>1. /\ left'["disk"] \in Nat /\ left'["disk"] <= left["disk"]
      /\ left["disk"] \in Nat /\ Budget["disk"] \in Nat
  BY SizesAssumption DEF Safe, TypeOK, Grows, Hazards
<1> QED
  BY <1>1 DEF BodyOK

\* What the server holds of a name goes on fitting the same contents.
LEMMA FitStays ==
  ASSUME Safe, Grows, NEW n \in Names, server'[n] = server[n], NEW v
  PROVE  (/\ server'[n].seal # 0 /\ server'[n].body = "whole"
          /\ sealed'[server'[n].seal] = v)
         <=> Fits(server[n], v)
<1>1. server[n].seal # 0 => server[n].seal \in 1 .. Len(sealed)
  BY SizesAssumption DEF Safe, ServerHoldsWholeStreams, TypeOK, Streams
<1> QED
  BY <1>1 DEF Fits, Grows

\* Where nothing new is mistaken, only a hazard that strikes can excuse it.
LEMMA NoneMistaken == ASSUME Safe, Grows, mistaken' = mistaken PROVE NoMistakes'
<1>1. \A h \in Hazards : /\ left'[h] \in Nat /\ left'[h] <= left[h] /\ left[h] \in Nat
                          /\ left[h] <= Budget[h] /\ Budget[h] \in Nat
  BY SizesAssumption DEF Safe, TypeOK, Grows, NoMistakes
<1>2. \A h \in Hazards : left'[h] <= Budget[h] /\ (left'[h] = Budget[h] => left[h] = Budget[h])
  BY <1>1
<1> QED
  BY <1>2 DEF Safe, NoMistakes, Hazards

\* What a step leaves alone stays as Safe wants it, whatever was sealed since.
LEMMA Frame ==
  ASSUME Safe, Grows
  PROVE  /\ \A v \in Workers : job'[v] \in {job[v], Idle, Stuck} => JobOK(v)'
         /\ \A n \in Names : manifest'[n] = manifest[n] => RecordOK(n)'
         /\ late' \subseteq late => LateOK'
         /\ server' = server => ServerHoldsWholeStreams' /\ TagOK'
         /\ server' = server /\ sealed' = sealed => HeldOK'
         /\ mistaken' = mistaken => NoMistakes'
         /\ chunk' = chunk => ReleasedOnlyAfterHeld'
<1> Len(sealed) \in Nat /\ Len(sealed') \in Nat
  BY DEF Safe, TypeOK, Grows
<1>1. ASSUME NEW v \in Workers, job'[v] \in {job[v], Idle, Stuck} PROVE JobOK(v)'
  <2>1. CASE job'[v] = job[v] /\ job[v].pc \notin {"idle", "hung"}
    <3>1. job[v].pc = "release" => SettledNext(job[v].seal)
      BY <2>1, SettledStays DEF Safe, JobOK
    <3>2. job[v].body # "mixed" /\ (job[v].body = "cut" => left'["disk"] < Budget["disk"])
      BY <2>1, BodyStays DEF Safe, JobOK
    <3>3. /\ job[v].seal \in 1 .. Len(sealed) /\ sealed[job[v].seal].name = job[v].name
          /\ job[v].usable \subseteq Indices \X {"intact"}
      BY <2>1 DEF Safe, JobOK
    <3>4. job[v].seal \in 1 .. Len(sealed') /\ sealed'[job[v].seal].name = job[v].name
      BY <3>3 DEF Grows
    <3> QED
      BY <2>1, <3>1, <3>2, <3>3, <3>4 DEF JobOK, SettledNext, Settled, BodyOK
  <2>2. CASE job'[v].pc \in {"idle", "hung"}
    BY <2>2 DEF JobOK
  <2> QED
    BY <1>1, <2>1, <2>2, StuckIsAJob DEF Idle
<1>2. ASSUME NEW n \in Names, manifest'[n] = manifest[n] PROVE RecordOK(n)'
  BY <1>2 DEF Safe, RecordOK, Grows
<1>3. ASSUME late' \subseteq late PROVE LateOK'
  <2> SUFFICES ASSUME NEW r \in late
               PROVE  /\ r.seal <= Len(sealed')
                      /\ r.body # "mixed" /\ (r.body = "cut" => left'["disk"] < Budget["disk"])
                      /\ sealed'[r.seal].name = r.name
    BY <1>3 DEF LateOK, BodyOK
  <2>1. r.seal \in 1 .. Len(sealed)
    BY SizesAssumption DEF Safe, LateOK, TypeOK, Requests, Seals
  <2>2. r.body # "mixed" /\ (r.body = "cut" => left'["disk"] < Budget["disk"])
    BY BodyStays DEF Safe, LateOK
  <2> QED
    BY <2>1, <2>2 DEF Safe, LateOK, Grows
<1>4. ASSUME server' = server PROVE ServerHoldsWholeStreams' /\ TagOK'
  <2>1. ASSUME NEW n \in Names, server[n].seal # 0
        PROVE  /\ server[n].seal \in 1 .. Len(sealed) /\ sealed[server[n].seal].name = n
               /\ server[n].body # "mixed"
               /\ server[n].body = "cut" => left'["disk"] < Budget["disk"]
    <3>1. BodyOK(server[n].body)
      BY <2>1 DEF BodyOK, Safe, ServerHoldsWholeStreams
    <3>2. server[n].seal \in 1 .. Len(sealed)
      BY <2>1, SizesAssumption DEF Safe, ServerHoldsWholeStreams, TypeOK, Streams
    <3> QED
      BY <2>1, <3>1, <3>2, BodyStays DEF Safe, ServerHoldsWholeStreams
  <2>2. ServerHoldsWholeStreams'
    BY <1>4, <2>1 DEF ServerHoldsWholeStreams, Grows
  <2>3. ASSUME NEW n \in Names, NEW t \in Tags, server'[n].seal # 0, server'[n].tag = t,
               [name |-> n, tag |-> t] \notin mistaken'
        PROVE  Fits(server[n], [name |-> n, tag |-> t])
    BY <1>4, <2>3 DEF Safe, TagOK, Grows
  <2>4. TagOK'
    BY <1>4, <2>3, FitStays DEF TagOK, Fits
  <2> QED
    BY <2>2, <2>4
<1>5. ASSUME server' = server, sealed' = sealed PROVE HeldOK'
  BY <1>5 DEF Safe, HeldOK, Grows, Fits
<1>6. ASSUME chunk' = chunk PROVE ReleasedOnlyAfterHeld'
  BY <1>6, SettledStays DEF Safe, ReleasedOnlyAfterHeld, Settled, SettledNext
<1> QED
  BY <1>1, <1>2, <1>3, <1>4, <1>5, <1>6, NoneMistaken

\* A busy worker stays as Safe wants it while it works on the same stream.
LEMMA JobGoesOn ==
  ASSUME Safe, Grows, NEW w \in Workers, job[w].pc \notin {"idle", "hung"},
         job'[w].seal = job[w].seal, job'[w].name = job[w].name,
         job'[w].body = job[w].body,
         job'[w].usable \subseteq job[w].usable \cup (Indices \X {"intact"}),
         job'[w].pc = "release" => SettledNext(job[w].seal)
  PROVE  JobOK(w)'
<1>1. Len(sealed) \in Nat /\ Len(sealed') \in Nat
  BY DEF Safe, TypeOK, Grows
<1>2. job[w].body # "mixed" /\ (job[w].body = "cut" => left'["disk"] < Budget["disk"])
  BY BodyStays DEF Safe, JobOK
<1> QED
  BY <1>1, <1>2 DEF Safe, JobOK, Grows, BodyOK, Settled, SettledNext

\* Nothing sealed, held or mistaken is forgotten when none of it changes.
LEMMA SameGrows ==
  ASSUME Safe, [Next]_vars, UNCHANGED <<sealed, held, mistaken>> PROVE Grows
BY SpentStep DEF Safe, TypeOK, Grows

\* Storing a stream sealed for the name it is stored under puts every seal of
\* that content in the history, unless the stream is cut: then the content is
\* mistaken, as is every other whose tag stands beside it.
LEMMA StoreKeeps ==
  ASSUME Safe, NEW request \in Requests, Store(request), UNCHANGED sealed,
         BodyOK(request.body), request.seal <= Len(sealed),
         sealed[request.seal].name = request.name
  PROVE  /\ Grows /\ ServerHoldsWholeStreams' /\ HeldOK' /\ TagOK' /\ NoMistakes'
         /\ SettledNext(request.seal)
<1> DEFINE version == sealed[request.seal]
<1>1. /\ request.seal \in 1 .. Len(sealed) /\ request.name \in Names
      /\ version \in Versions /\ version.tag \in Tags /\ version.name = request.name
      /\ request.body \in Bodies
  <2>1. request.seal \in 1 .. Len(sealed)
    BY SizesAssumption DEF Requests, Seals, Safe, TypeOK
  <2> QED
    BY <2>1, SealedTypes DEF Requests, Safe
<1>2. PICK t \in {version.tag, server[request.name].tag, NoTag} :
        /\ IF t = version.tag THEN UNCHANGED left ELSE Spend("untagged")
        /\ server' = [server EXCEPT ![request.name] =
                        [seal |-> request.seal, body |-> request.body, tag |-> t]]
        /\ held' = held \cup {s \in 1 .. Len(sealed) :
                                request.body = "whole" /\ sealed[s] = version}
        /\ mistaken' = mistaken \cup
             {v \in Versions : /\ v.name = request.name /\ v.tag \in {t, version.tag}
                               /\ request.body # "whole" \/ v # version}
  BY DEF Store
<1> HIDE DEF version
<1>3. \A h \in Hazards : left[h] \in Nat /\ left'[h] \in Nat /\ left'[h] <= left[h]
  <2>1. left \in [Hazards -> Nat]
    BY DEF Safe, TypeOK
  <2> QED
    BY <1>2, <2>1 DEF Spend, Hazards
<1>4. Grows
  BY <1>2, <1>3 DEF Grows, Safe, TypeOK
<1>5. server'[request.name] = [seal |-> request.seal, body |-> request.body, tag |-> t]
  BY <1>1, <1>2 DEF Safe, TypeOK
<1>6. ASSUME NEW n \in Names, n # request.name PROVE server'[n] = server[n]
  BY <1>2, <1>6 DEF Safe, TypeOK
<1>7. ServerHoldsWholeStreams'
  <2>1. ASSUME NEW n \in Names, server'[n].seal # 0
        PROVE  /\ server'[n].body # "mixed"
               /\ server'[n].body = "cut" => left'["disk"] < Budget["disk"]
               /\ server'[n].seal <= Len(sealed)
               /\ sealed[server'[n].seal].name = n
    <3>1. CASE n = request.name
      BY <1>1, <1>4, <1>5, <3>1, BodyStays
    <3>2. CASE n # request.name
      <4>1. server'[n] = server[n] /\ BodyOK(server[n].body)
        BY <1>6, <2>1, <3>2 DEF Safe, ServerHoldsWholeStreams, BodyOK
      <4> QED
        BY <1>4, <2>1, <4>1, BodyStays DEF Safe, ServerHoldsWholeStreams
    <3> QED
      BY <3>1, <3>2
  <2> QED
    BY <2>1 DEF ServerHoldsWholeStreams
<1>8. SettledNext(request.seal)
  <2>1. CASE request.body = "whole"
    BY <1>1, <1>2, <2>1 DEF SettledNext, version
  <2>2. CASE request.body # "whole"
    <3>1. version \in mistaken'
      BY <1>1, <1>2, <2>2
    <3> QED
      BY <1>1, <3>1 DEF SettledNext, version
  <2> QED
    BY <2>1, <2>2
<1>9. HeldOK'
  <2> SUFFICES ASSUME NEW s \in 1 .. Len(sealed), Fits(server'[sealed[s].name], sealed[s])
               PROVE  s \in held'
    BY DEF HeldOK, Fits
  <2>1. sealed[s] \in Versions /\ sealed[s].name \in Names
    BY SealedTypes DEF Safe
  <2>2. CASE sealed[s].name = request.name
    BY <1>2, <1>5, <2>2 DEF Fits, version
  <2>3. CASE sealed[s].name # request.name
    <3>1. server'[sealed[s].name] = server[sealed[s].name]
      BY <2>1, <2>3, <1>6
    <3> QED
      BY <3>1, <1>4 DEF Safe, HeldOK, Grows
  <2> QED
    BY <2>2, <2>3
<1>10. TagOK'
  <2>1. ASSUME NEW n \in Names, NEW u \in Tags, server'[n].seal # 0, server'[n].tag = u,
               [name |-> n, tag |-> u] \notin mistaken'
        PROVE  Fits(server'[n], [name |-> n, tag |-> u])
    <3>1. CASE n = request.name
      <4>1. u = t /\ [name |-> n, tag |-> u] \in Versions
        BY <1>5, <2>1, <3>1 DEF Versions
      <4>2. request.body = "whole" /\ [name |-> n, tag |-> u] = version
        BY <1>2, <2>1, <3>1, <4>1
      <4> QED
        BY <1>1, <1>5, <3>1, <4>2 DEF Fits, version, Seals, Requests
    <3>2. CASE n # request.name
      BY <1>4, <1>6, <2>1, <3>2 DEF Safe, TagOK, Grows
    <3> QED
      BY <3>1, <3>2
  <2> QED
    BY <2>1 DEF TagOK, Fits
<1>11. NoMistakes'
  <2>1. \A h \in Hazards : left[h] <= Budget[h] /\ left[h] \in Nat /\ Budget[h] \in Nat
    BY SizesAssumption DEF Safe, TypeOK, NoMistakes
  <2>2. \A h \in Hazards : left'[h] <= Budget[h] /\ (left'[h] = Budget[h] => left[h] = Budget[h])
    BY <1>3, <2>1
  <2>3. ASSUME left'["untagged"] = Budget["untagged"], left'["disk"] = Budget["disk"]
        PROVE  mistaken' = {}
    <3>1. mistaken = {}
      BY <2>2, <2>3 DEF Safe, NoMistakes, Hazards
    <3>2. request.body = "whole"
      <4>1. left["disk"] = Budget["disk"] /\ left["disk"] \in Nat
        BY <2>1, <2>2, <2>3 DEF Hazards
      <4> QED
        BY <1>1, <4>1 DEF BodyOK, Bodies
    <3>3. t = version.tag
      <4>1. ~Spend("untagged")
        <5>1. left["untagged"] \in Nat /\ left'["untagged"] = left["untagged"]
          BY <2>1, <2>2, <2>3 DEF Hazards
        <5>2. left \in [Hazards -> Nat] /\ "untagged" \in Hazards
          BY DEF Safe, TypeOK, Hazards
        <5> QED
          BY <5>1, <5>2 DEF Spend
      <4> QED
        BY <1>2, <4>1
    <3>4. \A v \in Versions : v.name = request.name /\ v.tag = version.tag => v = version
      BY <1>1 DEF Versions
    <3> QED
      BY <1>2, <3>1, <3>2, <3>3, <3>4
  <2> QED
    BY <2>2, <2>3 DEF NoMistakes
<1> QED
  BY <1>4, <1>7, <1>8, <1>9, <1>10, <1>11

\* A busy worker sends the stream that was sealed for its name.
LEMMA SentFits ==
  ASSUME Safe, NEW w \in Workers, job[w].pc \notin {"idle", "hung"}
  PROVE  /\ BodyOK(Sent(w).body) /\ Sent(w).seal <= Len(sealed)
         /\ sealed[Sent(w).seal].name = Sent(w).name
         /\ Sent(w).seal = job[w].seal
BY DEF Safe, JobOK, Sent, TypeOK

\* An upload given up may be stored later, and is fit to be.
LEMMA AbandonKeeps ==
  ASSUME Safe, Grows, UNCHANGED sealed,
         late' \subseteq late \cup {Sent(v) : v \in {u \in Workers : job[u].pc \in {"put", "forward"}}}
  PROVE  LateOK'
<1> SUFFICES ASSUME NEW r \in late'
             PROVE  /\ r.seal <= Len(sealed)
                    /\ r.body # "mixed" /\ (r.body = "cut" => left'["disk"] < Budget["disk"])
                    /\ sealed[r.seal].name = r.name
  BY DEF LateOK, BodyOK
<1>1. r.seal <= Len(sealed) /\ BodyOK(r.body) /\ sealed[r.seal].name = r.name
  <2>1. CASE r \in late
    BY <2>1 DEF Safe, LateOK
  <2>2. ASSUME NEW v \in Workers, job[v].pc \in {"put", "forward"}, r = Sent(v)
        PROVE  r.seal <= Len(sealed) /\ BodyOK(r.body) /\ sealed[r.seal].name = r.name
    BY <2>2, SentFits
  <2> QED
    BY <2>1, <2>2
<1> QED
  BY <1>1, BodyStays

\* The parts of Safe beside the types.
Kept ==
  /\ \A v \in Workers : JobOK(v)
  /\ \A n \in Names : RecordOK(n)
  /\ LateOK
  /\ HeldOK
  /\ TagOK
  /\ NoMistakes
  /\ ServerHoldsWholeStreams
  /\ ReleasedOnlyAfterHeld

\* Every step keeps the non-type parts of Safe, action by action.
LEMMA KeptStep == Safe /\ [Next]_vars => Kept'
<1> SUFFICES ASSUME Safe, [Next]_vars PROVE Kept'
  OBVIOUS
<1> TypeOK
  BY DEF Safe
<1> Len(sealed) \in Nat
  BY DEF TypeOK
<1> USE DEF Workers, history
<1>1. ASSUME NEW w \in Uploaders, NEW n \in Names, NEW t \in Tags,
             SealUpload(w, n, t)
      PROVE  Kept'
  <2> DEFINE new == Len(sealed) + 1
  <2>1. /\ Len(sealed') = new
        /\ sealed'[new] = [name |-> n, tag |-> t]
        /\ \A s \in 1 .. Len(sealed) : sealed'[s] = sealed[s]
    BY <1>1 DEF SealUpload, TypeOK, Versions
  <2>2. Grows
    BY <1>1, <2>1, SpentStep DEF SealUpload, Grows, TypeOK
  <2>3. \A v \in Workers : JobOK(v)'
    <3>1. job'[w] = [Idle EXCEPT !.pc = "probe", !.name = n, !.seal = new]
      BY <1>1 DEF SealUpload, TypeOK
    <3>2. JobOK(w)'
      BY <2>1, <3>1 DEF JobOK, Idle, BodyOK
    <3>3. ASSUME NEW v \in Workers, v # w PROVE JobOK(v)'
      BY <1>1, <3>3, <2>2, Frame DEF SealUpload, TypeOK
    <3> QED
      BY <3>2, <3>3
  <2>4. HeldOK'
    <3> SUFFICES ASSUME NEW s \in 1 .. new, server[sealed'[s].name].seal # 0,
                        server[sealed'[s].name].body = "whole",
                        sealed'[server[sealed'[s].name].seal] = sealed'[s]
                 PROVE  s \in held'
      BY <1>1, <2>1 DEF HeldOK, SealUpload, Fits
    <3>1. CASE s = new
      <4>1. sealed'[s] = [name |-> n, tag |-> t] /\ server' = server
        BY <1>1, <3>1, <2>1 DEF SealUpload
      <4>2. Fits(server[n], [name |-> n, tag |-> t])
        BY <2>2, <4>1, FitStays
      <4> QED
        BY <1>1, <3>1, <4>2 DEF SealUpload
    <3>2. CASE s \in 1 .. Len(sealed)
      <4>1. sealed[s].name \in Names /\ sealed'[s] = sealed[s] /\ server' = server
        BY <1>1, <3>2, <2>1, SealedTypes DEF SealUpload
      <4>2. Fits(server[sealed[s].name], sealed[s])
        BY <2>2, <4>1, FitStays
      <4> QED
        BY <3>2, <4>2, <2>2 DEF Safe, HeldOK, Grows
    <3> QED
      BY <3>1, <3>2
  <2> QED
    BY <1>1, <2>2, <2>3, <2>4, Frame DEF SealUpload, Kept
<1>2. ASSUME NEW w \in Uploaders, NEW n \in Names, Delete(w, n) PROVE Kept'
  <2>1. Grows
    BY <1>2, SameGrows DEF Delete
  <2>2. /\ server'[n].seal = 0 /\ UNCHANGED <<sealed, held, mistaken>>
        /\ \A m \in Names : m # n => server'[m] = server[m]
    BY <1>2 DEF Delete, NoFile, TypeOK
  <2>3. ServerHoldsWholeStreams'
    <3>1. ASSUME NEW m \in Names, server'[m].seal # 0
          PROVE  /\ server'[m].body # "mixed"
                 /\ server'[m].body = "cut" => left'["disk"] < Budget["disk"]
                 /\ server'[m].seal <= Len(sealed)
                 /\ sealed[server'[m].seal].name = m
      <4>1. server'[m] = server[m] /\ BodyOK(server[m].body)
        BY <2>2, <3>1 DEF Safe, ServerHoldsWholeStreams, BodyOK
      <4> QED
        BY <2>1, <3>1, <4>1, BodyStays DEF Safe, ServerHoldsWholeStreams
    <3> QED
      BY <2>2, <3>1 DEF ServerHoldsWholeStreams
  <2>4. HeldOK' /\ TagOK'
    <3>1. ASSUME NEW s \in 1 .. Len(sealed), Fits(server'[sealed[s].name], sealed[s])
          PROVE  s \in held
      <4>1. sealed[s].name \in Names
        BY SealedTypes
      <4>2. server'[sealed[s].name] = server[sealed[s].name]
        BY <2>2, <3>1, <4>1 DEF Fits
      <4> QED
        BY <3>1, <4>2 DEF Safe, HeldOK
    <3>2. ASSUME NEW m \in Names, NEW u \in Tags, server'[m].seal # 0, server'[m].tag = u
          PROVE  Fits(server'[m], [name |-> m, tag |-> u]) \/ [name |-> m, tag |-> u] \in mistaken
      <4>1. server'[m] = server[m]
        BY <2>2, <3>2
      <4> QED
        BY <3>2, <4>1 DEF Safe, TagOK
    <3> QED
      BY <2>2, <3>1, <3>2 DEF HeldOK, TagOK, Fits
  <2> QED
    BY <1>2, <2>1, <2>3, <2>4, Frame DEF Delete, Kept
<1>3. ASSUME NEW w \in Syncers, NEW n \in Names, BeginSync(w, n) PROVE Kept'
  <2>1. Grows
    BY <1>3, SameGrows DEF BeginSync
  <2>2. job'[w] = [Idle EXCEPT !.pc = "fetch", !.name = n, !.seal = manifest[n].seal,
                      !.refs = manifest[n].refs, !.todo = manifest[n].refs]
    BY <1>3 DEF BeginSync, TypeOK
  <2>3. JobOK(w)'
    BY <1>3, <2>2 DEF BeginSync, JobOK, Idle, Safe, RecordOK, BodyOK
  <2>4. ASSUME NEW v \in Workers, v # w PROVE JobOK(v)'
    BY <1>3, <2>1, <2>4, Frame DEF BeginSync, TypeOK
  <2> QED
    BY <1>3, <2>1, <2>3, <2>4, Frame DEF BeginSync, Kept
<1>4. ASSUME NEW w \in Workers, Crash(w) PROVE Kept'
  <2>1. Grows
    BY <1>4, SameGrows DEF Crash
  <2>2. \A v \in Workers : job'[v] \in {job[v], Idle}
    BY <1>4 DEF Crash, End, TypeOK
  <2>3. LateOK'
    BY <1>4, <2>1, AbandonKeeps DEF Crash, AbandonPut
  <2> QED
    BY <1>4, <2>1, <2>2, <2>3, Frame DEF Crash, Kept
<1>5. ASSUME NEW w \in Workers, ProbeAnswered(w) PROVE Kept'
  <2>1. Grows
    BY <1>5, SameGrows DEF ProbeAnswered
  <2>2. JobOK(w)'
    BY <1>5, <2>1, JobGoesOn DEF ProbeAnswered, TypeOK, Jobs
  <2>3. ASSUME NEW v \in Workers, v # w PROVE JobOK(v)'
    BY <1>5, <2>1, <2>3, Frame DEF ProbeAnswered, TypeOK
  <2> QED
    BY <1>5, <2>1, <2>2, <2>3, Frame DEF ProbeAnswered, Kept
<1>6. ASSUME NEW w \in Workers, ProbeUnanswered(w) PROVE Kept'
  <2>1. Grows
    BY <1>6, SameGrows DEF ProbeUnanswered
  <2>2. JobOK(w)'
    <3>1. CASE job'[w] = Idle
      BY <3>1 DEF JobOK, Idle
    <3>2. CASE job' = [job EXCEPT ![w].pc = "place", ![w].todo = EveryShard]
      BY <1>6, <2>1, <3>2, JobGoesOn DEF ProbeUnanswered, TypeOK, Jobs
    <3> QED
      BY <1>6, <3>1, <3>2 DEF ProbeUnanswered, End, TypeOK
  <2>3. ASSUME NEW v \in Workers, v # w PROVE JobOK(v)'
    BY <1>6, <2>1, <2>3, Frame DEF ProbeUnanswered, End, TypeOK
  <2> QED
    BY <1>6, <2>1, <2>2, <2>3, Frame DEF ProbeUnanswered, Kept
<1>7. ASSUME NEW w \in Workers, UploadStat(w) PROVE Kept'
  <2>1. Grows
    BY <1>7, SameGrows DEF UploadStat
  <2>2. JobOK(w)'
    <3>1. CASE job'[w] = Idle
      BY <3>1 DEF JobOK, Idle
    <3>2. CASE job' = [job EXCEPT ![w].pc = "put"]
      BY <1>7, <2>1, <3>2, JobGoesOn DEF UploadStat, TypeOK, Jobs
    <3> QED
      BY <1>7, <3>1, <3>2 DEF UploadStat, End, TypeOK
  <2>3. ASSUME NEW v \in Workers, v # w PROVE JobOK(v)'
    BY <1>7, <2>1, <2>3, Frame DEF UploadStat, End, TypeOK
  <2> QED
    BY <1>7, <2>1, <2>2, <2>3, Frame DEF UploadStat, Kept
<1>8. ASSUME NEW w \in Workers, UploadPut(w) PROVE Kept'
  <2>1. Grows /\ ServerHoldsWholeStreams' /\ HeldOK' /\ TagOK' /\ NoMistakes'
    BY <1>8, BusySends, SentFits, StoreKeeps DEF UploadPut
  <2>2. \A v \in Workers : job'[v] \in {job[v], Idle}
    BY <1>8 DEF UploadPut, End, TypeOK
  <2> QED
    BY <1>8, <2>1, <2>2, Frame DEF UploadPut, Kept
<1>9. ASSUME NEW w \in Workers, PutFails(w) PROVE Kept'
  <2>1. Grows
    BY <1>9, SameGrows DEF PutFails
  <2>2. \A v \in Workers : job'[v] \in {job[v], Idle}
    BY <1>9 DEF PutFails, End, TypeOK
  <2>3. LateOK'
    BY <1>9, <2>1, AbandonKeeps DEF PutFails, AbandonPut
  <2> QED
    BY <1>9, <2>1, <2>2, <2>3, Frame DEF PutFails, Kept
<1>10. ASSUME NEW request \in late, LateStore(request) PROVE Kept'
  <2>1. Grows /\ ServerHoldsWholeStreams' /\ HeldOK' /\ TagOK' /\ NoMistakes'
    BY <1>10, StoreKeeps DEF LateStore, Safe, LateOK, TypeOK
  <2> QED
    BY <1>10, <2>1, Frame DEF LateStore, Kept
<1>11. ASSUME NEW w \in Workers, Place(w) PROVE Kept'
  <2>1. Grows
    BY <1>11, SameGrows DEF Place
  <2>2. JobOK(w)'
    <3>1. job[w].pc = "place"
      BY <1>11 DEF Place
    <3>2. /\ job'[w].seal = job[w].seal /\ job'[w].name = job[w].name
          /\ job'[w].body = job[w].body /\ job'[w].usable = job[w].usable
          /\ job'[w].pc = job[w].pc
      BY <1>11 DEF Place, TypeOK, Jobs
    <3> QED
      BY <2>1, <3>1, <3>2, JobGoesOn
  <2>3. ASSUME NEW v \in Workers, v # w PROVE JobOK(v)'
    BY <1>11, <2>1, <2>3, Frame DEF Place, TypeOK
  <2>4. \A c \in Seals \X Indices : chunk'[c] = "released" => chunk[c] = "released"
    BY <1>11 DEF Place, TypeOK
  <2>5. ReleasedOnlyAfterHeld'
    BY <2>1, <2>4, SettledStays DEF Safe, ReleasedOnlyAfterHeld, Settled, SettledNext
  <2> QED
    BY <1>11, <2>1, <2>2, <2>3, <2>5, Frame DEF Place, Kept
<1>12. ASSUME NEW w \in Workers, TooFewPlaced(w) PROVE Kept'
  <2>1. Grows
    BY <1>12, SameGrows DEF TooFewPlaced
  <2>2. \A v \in Workers : job'[v] \in {job[v], Idle}
    BY <1>12 DEF TooFewPlaced, End, TypeOK
  <2> QED
    BY <1>12, <2>1, <2>2, Frame DEF TooFewPlaced, Kept
<1>13. ASSUME NEW w \in Workers, RecordPending(w) PROVE Kept'
  <2>1. Grows
    BY <1>13, SameGrows DEF RecordPending
  <2>2. \A v \in Workers : job'[v] \in {job[v], Idle}
    BY <1>13 DEF RecordPending, End, TypeOK
  <2>3. ASSUME NEW n \in Names PROVE RecordOK(n)'
    <3>1. CASE n = job[w].name
      BY <1>13, <3>1 DEF RecordPending, ReadyToRecord, Safe, JobOK, RecordOK, TypeOK
    <3>2. CASE n # job[w].name
      BY <1>13, <2>1, <3>2, Frame DEF RecordPending, TypeOK
    <3> QED
      BY <3>1, <3>2
  <2> QED
    BY <1>13, <2>1, <2>2, <2>3, Frame DEF RecordPending, Kept
<1>14. ASSUME NEW w \in Workers, TearRecord(w) PROVE Kept'
  <2>1. Grows
    BY <1>14, SameGrows DEF TearRecord
  <2>2. \A v \in Workers : job'[v] \in {job[v], Idle}
    BY <1>14 DEF TearRecord, End, TypeOK
  <2>3. ASSUME NEW n \in Names PROVE RecordOK(n)'
    <3>1. manifest'[n] = manifest[n] \/ manifest'[n].state = "torn"
      BY <1>14 DEF TearRecord, TypeOK
    <3> QED
      BY <2>1, <3>1, Frame DEF RecordOK
  <2> QED
    BY <1>14, <2>1, <2>2, <2>3, Frame DEF TearRecord, Kept
<1>15. ASSUME NEW w \in Workers, Fetch(w) PROVE Kept'
  <2>1. Grows
    BY <1>15, SameGrows DEF Fetch
  <2>2. JobOK(w)'
    <3>1. job[w].pc = "fetch"
      BY <1>15 DEF Fetch
    <3>2. /\ job'[w].seal = job[w].seal /\ job'[w].name = job[w].name
          /\ job'[w].body = job[w].body /\ job'[w].pc = job[w].pc
      BY <1>15 DEF Fetch, TypeOK, Jobs
    <3>3. job'[w].usable \subseteq job[w].usable \cup (Indices \X {"intact"})
      <4>1. PICK i \in Indices :
              LET state == chunk[<<job[w].seal, i>>]
                  rest == job[w].todo \ {i}
              IN \/ /\ Verified(state)
                    /\ job' = [job EXCEPT ![w].todo = rest,
                                          ![w].usable = @ \cup {<<i, state>>}]
                 \/ job' = [job EXCEPT ![w].todo = rest]
        BY <1>15 DEF Fetch
      <4>2. \/ job'[w].usable = job[w].usable
            \/ job'[w].usable = job[w].usable \cup {<<i, "intact">>}
        BY <4>1 DEF Verified, TypeOK, Jobs
      <4> QED
        BY <4>2
    <3> QED
      BY <2>1, <3>1, <3>2, <3>3, JobGoesOn
  <2>3. ASSUME NEW v \in Workers, v # w PROVE JobOK(v)'
    BY <1>15, <2>1, <2>3, Frame DEF Fetch, TypeOK
  <2> QED
    BY <1>15, <2>1, <2>2, <2>3, Frame DEF Fetch, Kept
<1>16. ASSUME NEW w \in Workers, Rebuild(w) PROVE Kept'
  <2>1. Grows
    BY <1>16, SameGrows DEF Rebuild
  <2>2. JobOK(w)'
    <3>1. job[w].pc = "fetch" /\ \A piece \in job[w].usable : piece[2] = "intact"
      BY <1>16 DEF Rebuild, Safe, JobOK
    <3>2. \/ job'[w] = Idle
          \/ \E kind \in {"whole", "cut"} :
               /\ job' = [job EXCEPT ![w].pc = "check", ![w].usable = {}, ![w].body = kind]
               /\ kind = "cut" => Spend("disk")
      BY <1>16, <3>1 DEF Rebuild, End, TypeOK
    <3>3. ASSUME NEW kind \in {"whole", "cut"}, kind = "cut" => Spend("disk"),
                 job' = [job EXCEPT ![w].pc = "check", ![w].usable = {}, ![w].body = kind]
          PROVE  JobOK(w)'
      <4>1. kind = "cut" => left'["disk"] < Budget["disk"]
        <5>1. left["disk"] \in Nat /\ Budget["disk"] \in Nat /\ left["disk"] <= Budget["disk"]
          BY SizesAssumption DEF Safe, NoMistakes, TypeOK, Hazards
        <5>2. Spend("disk") => left'["disk"] = left["disk"] - 1
          BY DEF Spend, TypeOK, Hazards
        <5> QED
          BY <3>3, <5>1, <5>2
      <4>2. /\ job'[w].seal = job[w].seal /\ job'[w].name = job[w].name
            /\ job'[w].body = kind /\ job'[w].usable = {} /\ job'[w].pc = "check"
        BY <3>3 DEF TypeOK, Jobs
      <4>3. job[w].seal \in 1 .. Len(sealed) /\ sealed[job[w].seal].name = job[w].name
        BY <3>1 DEF Safe, JobOK
      <4>4. sealed' = sealed
        BY <1>16 DEF Rebuild
      <4> QED
        BY <3>3, <4>1, <4>2, <4>3, <4>4 DEF JobOK, BodyOK
    <3>4. CASE job'[w] = Idle
      BY <3>4 DEF JobOK, Idle
    <3> QED
      BY <3>2, <3>3, <3>4
  <2>3. ASSUME NEW v \in Workers, v # w PROVE JobOK(v)'
    BY <1>16, <2>1, <2>3, Frame DEF Rebuild, End, TypeOK
  <2> QED
    BY <1>16, <2>1, <2>2, <2>3, Frame DEF Rebuild, Kept
<1>17. ASSUME NEW w \in Workers, SyncStat(w) PROVE Kept'
  <2>1. Grows
    BY <1>17, SameGrows DEF SyncStat
  <2>2. JobOK(w)'
    <3>1. CASE job'[w] = Idle
      BY <3>1 DEF JobOK, Idle
    <3>2. CASE job' = [job EXCEPT ![w].pc = "forward"]
      BY <1>17, <2>1, <3>2, JobGoesOn DEF SyncStat, TypeOK, Jobs
    <3>3. CASE /\ Identical(w)
               /\ job' = [job EXCEPT ![w].pc = "release", ![w].todo = job[w].refs]
      <4>1. /\ job[w].seal \in 1 .. Len(sealed)
            /\ sealed[job[w].seal].name = job[w].name
        BY <1>17 DEF SyncStat, Safe, JobOK
      <4>2. sealed[job[w].seal] = [name |-> job[w].name, tag |-> sealed[job[w].seal].tag]
        BY <4>1, SealedTypes DEF Versions
      <4>3. /\ server[job[w].name].seal # 0 /\ job[w].name \in Names
            /\ server[job[w].name].tag = sealed[job[w].seal].tag /\ sealed[job[w].seal].tag \in Tags
        BY <3>3, <4>1, SealedTypes DEF Identical
      <4>4. Fits(server[job[w].name], sealed[job[w].seal]) \/ sealed[job[w].seal] \in mistaken
        BY <4>2, <4>3 DEF Safe, TagOK
      <4>5. Settled(job[w].seal)
        BY <4>1, <4>4 DEF Safe, HeldOK, Settled
      <4>6. SettledNext(job[w].seal)
        BY <2>1, <4>5, SettledStays
      <4> QED
        BY <1>17, <2>1, <3>3, <4>6, JobGoesOn DEF SyncStat, TypeOK, Jobs
    <3> QED
      BY <1>17, <3>1, <3>2, <3>3 DEF SyncStat, End, TypeOK
  <2>3. ASSUME NEW v \in Workers, v # w PROVE JobOK(v)'
    BY <1>17, <2>1, <2>3, Frame DEF SyncStat, End, TypeOK
  <2> QED
    BY <1>17, <2>1, <2>2, <2>3, Frame DEF SyncStat, Kept
<1>18. ASSUME NEW w \in Workers, Forward(w) PROVE Kept'
  <2>1. /\ Grows /\ ServerHoldsWholeStreams' /\ HeldOK' /\ TagOK' /\ NoMistakes'
        /\ SettledNext(Sent(w).seal)
    BY <1>18, BusySends, SentFits, StoreKeeps DEF Forward
  <2>2. JobOK(w)'
    <3>1. Sent(w).seal = job[w].seal
      BY DEF Sent
    <3>3. /\ job'[w].seal = job[w].seal /\ job'[w].name = job[w].name
          /\ job'[w].body = job[w].body /\ job'[w].usable = job[w].usable
      BY <1>18 DEF Forward, TypeOK, Jobs
    <3>4. job[w].pc \notin {"idle", "hung"}
      BY <1>18 DEF Forward
    <3> QED
      BY <2>1, <3>1, <3>3, <3>4, JobGoesOn
  <2>3. ASSUME NEW v \in Workers, v # w PROVE JobOK(v)'
    BY <1>18, <2>1, <2>3, Frame DEF Forward, TypeOK
  <2> QED
    BY <1>18, <2>1, <2>2, <2>3, Frame DEF Forward, Kept
<1>19. ASSUME NEW w \in Workers, Release(w) PROVE Kept'
  <2>1. Grows
    BY <1>19, SameGrows DEF Release
  <2>2. JobOK(w)'
    <3>1. /\ job'[w].seal = job[w].seal /\ job'[w].name = job[w].name
          /\ job'[w].body = job[w].body /\ job'[w].usable = job[w].usable
      BY <1>19 DEF Release, TypeOK, Jobs
    <3>2. job[w].pc \notin {"idle", "hung"} /\ SettledNext(job[w].seal)
      BY <1>19, <2>1, SettledStays DEF Release, Safe, JobOK
    <3> QED
      BY <2>1, <3>1, <3>2, JobGoesOn
  <2>3. ASSUME NEW v \in Workers, v # w PROVE JobOK(v)'
    BY <1>19, <2>1, <2>3, Frame DEF Release, TypeOK
  <2>4. Settled(job[w].seal)
    BY <1>19 DEF Release, Safe, JobOK
  <2>5. \A c \in Seals \X Indices :
          chunk'[c] = "released" => chunk[c] = "released" \/ c[1] = job[w].seal
    BY <1>19 DEF Release, TypeOK
  <2>6. ReleasedOnlyAfterHeld'
    BY <2>1, <2>4, <2>5, SettledStays DEF Safe, ReleasedOnlyAfterHeld, Settled, SettledNext
  <2> QED
    BY <1>19, <2>1, <2>2, <2>3, <2>6, Frame DEF Release, Kept
<1>20. ASSUME NEW w \in Workers, RemoveRecord(w) PROVE Kept'
  <2>1. Grows
    BY <1>20, SameGrows DEF RemoveRecord
  <2>2. \A v \in Workers : job'[v] \in {job[v], Idle}
    BY <1>20 DEF RemoveRecord, End, TypeOK
  <2>3. ASSUME NEW n \in Names PROVE RecordOK(n)'
    <3>1. manifest'[n] = manifest[n] \/ manifest'[n].state = "none"
      BY <1>20 DEF RemoveRecord, NoRecord, TypeOK
    <3> QED
      BY <2>1, <3>1, Frame DEF RecordOK
  <2> QED
    BY <1>20, <2>1, <2>2, <2>3, Frame DEF RemoveRecord, Kept
<1>21. ASSUME NEW c \in Seals \X Indices, Damage(c) PROVE Kept'
  <2>1. Grows
    BY <1>21, SameGrows DEF Damage
  <2>2. \A d \in Seals \X Indices : chunk'[d] = "released" => chunk[d] = "released"
    BY <1>21 DEF Damage, TypeOK
  <2>3. ReleasedOnlyAfterHeld'
    BY <2>1, <2>2, SettledStays DEF Safe, ReleasedOnlyAfterHeld, Settled, SettledNext
  <2> QED
    BY <1>21, <2>1, <2>3, Frame DEF Damage, Kept
<1>22. CASE ServerDown
  <2>1. Grows
    BY <1>22, SameGrows DEF ServerDown
  <2>2. \A v \in Workers : job'[v] \in {job[v], Idle}
    BY <1>22 DEF ServerDown
  <2>3. LateOK'
    <3>1. late' \subseteq late \cup {Sent(v) : v \in {u \in Workers : job[u].pc \in {"put", "forward"}}}
      BY <1>22 DEF ServerDown
    <3> QED
      BY <1>22, <2>1, <3>1, AbandonKeeps DEF ServerDown
  <2> QED
    BY <1>22, <2>1, <2>2, <2>3, Frame DEF ServerDown, Kept
<1>23. CASE ServerReturns
  <2>1. Grows
    BY <1>23, SameGrows DEF ServerReturns
  <2> QED
    BY <1>23, <2>1, Frame DEF ServerReturns, Kept
<1>24. CASE UNCHANGED vars
  <2>1. Grows
    BY <1>24, SameGrows DEF vars
  <2> QED
    BY <1>24, <2>1, Frame DEF vars, Kept
<1>25. ASSUME NEW w \in Workers, Hang(w) PROVE Kept'
  <2>1. Grows
    BY <1>25, SameGrows DEF Hang
  <2>2. \A v \in Workers : job'[v] \in {job[v], Stuck}
    BY <1>25 DEF Hang, TypeOK
  <2>3. LateOK'
    BY <1>25, <2>1, AbandonKeeps DEF Hang, AbandonPut
  <2> QED
    BY <1>25, <2>1, <2>2, <2>3, Frame DEF Hang, Kept
<1> QED
  BY <1>1, <1>2, <1>3, <1>4, <1>5, <1>6, <1>7, <1>8, <1>9, <1>10, <1>11, <1>12,
     <1>13, <1>14, <1>15, <1>16, <1>17, <1>18, <1>19, <1>20, <1>21, <1>22, <1>23,
     <1>24, <1>25 DEF Next, Proceed

-----------------------------------------------------------------------------
(* The theorems of the specification *)

\* Safe holds before any file has been sealed.
THEOREM SafeInit == Init => Safe
<1> SUFFICES ASSUME Init PROVE Safe
  OBVIOUS
<1>1. TypeOK
  BY TypeInit
<1>2. \A w \in Workers : JobOK(w)
  BY DEF Init, JobOK, Idle
<1>3. \A n \in Names : RecordOK(n)
  BY DEF Init, RecordOK, NoRecord
<1>4. LateOK /\ HeldOK /\ TagOK /\ NoMistakes
  BY SizesAssumption DEF Init, LateOK, HeldOK, TagOK, NoMistakes, Fits, NoFile
<1>5. ServerHoldsWholeStreams /\ ReleasedOnlyAfterHeld
  BY DEF Init, ServerHoldsWholeStreams, ReleasedOnlyAfterHeld, NoFile
<1> QED
  BY <1>1, <1>2, <1>3, <1>4, <1>5 DEF Safe

\* Safe is inductive, so it holds in every state the client can reach.
THEOREM SafeAlways == Spec => []Safe
<1>1. Safe /\ [Next]_vars => Safe'
  BY TypeStep, KeptStep DEF Kept, Safe
<1> QED
  BY SafeInit, <1>1, PTL DEF Spec

\* Every variable keeps its type, for any number of files, processes and shards.
THEOREM TypeCorrect == Spec => []TypeOK
<1>1. Safe => TypeOK
  BY DEF Safe
<1> QED
  BY SafeAlways, <1>1, PTL

\* release_shards deletes a shard only for a content the server has held since
\* it was sealed, or has taken another for, however the processes sharing the
\* workspace interleave.
THEOREM ReleaseIsSafe == Spec => []ReleasedOnlyAfterHeld
<1>1. Safe => ReleasedOnlyAfterHeld
  BY DEF Safe
<1> QED
  BY SafeAlways, <1>1, PTL

\* Nothing is taken for another content, and so every shard is released for one
\* the server has held, unless the server failed to write a tag or a rebuilt
\* stream met a full disk (session.cpp:265, shardfile.cpp:164).
THEOREM ReleaseIsExact ==
  ASSUME Budget["untagged"] = 0, Budget["disk"] = 0
  PROVE  Spec => [](\A c \in Seals \X Indices : chunk[c] = "released" => c[1] \in held)
<1>1. Safe => \A c \in Seals \X Indices : chunk[c] = "released" => c[1] \in held
  <2> SUFFICES ASSUME Safe, NEW c \in Seals \X Indices, chunk[c] = "released"
               PROVE  c[1] \in held
    OBVIOUS
  <2>1. left["untagged"] = 0 /\ left["disk"] = 0
    BY DEF Safe, TypeOK, NoMistakes, Hazards
  <2>2. mistaken = {}
    BY <2>1 DEF Safe, NoMistakes, Hazards
  <2> QED
    BY <2>2 DEF Safe, ReleasedOnlyAfterHeld, Settled
<1> QED
  BY SafeAlways, <1>1, PTL

\* No corrupted shard ever reaches the server, no stream is filed there under
\* another name, and one that is cut short met a full disk.
THEOREM ServerIsSound == Spec => []ServerHoldsWholeStreams
<1>1. Safe => ServerHoldsWholeStreams
  BY DEF Safe
<1> QED
  BY SafeAlways, <1>1, PTL

-----------------------------------------------------------------------------
(* Pending records: one goes away only for content the server has settled.  *)

\* Only a sync that is done releasing takes a record away, and what it released
\* the server has held.
LEMMA RemovalStep ==
  ASSUME Safe, [Next]_vars, NEW n \in Names,
         manifest[n].state = "full", manifest'[n].state = "none"
  PROVE  \/ Settled(manifest[n].seal)
         \/ \E w \in Workers : /\ job[w].pc = "release" /\ job[w].name = n
                               /\ job[w].seal # manifest[n].seal
<1>1. PICK w \in Workers : RemoveRecord(w)
  <2>1. manifest' # manifest
    OBVIOUS
  <2>2. ASSUME NEW w \in Workers, RecordPending(w) \/ TearRecord(w) PROVE FALSE
    <3>1. \E record \in [state : {"full", "torn"}, seal : 0 .. MaxSeals, refs : SUBSET Indices] :
             manifest' = [manifest EXCEPT ![job[w].name] = record]
      <4>1. job[w].seal \in 0 .. MaxSeals /\ job[w].refs \in SUBSET Indices
        BY DEF Safe, TypeOK, Jobs
      <4> QED
        BY <2>2, <4>1, SizesAssumption DEF RecordPending, TearRecord
    <3>2. manifest'[n] = manifest[n] \/ manifest'[n].state \in {"full", "torn"}
      BY <3>1 DEF Safe, TypeOK
    <3> QED
      BY <3>2
  <2> QED
    BY <2>1, <2>2 DEF Next, vars, SealUpload, Delete, BeginSync, Proceed, Crash, Hang,
       LateStore, Damage, ServerDown, ServerReturns, ProbeAnswered, ProbeUnanswered,
       UploadStat, UploadPut, PutFails, Place, TooFewPlaced, Fetch, Rebuild, SyncStat,
       Forward, Release
<1>2. job[w].pc = "release" /\ job[w].name = n
  BY <1>1 DEF RemoveRecord, Safe, TypeOK
<1>3. Settled(job[w].seal)
  BY <1>2 DEF Safe, JobOK
<1> QED
  BY <1>2, <1>3

\* sync.cpp:77-82: a pending record only goes away when the server has held the
\* content it stands for or taken another for it, or when another process wrote
\* it during the sync.
THEOREM RemovalIsSafe == Spec => RemovedOnlyAfterHeld
<1>1. Safe /\ [Next]_vars =>
        [\A n \in Names :
           manifest[n].state = "full" /\ manifest'[n].state = "none" =>
             \/ Settled(manifest[n].seal)
             \/ \E w \in Workers : job[w].pc = "release" /\ job[w].name = n
                                  /\ job[w].seal # manifest[n].seal]_vars
  BY RemovalStep
<1> QED
  BY <1>1, SafeAlways, PTL DEF Spec, RemovedOnlyAfterHeld

-----------------------------------------------------------------------------
(* What a pending record is worth *)

\* A record that names enough shards, of content not yet settled, names shards
\* that were placed and not released.
LEMMA StandingRecovers ==
  ASSUME Standing, NEW n \in Names, manifest[n].state = "full", ~Settled(manifest[n].seal)
  PROVE  Recoverable(manifest[n])
<1> DEFINE refs == manifest[n].refs
           s == manifest[n].seal
           standing == {i \in refs : chunk[<<s, i>>] \in {"intact", "damaged", "lost"}}
<1>1. refs \in SUBSET Indices /\ s \in Seals
  BY SizesAssumption DEF Standing, Safe, TypeOK, Records, RecordOK, Seals
<1>2. ASSUME NEW i \in refs PROVE chunk[<<s, i>>] \in {"intact", "damaged", "lost"}
  <2>1. chunk[<<s, i>>] \in ChunkState /\ chunk[<<s, i>>] # "absent"
    BY <1>1 DEF Standing, ShardsOK, Safe, TypeOK
  <2>2. chunk[<<s, i>>] # "released"
    BY <1>1 DEF Standing, Safe, ReleasedOnlyAfterHeld
  <2> QED
    BY <2>1, <2>2 DEF ChunkState
<1>3. standing = refs
  BY <1>2
<1>4. Cardinality(refs) >= DataShards
  BY DEF Standing, ShardsOK
<1> QED
  BY <1>3, <1>4 DEF Recoverable

-----------------------------------------------------------------------------
(* Why no step leads out of Standing *)

\* A shard that has reached a peer is never again one that has not.
Reached == \A c \in Seals \X Indices : chunk[c] # "absent" => chunk'[c] # "absent"

\* Every step leaves a shard that was placed with its peer, or notes that it went.
LEMMA ReachedStep == Safe /\ [Next]_vars => Reached
<1> SUFFICES ASSUME Safe, [Next]_vars PROVE Reached
  OBVIOUS
<1>t. chunk \in [Seals \X Indices -> ChunkState]
  BY DEF Safe, TypeOK
<1>1. CASE chunk' = chunk
  BY <1>1 DEF Reached
<1>2. ASSUME NEW w \in Workers, Place(w) \/ Release(w) PROVE Reached
  <2>1. \A c \in Seals \X Indices : chunk'[c] \in {chunk[c], "intact", "released"}
    BY <1>t, <1>2 DEF Place, Release
  <2> QED
    BY <2>1 DEF Reached
<1>3. ASSUME NEW c \in Seals \X Indices, Damage(c) PROVE Reached
  <2>1. \A d \in Seals \X Indices : chunk'[d] \in {chunk[d], "damaged", "lost"}
    BY <1>t, <1>3 DEF Damage
  <2> QED
    BY <2>1 DEF Reached
<1> QED
  BY <1>1, <1>2, <1>3 DEF Next, vars, SealUpload, Delete, BeginSync, Proceed, Crash, Hang,
     LateStore, ServerDown, ServerReturns, ProbeAnswered, ProbeUnanswered, UploadStat,
     UploadPut, PutFails, TooFewPlaced, RecordPending, TearRecord, Fetch, Rebuild, SyncStat,
     Forward, RemoveRecord

\* A job that is not placing shards has nothing to keep, and one that is keeps
\* what it noted.
LEMMA PlacedKeeps ==
  ASSUME Standing, Reached, NEW v \in Workers,
         \/ job'[v] = job[v]
         \/ job'[v].pc \notin {"probe", "place"}
         \/ job'[v].refs = {}
         \/ /\ job[v].pc \in {"probe", "place"}
            /\ job'[v].refs = job[v].refs /\ job'[v].seal = job[v].seal
  PROVE  PlacedOK(v)'
<1>1. CASE job'[v].pc \in {"probe", "place"} /\ job'[v].refs # {}
  <2>1. job'[v].refs = job[v].refs /\ job'[v].seal = job[v].seal /\ job[v].pc \in {"probe", "place"}
    BY <1>1
  <2>2. job[v].refs \in SUBSET Indices /\ job[v].seal \in Seals
    <3>1. job[v].seal \in 1 .. Len(sealed)
      BY <2>1, BusySends DEF Standing
    <3> QED
      BY <3>1, SizesAssumption DEF Standing, Safe, TypeOK, Jobs, Seals
  <2> QED
    BY <2>1, <2>2 DEF Standing, PlacedOK, Reached
<1> QED
  BY <1>1 DEF PlacedOK

\* Records that are not rewritten go on naming shards that reached a peer.
LEMMA ShardsKeep ==
  ASSUME Standing, Reached, NEW n \in Names,
         manifest'[n] = manifest[n] \/ manifest'[n].state # "full"
  PROVE  ShardsOK(n)'
<1>1. CASE manifest[n].state = "full" /\ manifest'[n] = manifest[n]
  <2>1. manifest[n].refs \in SUBSET Indices /\ manifest[n].seal \in Seals
    BY <1>1, SizesAssumption DEF Standing, Safe, TypeOK, Records, RecordOK, Seals
  <2> QED
    BY <1>1, <2>1 DEF Standing, ShardsOK, Reached
<1> QED
  BY <1>1 DEF ShardsOK

\* What a step of one worker may do to its job without noting a shard.
Quiet(w) ==
  \/ job'[w].pc \notin {"probe", "place"}
  \/ job'[w].refs = {}
  \/ /\ job[w].pc \in {"probe", "place"}
     /\ job'[w].refs = job[w].refs /\ job'[w].seal = job[w].seal

\* No step of a worker but placing lets it note a shard.
LEMMA JobQuiet ==
  ASSUME TypeOK, NEW w \in Workers,
         \/ ProbeAnswered(w) \/ ProbeUnanswered(w)
         \/ UploadStat(w) \/ UploadPut(w) \/ PutFails(w)
         \/ TooFewPlaced(w) \/ RecordPending(w) \/ TearRecord(w)
         \/ Fetch(w) \/ Rebuild(w) \/ SyncStat(w) \/ Forward(w)
         \/ Release(w) \/ RemoveRecord(w) \/ Crash(w) \/ Hang(w)
  PROVE  Quiet(w) /\ \A v \in Workers : v # w => job'[v] = job[v]
<1>1. Idle.pc = "idle" /\ Stuck.pc = "hung"
  BY StuckIsAJob DEF Idle
<1>2. ASSUME End(w) PROVE Quiet(w) /\ \A v \in Workers : v # w => job'[v] = job[v]
  BY <1>1, <1>2 DEF End, TypeOK, Quiet
<1>3. CASE ProbeAnswered(w)
  BY <1>3 DEF ProbeAnswered, TypeOK, Quiet, Jobs
<1>4. CASE ProbeUnanswered(w)
  BY <1>2, <1>4 DEF ProbeUnanswered, TypeOK, Quiet, Jobs
<1>5. CASE UploadStat(w)
  BY <1>2, <1>5 DEF UploadStat, TypeOK, Quiet, Jobs
<1>6. CASE UploadPut(w) \/ PutFails(w) \/ TooFewPlaced(w) \/ RecordPending(w)
           \/ TearRecord(w) \/ RemoveRecord(w) \/ Crash(w)
  BY <1>2, <1>6 DEF UploadPut, PutFails, TooFewPlaced, RecordPending, TearRecord,
     RemoveRecord, Crash
<1>7. CASE Fetch(w)
  <2>1. job[w].pc = "fetch" /\ job'[w].pc = job[w].pc
    BY <1>7 DEF Fetch, TypeOK, Jobs
  <2> QED
    BY <1>7, <2>1 DEF Fetch, TypeOK, Quiet
<1>8. CASE Rebuild(w)
  <2>1. \/ End(w)
        \/ \E kind \in Bodies :
             job' = [job EXCEPT ![w].pc = "check", ![w].usable = {}, ![w].body = kind]
    BY <1>8 DEF Rebuild, Bodies
  <2> QED
    BY <1>2, <2>1 DEF TypeOK, Quiet, Jobs
<1>9. CASE SyncStat(w)
  BY <1>2, <1>9 DEF SyncStat, TypeOK, Quiet, Jobs
<1>10. CASE Forward(w)
  BY <1>10 DEF Forward, TypeOK, Quiet, Jobs
<1>11. CASE Release(w)
  <2>1. job[w].pc = "release" /\ job'[w].pc = job[w].pc
    BY <1>11 DEF Release, TypeOK, Jobs
  <2> QED
    BY <1>11, <2>1 DEF Release, TypeOK, Quiet
<1>12. CASE Hang(w)
  BY <1>1, <1>12 DEF Hang, TypeOK, Quiet
<1> QED
  BY <1>3, <1>4, <1>5, <1>6, <1>7, <1>8, <1>9, <1>10, <1>11, <1>12

\* What an upload notes for its record has reached a peer: only placing a shard
\* adds to the note.
LEMMA PlacedStep == Standing /\ [Next]_vars => \A v \in Workers : PlacedOK(v)'
<1> SUFFICES ASSUME Standing, [Next]_vars, NEW v \in Workers PROVE PlacedOK(v)'
  OBVIOUS
<1>t. TypeOK /\ Reached
  BY ReachedStep DEF Standing, Safe
<1>1. CASE job'[v] = job[v]
  BY <1>t, <1>1, PlacedKeeps
<1>2. ASSUME NEW w \in Workers,
             \/ ProbeAnswered(w) \/ ProbeUnanswered(w)
             \/ UploadStat(w) \/ UploadPut(w) \/ PutFails(w)
             \/ TooFewPlaced(w) \/ RecordPending(w) \/ TearRecord(w)
             \/ Fetch(w) \/ Rebuild(w) \/ SyncStat(w) \/ Forward(w)
             \/ Release(w) \/ RemoveRecord(w) \/ Crash(w) \/ Hang(w)
      PROVE  PlacedOK(v)'
  BY <1>t, <1>2, JobQuiet, PlacedKeeps DEF Quiet
<1>3. ASSUME NEW w \in Workers, Place(w) PROVE PlacedOK(v)'
  <2>1. PICK i \in Indices :
          \/ /\ chunk' = [chunk EXCEPT ![<<job[w].seal, i>>] = "intact"]
             /\ job' = [job EXCEPT ![w].todo = job[w].todo \ {i}, ![w].refs = @ \cup {i}]
          \/ job' = [job EXCEPT ![w].todo = job[w].todo \ {i}]
    BY <1>3 DEF Place
  <2>2. CASE v # w
    BY <1>t, <2>1, <2>2, <1>1 DEF TypeOK
  <2>3. CASE v = w
    <3>1. job[w].pc = "place" /\ job[w].seal \in Seals /\ job[w].refs \in SUBSET Indices
      <4>1. job[w].pc = "place" /\ job[w].seal \in 1 .. Len(sealed)
        BY <1>3, BusySends DEF Standing, Place
      <4> QED
        BY <4>1, SizesAssumption DEF Standing, Safe, TypeOK, Jobs, Seals
    <3>2. job'[w].seal = job[w].seal
      BY <1>t, <2>1 DEF TypeOK, Jobs
    <3>3. \/ job'[w].refs = job[w].refs
          \/ /\ job'[w].refs = job[w].refs \cup {i}
             /\ chunk'[<<job[w].seal, i>>] = "intact"
      BY <1>t, <2>1, <3>1 DEF TypeOK, Jobs
    <3>4. \A j \in job[w].refs : chunk'[<<job[w].seal, j>>] # "absent"
      BY <1>t, <3>1 DEF Standing, PlacedOK, Reached
    <3> QED
      BY <2>3, <3>2, <3>3, <3>4 DEF PlacedOK
  <2> QED
    BY <2>2, <2>3
<1>4. ASSUME NEW w \in Workers,
             \/ \E n \in Names, t \in Tags : SealUpload(w, n, t)
             \/ \E n \in Names : BeginSync(w, n)
      PROVE  PlacedOK(v)'
  <2>1. ASSUME NEW n \in Names, NEW t \in Tags, SealUpload(w, n, t)
        PROVE  job'[w].refs = {} /\ (v # w => job'[v] = job[v])
    BY <1>t, <2>1 DEF SealUpload, TypeOK, Idle
  <2>2. ASSUME NEW n \in Names, BeginSync(w, n)
        PROVE  job'[w].pc = "fetch" /\ (v # w => job'[v] = job[v])
    BY <1>t, <2>2 DEF BeginSync, TypeOK
  <2> QED
    BY <1>t, <1>4, <2>1, <2>2, PlacedKeeps
<1>5. CASE ServerDown
  <2>1. job'[v] \in {job[v], Idle}
    BY <1>5 DEF ServerDown
  <2> QED
    BY <1>t, <2>1, PlacedKeeps DEF Idle
<1>6. ASSUME NEW w \in Workers, Proceed(w) \/ Crash(w) \/ Hang(w) PROVE PlacedOK(v)'
  BY <1>2, <1>3, <1>6 DEF Proceed
<1>7. ASSUME \/ UNCHANGED vars \/ ServerReturns
             \/ \E w \in Uploaders, n \in Names : Delete(w, n)
             \/ \E request \in late : LateStore(request)
             \/ \E c \in Seals \X Indices : Damage(c)
      PROVE  PlacedOK(v)'
  <2>1. job' = job
    BY <1>7 DEF vars, ServerReturns, Delete, LateStore, Damage
  <2> QED
    BY <1>1, <2>1
<1> QED
  BY <1>4, <1>5, <1>6, <1>7 DEF Next, Workers

\* A record is written only with enough shards that were noted.
LEMMA ShardsStep == Standing /\ [Next]_vars => \A n \in Names : ShardsOK(n)'
<1> SUFFICES ASSUME Standing, [Next]_vars, NEW n \in Names PROVE ShardsOK(n)'
  OBVIOUS
<1>t. TypeOK /\ Reached
  BY ReachedStep DEF Standing, Safe
<1>1. CASE manifest'[n] = manifest[n] \/ manifest'[n].state # "full"
  BY <1>t, <1>1, ShardsKeep
<1>2. ASSUME NEW w \in Workers, RecordPending(w) PROVE ShardsOK(n)'
  <2>1. CASE n = job[w].name
    <3>1. /\ manifest'[n] = [state |-> "full", seal |-> job[w].seal, refs |-> job[w].refs]
          /\ chunk' = chunk
      BY <1>t, <1>2, <2>1 DEF RecordPending, TypeOK
    <3>2. Cardinality(job[w].refs) >= DataShards /\ job[w].pc = "place"
      BY <1>2 DEF RecordPending, ReadyToRecord
    <3> QED
      BY <3>1, <3>2 DEF ShardsOK, Standing, PlacedOK
  <2>2. CASE n # job[w].name
    BY <1>t, <1>1, <1>2, <2>2 DEF RecordPending, TypeOK
  <2> QED
    BY <2>1, <2>2
<1>3. ASSUME NEW w \in Workers, TearRecord(w) \/ RemoveRecord(w) PROVE ShardsOK(n)'
  BY <1>t, <1>1, <1>3 DEF TearRecord, RemoveRecord, NoRecord, TypeOK
<1>4. CASE manifest' = manifest
  BY <1>1, <1>4
<1> QED
  BY <1>2, <1>3, <1>4 DEF Next, vars, SealUpload, Delete, BeginSync, Proceed, Crash, Hang,
     LateStore, Damage, ServerDown, ServerReturns, ProbeAnswered, ProbeUnanswered, UploadStat,
     UploadPut, PutFails, Place, TooFewPlaced, Fetch, Rebuild, SyncStat, Forward, Release

\* The inductive invariant of the peers' shards (upload.cpp:101-142): what is
\* noted has been placed, and stays until the server has settled its content.
THEOREM StandingAlways == Spec => []Standing
<1>1. Init => Standing
  BY SafeInit DEF Init, Standing, PlacedOK, ShardsOK, Idle, NoRecord
<1>2. Standing /\ [Next]_vars /\ Safe' => Standing'
  BY PlacedStep, ShardsStep DEF Standing
<1> QED
  BY <1>1, <1>2, SafeAlways, PTL DEF Spec

\* A record is no false promise (upload.cpp:135-142): until the server has settled
\* its content, the client leaves it enough shards to be rebuilt from, for every
\* number of data and parity shards.
THEOREM PendingStands == Spec => []PendingIsRecoverable
<1>1. Standing => PendingIsRecoverable
  BY StandingRecovers DEF PendingIsRecoverable
<1> QED
  BY <1>1, StandingAlways, PTL

-----------------------------------------------------------------------------
(* What an upload that reported success stays good for *)

\* While nothing is deleted, the server keeps some content of every name it has
\* held or mistaken content of, so that a record a sync takes away is not missed.
Stays ==
  /\ held \subseteq 1 .. Len(sealed)
  /\ left["delete"] = Budget["delete"] =>
       /\ \A s \in held : server[sealed[s].name].seal # 0
       /\ \A v \in mistaken : server[v.name].seal # 0
       /\ \A n \in acked : server[n].seal # 0 \/ manifest[n].state # "none"

\* What a step must respect for Stays to go on.
LEMMA StaysOn ==
  ASSUME Safe, Stays, Grows, held' \subseteq 1 .. Len(sealed'), acked \subseteq Names,
         \A n \in Names : server[n].seal # 0 => server'[n].seal # 0,
         \A s \in held' : s \in held \/ server'[sealed'[s].name].seal # 0,
         \A v \in mistaken' : v \in mistaken \/ server'[v.name].seal # 0,
         \A n \in acked' : n \in acked \/ server'[n].seal # 0 \/ manifest'[n].state # "none",
         left["delete"] = Budget["delete"] =>
           \A n \in Names : manifest[n].state # "none" =>
             manifest'[n].state # "none" \/ server[n].seal # 0
  PROVE  Stays'
<1>1. left'["delete"] = Budget["delete"] => left["delete"] = Budget["delete"]
  <2>1. /\ left["delete"] \in Nat /\ Budget["delete"] \in Nat /\ left["delete"] <= Budget["delete"]
        /\ left'["delete"] \in Nat /\ left'["delete"] <= left["delete"]
    BY SizesAssumption DEF Safe, TypeOK, NoMistakes, Grows, Hazards
  <2> QED
    BY <2>1
<1>2. ASSUME left["delete"] = Budget["delete"]
      PROVE  /\ \A s \in held' : server'[sealed'[s].name].seal # 0
             /\ \A v \in mistaken' : server'[v.name].seal # 0
             /\ \A n \in acked' : server'[n].seal # 0 \/ manifest'[n].state # "none"
  <2>1. ASSUME NEW s \in held PROVE server'[sealed'[s].name].seal # 0
    <3>1. s \in 1 .. Len(sealed) /\ sealed'[s] = sealed[s]
      BY DEF Stays, Grows
    <3>2. sealed[s].name \in Names
      BY <3>1, SealedTypes DEF Safe
    <3> QED
      BY <1>2, <3>1, <3>2 DEF Stays
  <2>2. ASSUME NEW v \in mistaken PROVE server'[v.name].seal # 0
    <3>1. v.name \in Names
      BY DEF Safe, TypeOK, Versions
    <3> QED
      BY <1>2, <3>1 DEF Stays
  <2>3. ASSUME NEW n \in acked PROVE server'[n].seal # 0 \/ manifest'[n].state # "none"
    BY <1>2 DEF Stays
  <2> QED
    BY <2>1, <2>2, <2>3
<1> QED
  BY <1>1, <1>2 DEF Stays

\* A settled content leaves something of its name at the server.
LEMMA SettledIsThere ==
  ASSUME Stays, left["delete"] = Budget["delete"], NEW s, Settled(s)
  PROVE  server[sealed[s].name].seal # 0
BY DEF Stays, Settled

\* A stream that is stored is there from then on.
LEMMA StaysStored ==
  ASSUME Safe, Stays, Grows, NEW request \in Requests, Store(request),
         UNCHANGED <<sealed, manifest>>, request.seal <= Len(sealed),
         sealed[request.seal].name = request.name, acked' \subseteq acked \cup {request.name}
  PROVE  Stays'
<1>1. /\ request.name \in Names /\ request.seal \in 1 .. Len(sealed)
      /\ server \in [Names -> Streams] /\ acked \subseteq Names
  BY SizesAssumption DEF Requests, Seals, Safe, TypeOK
<1>2. /\ server'[request.name].seal # 0
      /\ \A n \in Names : server[n].seal # 0 => server'[n].seal # 0
  BY <1>1 DEF Store
<1>3. /\ \A s \in held' : s \in 1 .. Len(sealed) /\ (s \in held \/ sealed[s] = sealed[request.seal])
      /\ \A v \in mistaken' : v \in mistaken \/ v.name = request.name
  BY DEF Stays, Store
<1> QED
  BY <1>1, <1>2, <1>3, StaysOn

LEMMA StaysStep == Safe /\ Stays /\ [Next]_vars => Stays'
<1> SUFFICES ASSUME Safe, Stays, [Next]_vars PROVE Stays'
  OBVIOUS
<1>1. TypeOK /\ acked \subseteq Names /\ held \subseteq 1 .. Len(sealed)
  BY DEF Safe, TypeOK, Stays
<1>2. ASSUME UNCHANGED <<server, held, mistaken, sealed, manifest>>,
             \A n \in acked' : n \in acked \/ server[n].seal # 0
      PROVE  Stays'
  BY <1>1, <1>2, SameGrows, StaysOn
<1>3. ASSUME NEW w \in Uploaders, NEW n \in Names, NEW t \in Tags, SealUpload(w, n, t)
      PROVE  Stays'
  <2>1. /\ Len(sealed) \in Nat /\ UNCHANGED <<server, manifest, acked, mistaken>>
        /\ Len(sealed') = Len(sealed) + 1
        /\ sealed'[Len(sealed) + 1] = [name |-> n, tag |-> t]
        /\ \A s \in 1 .. Len(sealed) : sealed'[s] = sealed[s]
        /\ held' = IF Fits(server[n], [name |-> n, tag |-> t])
                     THEN held \cup {Len(sealed) + 1} ELSE held
    BY <1>1, <1>3 DEF SealUpload, TypeOK, Versions
  <2>2. Grows
    BY <1>1, <2>1, SpentStep DEF Grows
  <2>3. held' \subseteq 1 .. Len(sealed')
    <3>1. 1 .. Len(sealed) \subseteq 1 .. Len(sealed') /\ Len(sealed) + 1 \in 1 .. Len(sealed')
      BY <2>1
    <3>2. held' \subseteq held \cup {Len(sealed) + 1}
      BY <2>1
    <3> QED BY <1>1, <3>1, <3>2
  <2>4. \A s \in held' : s \in held \/ server'[sealed'[s].name].seal # 0
    BY <2>1 DEF Fits
  <2> QED BY <1>1, <2>1, <2>2, <2>3, <2>4, StaysOn
<1>4. ASSUME NEW w \in Workers, Proceed(w) PROVE Stays'
  <2>1. CASE ProbeAnswered(w) \/ ProbeUnanswered(w) \/ PutFails(w) \/ Place(w) \/ TooFewPlaced(w)
             \/ Fetch(w) \/ Rebuild(w) \/ SyncStat(w) \/ Release(w)
    BY <1>2, <2>1 DEF ProbeAnswered, ProbeUnanswered, PutFails, Place, TooFewPlaced, Fetch,
       Rebuild, SyncStat, Release, history
  <2>2. CASE UploadStat(w)
    <3>1. /\ UNCHANGED <<server, held, mistaken, sealed, manifest>>
          /\ acked' = acked \/ (Identical(w) /\ acked' = acked \cup {job[w].name})
      BY <2>2 DEF UploadStat, history
    <3> QED BY <1>2, <3>1 DEF Identical
  <2>3. ASSUME job[w].pc \notin {"idle", "hung"}, Store(Sent(w)), UNCHANGED <<sealed, manifest>>,
               acked' \subseteq acked \cup {job[w].name}
        PROVE  Stays'
    <3>1. /\ Sent(w) \in Requests /\ Sent(w).seal <= Len(sealed) /\ BodyOK(Sent(w).body)
          /\ sealed[Sent(w).seal].name = Sent(w).name /\ Sent(w).name = job[w].name
      BY <2>3, BusySends, SentFits DEF Sent
    <3> HIDE DEF Sent
    <3>2. Grows
      BY <2>3, <3>1, StoreKeeps
    <3> QED BY <2>3, <3>1, <3>2, StaysStored
  <2>4. CASE UploadPut(w)
    BY <2>3, <2>4 DEF UploadPut
  <2>5. CASE Forward(w)
    BY <2>3, <2>5 DEF Forward
  <2>6. ASSUME UNCHANGED <<server, held, mistaken, sealed>>, NEW record \in Records,
               manifest' = [manifest EXCEPT ![job[w].name] = record],
               acked' \subseteq acked \cup {job[w].name}, record.state = "none" => acked' = acked,
               left["delete"] = Budget["delete"] /\ record.state = "none"
                 => server[job[w].name].seal # 0
        PROVE  Stays'
    <3>1. Grows /\ job[w].name \in Names /\ manifest \in [Names -> Records]
      BY <1>1, <2>6, SameGrows DEF TypeOK, Jobs
    <3>2. /\ manifest'[job[w].name] = record
          /\ \A n \in Names : n # job[w].name => manifest'[n] = manifest[n]
      BY <2>6, <3>1
    <3>3. \A n \in acked' : n \in acked \/ manifest'[n].state # "none"
      BY <2>6, <3>2
    <3>4. left["delete"] = Budget["delete"] =>
            \A n \in Names : manifest[n].state # "none" =>
              manifest'[n].state # "none" \/ server[n].seal # 0
      BY <2>6, <3>2
    <3> QED BY <1>1, <2>6, <3>1, <3>3, <3>4, StaysOn
  <2>7. CASE RecordPending(w)
    <3>1. [state |-> "full", seal |-> job[w].seal, refs |-> job[w].refs] \in Records
      BY <1>1 DEF TypeOK, Jobs, Records
    <3> QED BY <2>6, <2>7, <3>1 DEF RecordPending, history
  <2>8. CASE TearRecord(w)
    <3>1. [state |-> "torn", seal |-> 0, refs |-> {}] \in Records
      BY SizesAssumption DEF Records
    <3> QED BY <2>6, <2>8, <3>1 DEF TearRecord, history
  <2>9. CASE RemoveRecord(w)
    <3>1. NoRecord \in Records
      BY SizesAssumption DEF NoRecord, Records
    <3>2. Settled(job[w].seal) /\ sealed[job[w].seal].name = job[w].name
      BY <2>9 DEF RemoveRecord, Safe, JobOK
    <3>3. left["delete"] = Budget["delete"] => server[job[w].name].seal # 0
      BY <3>2, SettledIsThere
    <3> QED BY <2>6, <2>9, <3>1, <3>3 DEF RemoveRecord, history
  <2> QED BY <1>4, <2>1, <2>2, <2>4, <2>5, <2>7, <2>8, <2>9 DEF Proceed
<1>5. ASSUME NEW request \in late, LateStore(request) PROVE Stays'
  <2>1. /\ request \in Requests /\ request.seal <= Len(sealed) /\ BodyOK(request.body)
        /\ sealed[request.seal].name = request.name
    BY <1>1, <1>5 DEF TypeOK, Safe, LateOK
  <2>2. Store(request) /\ UNCHANGED <<sealed, manifest>> /\ acked' = acked
    BY <1>5 DEF LateStore
  <2>3. Grows
    BY <2>1, <2>2, StoreKeeps
  <2> QED BY <2>1, <2>2, <2>3, StaysStored
<1>6. ASSUME NEW w \in Uploaders, NEW n \in Names, Delete(w, n) PROVE Stays'
  <2>1. Spend("delete") /\ UNCHANGED <<held, sealed>>
    BY <1>6 DEF Delete, history
  <2>2. left["delete"] \in Nat /\ Budget["delete"] \in Nat /\ left["delete"] <= Budget["delete"]
    BY <1>1, SizesAssumption DEF TypeOK, Safe, NoMistakes, Hazards
  <2>3. left'["delete"] = left["delete"] - 1
    BY <1>1, <2>1 DEF Spend, TypeOK, Hazards
  <2> QED BY <1>1, <2>1, <2>2, <2>3 DEF Stays
<1>7. CASE UNCHANGED vars
  BY <1>2, <1>7 DEF vars
<1>8. CASE Next
  <2>1. ASSUME NEW w \in Syncers, NEW n \in Names, BeginSync(w, n) PROVE Stays'
    BY <1>2, <2>1 DEF BeginSync, history
  <2>2. ASSUME NEW w \in Workers, Crash(w) \/ Hang(w) PROVE Stays'
    BY <1>2, <2>2 DEF Crash, Hang, history
  <2>3. ASSUME NEW c \in Seals \X Indices, Damage(c) PROVE Stays'
    BY <1>2, <2>3 DEF Damage, history
  <2>4. ASSUME ServerDown \/ ServerReturns PROVE Stays'
    BY <1>2, <2>4 DEF ServerDown, ServerReturns, history
  <2> QED BY <1>3, <1>4, <1>5, <1>6, <1>8, <2>1, <2>2, <2>3, <2>4 DEF Next
<1> QED BY <1>7, <1>8

\* upload.cpp:135-142, download.cpp:91-123: once an upload has reported success, and while no
\* name has been deleted, the name can be retrieved but for what the peers lose, unless its
\* record was torn: whatever tags are lost, processes killed and disks filled.
THEOREM AckedStays == Spec => []AckedNameRetrievable
<1>1. Init => Stays
  BY DEF Init, Stays
<1>2. Standing /\ Stays => AckedNameRetrievable
  <2> SUFFICES ASSUME Standing, Stays, left["delete"] = Budget["delete"], NEW n \in acked,
                      server[n].seal = 0, manifest[n].state # "torn"
               PROVE  Recoverable(manifest[n])
    BY DEF AckedNameRetrievable
  <2>1. n \in Names /\ manifest[n].state = "full"
    BY DEF Stays, Standing, Safe, TypeOK, Records
  <2>2. sealed[manifest[n].seal].name = n
    BY <2>1 DEF Standing, Safe, RecordOK
  <2>3. ~Settled(manifest[n].seal)
    BY <2>2, SettledIsThere
  <2> QED BY <2>1, <2>3, StandingRecovers
<1> QED BY <1>1, <1>2, StaysStep, SafeAlways, StandingAlways, PTL DEF Spec

=============================================================================

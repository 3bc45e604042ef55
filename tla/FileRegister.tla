---------------------------- MODULE FileRegister ----------------------------
(***************************************************************************)
(* What the server promises of its storage: per key, a register that holds *)
(* nothing or one offered version, content and tag together, and changes   *)
(* in one step.                                                            *)
(***************************************************************************)
CONSTANTS
  Keys,     \* what can be stored
  Versions, \* contents together with their tags
  Absent    \* nothing stored

VARIABLES
  offered,  \* key -> versions some client has begun to upload
  content   \* key -> the version stored

Init ==
  /\ offered = [k \in Keys |-> {}]
  /\ content = [k \in Keys |-> Absent]

Offer(k, v) ==
  /\ offered' = [offered EXCEPT ![k] = @ \cup {v}]
  /\ UNCHANGED content

Publish(k, v) ==
  /\ v \in offered[k]
  /\ content' = [content EXCEPT ![k] = v]
  /\ UNCHANGED offered

Remove(k) ==
  /\ content' = [content EXCEPT ![k] = Absent]
  /\ UNCHANGED offered

Next == \E k \in Keys : Remove(k) \/ \E v \in Versions : Offer(k, v) \/ Publish(k, v)

Spec == Init /\ [][Next]_<<offered, content>>
=============================================================================

--------------------------- MODULE MCServerStore ---------------------------
(***************************************************************************)
(* Small instances of ServerStore and of its refinement of FileRegister.   *)
(***************************************************************************)
EXTENDS StoreRefinement, TLC

NoHazards == [hazard \in Hazards |-> 0]
AnyHazard == [hazard \in Hazards |-> 1]
LostClients == [NoHazards EXCEPT !["drop"] = 1]
DropAndAccount == [LostClients EXCEPT !["account"] = 1]

\* Connections are alike, and so are tags.
Alike == Permutations(Sessions) \cup Permutations(Tags)
=============================================================================

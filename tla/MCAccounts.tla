---------------------------- MODULE MCAccounts ----------------------------
(* A small instance of Accounts. *)
EXTENDS Accounts, TLC

EachHazard == [hazard \in Hazards |-> 1]
Alike == Permutations(Commands) \cup Permutations(Names) \cup Permutations(Passwords)
=============================================================================

---------------------------- MODULE MCWebSession ----------------------------
(* A small instance of WebSession. *)
EXTENDS WebSession, TLC

Alike == Permutations(Calls) \cup Permutations(Users)
=============================================================================

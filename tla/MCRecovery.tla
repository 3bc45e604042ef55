----------------------------- MODULE MCRecovery -----------------------------
(* A small instance of Recovery: masks that set no bit, or a single one.   *)
EXTENDS Recovery

Basis == {{}} \cup {{i} : i \in Bits}
=============================================================================

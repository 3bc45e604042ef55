------------------------------ MODULE MCWatcher ------------------------------
(* A small instance of Watcher. *)
EXTENDS Watcher
=============================================================================

------------------------------ MODULE MCStartup ------------------------------
(* A small instance of Startup: a server that is later given a second name. *)
EXTENDS Startup

Names == {{"localhost"}, {"localhost", "nas"}}
=============================================================================

------------------------------- MODULE MCWire -------------------------------
(* A small instance of Wire: one client that moves bodies, one that does   *)
(* the rest, among them peers that skip the login.                         *)
EXTENDS Wire

Programs ==
  [c \in Conns |->
     IF c = CHOOSE d \in Conns : TRUE
     THEN {Upload, Files(<<"GETFILE">>), Chunks(<<"PUTCHUNK">>), <<"GET", "PUT", "GET">>,
           Silent}
     ELSE {Probe, Upload, Silent, Files(<<"LIST">>), Files(<<"DELFILE">>),
           Chunks(<<"GETCHUNK">>), Chunks(<<"DELCHUNK">>), <<"STAT">>, <<"PUTCHUNK">>}]
=============================================================================

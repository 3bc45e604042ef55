------------------------------ MODULE MCRelay ------------------------------
(***************************************************************************)
(* Small instances of Relay.  The code needs two shards of four; one of    *)
(* two keeps the cases of too few, exactly enough and spare shards, for    *)
(* the runs in which hazards strike.  Each run allows the hazards it is    *)
(* about and no others.                                                    *)
(***************************************************************************)
EXTENDS Relay, TLC

\* Contents are alike.
Contents == Permutations(Tags)

NoHazards == [hazard \in Hazards |-> 0]

\* Everything that can go wrong; a server out of reach is a lost probe, and two more lost
\* requests leave too few shards.
AnyHazard ==
  [[hazard \in Hazards |-> 1] EXCEPT !["fault"] = 3, !["outage"] = 0, !["silence"] = 0]

\* Failures a pending file has to survive on its way to the server.
LiveHazards ==
  [NoHazards EXCEPT !["outage"] = 1, !["fault"] = 1, !["damage"] = 1, !["disk"] = 1,
                    !["silence"] = 1]

OneOutage == [NoHazards EXCEPT !["outage"] = 1]
=============================================================================

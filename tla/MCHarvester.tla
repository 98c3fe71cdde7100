----------------------------- MODULE MCHarvester -----------------------------
(***************************************************************************)
(* The model-checking instance of Harvester: an event, one of another      *)
(* attempt at the same request, and one to be terminated.                  *)
(***************************************************************************)
EXTENDS Harvester

CONSTANTS m1, m2, bad, r1

Requests == [m \in Msgs |-> IF m = bad THEN NoReq ELSE r1]
Times == [m \in Msgs |-> IF m = m2 THEN 2 ELSE 1]

=============================================================================

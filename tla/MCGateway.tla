------------------------------- MODULE MCGateway -------------------------------
(***************************************************************************)
(* The model-checking instance of Gateway: a static gateway with admission *)
(* control and two handlers, and one in kv mode without it and with one.   *)
(***************************************************************************)
EXTENDS Gateway

CONSTANTS q1, q2, t1, t2

Aliased == [org |-> {t1}, _global |-> {t2}]

Deployments == {[iam |-> "static", limit |-> 1, busy |-> {q1, q2}],
                [iam |-> "kv", limit |-> 0, busy |-> {q1}]}

=============================================================================

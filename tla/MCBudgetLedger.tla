---------------------------- MODULE MCBudgetLedger ----------------------------
(***************************************************************************)
(* Model-checking instances of BudgetLedger: one key id, under one hash or *)
(* under two, which makes a rotation.                                      *)
(***************************************************************************)
EXTENDS BudgetLedger

CONSTANT k1

OneKey == [h \in Hashes |-> k1]

=============================================================================

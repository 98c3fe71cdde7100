---------------------------- MODULE MCRequestPath ----------------------------
(***************************************************************************)
(* Model-checking instances of RequestPath.  The workers of a model are    *)
(* interchangeable, and so are requests that do not stream; the safety     *)
(* runs exploit it.                                                        *)
(***************************************************************************)
EXTENDS RequestPath, TLC

WorkerSymmetry == Permutations(Workers)
PairSymmetry   == Permutations(Workers) \cup Permutations(Requests)

=============================================================================

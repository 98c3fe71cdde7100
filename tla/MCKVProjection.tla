---------------------------- MODULE MCKVProjection ----------------------------
(***************************************************************************)
(* Model-checking instances of KVProjection: one key and one alias.        *)
(***************************************************************************)
EXTENDS KVProjection

=============================================================================

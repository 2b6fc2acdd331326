---------------------------- MODULE MCEntrypoint ----------------------------
(* Model-checking instances of Entrypoint *)
EXTENDS Entrypoint, TLC
=============================================================================

------------------------------ MODULE MCTimer -------------------------------
(* Model-checking instance of Timer *)
EXTENDS Timer
=============================================================================

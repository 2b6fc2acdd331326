----------------------------- MODULE MCThreadIpc -----------------------------
(* Model-checking instances of ThreadIpc *)
EXTENDS ThreadIpc, TLC

CONSTANTS t1, t2, t3, cpu0, cpu1

\* A client, a server that is a client itself, and a server of both: helping
\* chains of length two, and two clients queued at t3.
ThreeLevels == (t1 :> 2) @@ (t2 :> 1) @@ (t3 :> 0)

\* The server stays on the boot CPU, its clients come from there or from the other.
ServerOnPrimary == (t1 :> Cpu) @@ (t2 :> Cpu) @@ (t3 :> {PrimaryCpu})

=============================================================================

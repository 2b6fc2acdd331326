-------------------------- MODULE MCInterProcessor --------------------------
(* Model-checking instances of InterProcessor *)
EXTENDS InterProcessor, TLC

CONSTANTS cpu0, cpu1, cpu2, core, u1, u2, u3

\* A thread of core, and user threads on another CPU
TwoCpus == (core :> cpu0) @@ (u1 :> cpu1) @@ (u2 :> cpu1) @@ (u3 :> cpu1)

\* A client and a server on one CPU, nothing but the idle thread on another
IdleCpu == (core :> cpu0) @@ (u1 :> cpu1) @@ (u2 :> cpu1)

\* One thread per CPU
ThreeCpus == (core :> cpu0) @@ (u1 :> cpu1) @@ (u2 :> cpu2)
=============================================================================

---------------------------- MODULE MCCapability ----------------------------
(* Model-checking instances of Capability *)
EXTENDS Capability, TLC

CONSTANTS core, t1, t2, srv, pd1, pd2

\* Two clients in one protection domain, a server in another, and core
TwoDomains == (core :> Core) @@ (t1 :> pd1) @@ (t2 :> pd1) @@ (srv :> pd2)

\* The clients copy their capabilities, the server just receives and drops them.
ClientCopies == (pd1 :> 2) @@ (pd2 :> 1)

\* One client and core, and more copies than the reference counter can count
OneClient == (core :> Core) @@ (t1 :> pd1)
ManyCopies == pd1 :> 257

Symmetry == Permutations(Identity) \cup Permutations(CapId) \cup Permutations({t1, t2})
=============================================================================

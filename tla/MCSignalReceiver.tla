-------------------------- MODULE MCSignalReceiver --------------------------
(* Model-checking instances of SignalReceiver *)
EXTENDS SignalReceiver, TLC

\* Threads, contexts and receivers are interchangeable.
Symmetry == Permutations(Thread) \cup Permutations(Context) \cup Permutations(Receiver)

=============================================================================

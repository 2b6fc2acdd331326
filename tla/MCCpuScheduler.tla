--------------------------- MODULE MCCpuScheduler ---------------------------
(* Model-checking instances of CpuScheduler *)
EXTENDS CpuScheduler, TLC

\* Shares are interchangeable, their priorities and quotas are chosen freely.
Symmetry == Permutations(Share)

=============================================================================

----------------------------- MODULE MCSemaphore -----------------------------
(* Model-checking instances of Semaphore *)
EXTENDS Semaphore, TLC
=============================================================================

---------------------------- MODULE SemaphoreSpec ----------------------------
(***************************************************************************)
(* What a semaphore promises: a number of available units, and threads     *)
(* that get one each in the order in which they asked.                     *)
(***************************************************************************)
EXTENDS Naturals, Sequences

CONSTANT Thread

VARIABLES
  avail,    \* units that nobody has taken
  waiting,  \* threads that asked for a unit that was not available
  granted   \* threads that got a unit and have not returned from down() yet

specVars == <<avail, waiting, granted>>

Init == avail \in Nat /\ waiting = <<>> /\ granted = {}

Down(t) ==
  /\ t \notin granted /\ \A i \in DOMAIN waiting : waiting[i] # t
  /\ IF avail > 0
     THEN avail' = avail - 1 /\ granted' = granted \cup {t} /\ UNCHANGED waiting
     ELSE waiting' = Append(waiting, t) /\ UNCHANGED <<avail, granted>>

Up ==
  IF waiting = <<>>
  THEN avail' = avail + 1 /\ UNCHANGED <<waiting, granted>>
  ELSE /\ granted' = granted \cup {Head(waiting)}
       /\ waiting' = Tail(waiting)
       /\ UNCHANGED avail

Return(t) == t \in granted /\ granted' = granted \ {t} /\ UNCHANGED <<avail, waiting>>

Next == Up \/ \E t \in Thread : Down(t) \/ Return(t)

Spec == Init /\ [][Next]_specVars

=============================================================================

------------------------------ MODULE Semaphore ------------------------------
(***************************************************************************)
(* The semaphore of the base library, composed with the locks it uses.     *)
(*                                                                         *)
(* Source: base/include/base/semaphore.h. The counter and the queue are    *)
(* protected by a mutex; a thread that has to wait puts an element on its  *)
(* stack into the queue and blocks at the blockade in it, which up() wakes *)
(* after it released the mutex. The blockade of a thread's element is the  *)
(* lock with the name of the thread.                                       *)
(***************************************************************************)
EXTENDS Lock, Integers, SequencesExt

CONSTANTS
  Upper,     \* the threads that call up(), the others call down()
  MetaLock,  \* the mutex of the semaphore
  Initial,   \* initial value of the counter
  MaxCnt     \* bound of the model: up() is not called above this value

ASSUME SemaphoreAssumption ==
  /\ Upper \subseteq Thread
  /\ LockId = Thread \cup {MetaLock} /\ MetaLock \notin Thread
  /\ Initial \in 0 .. MaxCnt /\ MaxCnt \in Nat \ {0}

VARIABLES
  cnt,      \* Semaphore::_cnt
  queue,    \* Semaphore::_queue
  at,       \* where the thread is in down() or up()
  element,  \* the element that up() has dequeued
  alive     \* the threads with an element on their stack

semVars == <<cnt, queue, at, element, alive>>
vars == <<lockVars, semVars>>

Place == {"idle",
          "downLock", "downEnqueue", "downUnlock", "downUnlockWait", "downBlock", "downEnd",
          "upLock", "upDequeue", "upUnlock", "upWake"}

TypeOK ==
  /\ LockTypeOK
  /\ cnt \in Int
  /\ queue \in Seq(Thread)
  /\ at \in [Thread -> Place]
  /\ element \in [Thread -> Thread \cup {None}]
  /\ alive \subseteq Thread

Init ==
  /\ LockInit
  /\ cnt = Initial
  /\ queue = <<>>
  /\ at = [t \in Thread |-> "idle"]
  /\ element = [t \in Thread |-> None]
  /\ alive = {}

Goto(t, from, to) == at[t] = from /\ at' = [at EXCEPT ![t] = to]

-----------------------------------------------------------------------------
(* down() *)

DownAcquire(t) ==
  /\ t \notin Upper /\ Goto(t, "idle", "downLock")
  /\ LockLock(t, MetaLock)
  /\ UNCHANGED <<cnt, queue, element, alive>>

\* --_cnt < 0
DownCount(t) ==
  /\ Runs(t) /\ Goto(t, "downLock", IF cnt - 1 < 0 THEN "downEnqueue" ELSE "downUnlock")
  /\ cnt' = cnt - 1
  /\ UNCHANGED <<lockVars, queue, element, alive>>

\* Fifo::enqueue
EnqueuedFirst(q, t) == <<t>> \o q    \* mutant: newest thread first
Enqueued(q, t) == Append(q, t)

\* Blockade::Blockade: the thread that constructs it has locked it.
OpenBlockade(t) ==    \* mutant: the lock of a new blockade is free
  UNCHANGED <<lockState, owner, ownerNext, last, next, phase, lockOf>>
NewBlockade(t) == Grab(t, t)

\* Construct the element on the stack and enqueue it.
DownEnqueue(t) ==
  /\ Runs(t) /\ Goto(t, "downEnqueue", "downUnlockWait")
  /\ alive' = alive \cup {t}
  /\ queue' = Enqueued(queue, t)
  /\ NewBlockade(t)
  /\ UNCHANGED <<target, kernelVars, cnt, element>>

DownRelease(t) ==
  /\ \/ Goto(t, "downUnlock", "idle")
     \/ Goto(t, "downUnlockWait", "downBlock")
  /\ MutexRelease(t, MetaLock)
  /\ UNCHANGED <<cnt, queue, element, alive>>

DownBlock(t) ==
  /\ Goto(t, "downBlock", "downEnd")
  /\ LockLock(t, t)
  /\ UNCHANGED <<cnt, queue, element, alive>>

\* Return from down() after waiting: the element is gone with the stack, what
\* is left of its lock will be overwritten by the next one.
DownReturn(t) ==
  /\ Runs(t) /\ Goto(t, "downEnd", "idle")
  /\ alive' = alive \ {t}
  /\ lockState' = [lockState EXCEPT ![t] = "UNLOCKED"]
  /\ owner' = [owner EXCEPT ![t] = None]
  /\ ownerNext' = [ownerNext EXCEPT ![t] = None]
  /\ last' = [last EXCEPT ![t] = None]
  /\ UNCHANGED <<next, phase, lockOf, target, kernelVars, cnt, queue, element>>

-----------------------------------------------------------------------------
(* up() *)

UpAcquire(t) ==
  /\ t \in Upper /\ cnt < MaxCnt /\ Goto(t, "idle", "upLock")
  /\ LockLock(t, MetaLock)
  /\ UNCHANGED <<cnt, queue, element, alive>>

\* ++_cnt
Counted(c) == IF c + 1 > 0 THEN c + 1 ELSE c    \* mutant: not if somebody waits
Incremented(c) == c + 1

\* ++_cnt > 0
NobodyWaitsOff(c) == c >= 0    \* mutant: off by one
NobodyWaits(c) == c > 0
UpCount(t) ==
  /\ Runs(t) /\ Goto(t, "upLock", IF NobodyWaits(cnt + 1) THEN "upUnlock" ELSE "upDequeue")
  /\ cnt' = Incremented(cnt)
  /\ UNCHANGED <<lockVars, queue, element, alive>>

\* _queue.dequeue, which does nothing if the queue is empty
UpDequeue(t) ==
  /\ Runs(t) /\ Goto(t, "upDequeue", "upUnlock")
  /\ element' = [element EXCEPT ![t] = IF queue = <<>> THEN None ELSE Head(queue)]
  /\ queue' = IF queue = <<>> THEN queue ELSE Tail(queue)
  /\ UNCHANGED <<lockVars, cnt, alive>>

UpRelease(t) ==
  /\ Goto(t, "upUnlock", IF element[t] = None THEN "idle" ELSE "upWake")
  /\ MutexRelease(t, MetaLock)
  /\ UNCHANGED <<cnt, queue, element, alive>>

UpWake(t) ==
  /\ Goto(t, "upWake", "idle")
  /\ LockUnlock(t, element[t])
  /\ element' = [element EXCEPT ![t] = None]
  /\ UNCHANGED <<cnt, queue, alive>>

-----------------------------------------------------------------------------

CallStep(t) ==
  \/ DownAcquire(t) \/ DownCount(t) \/ DownEnqueue(t) \/ DownRelease(t)
  \/ DownBlock(t) \/ DownReturn(t)
  \/ UpAcquire(t) \/ UpCount(t) \/ UpDequeue(t) \/ UpRelease(t) \/ UpWake(t)

Next == \E t \in Thread : CallStep(t) \/ (LockStep(t) /\ UNCHANGED semVars)

Spec == Init /\ [][Next]_vars

-----------------------------------------------------------------------------
(* Safety *)

\* The thread executes the code that the mutex protects.
InSection(t) ==
  /\ at[t] \in {"downLock", "downEnqueue", "downUnlock", "downUnlockWait",
                "upLock", "upDequeue", "upUnlock"}
  /\ ~Waits(t, MetaLock)

\* The mutex excludes: whoever is past lock() owns it, so that no two threads
\* are, whatever restarts them (mutex.h, lock.cc:69-129).
MutualExclusion ==
  \A t \in Thread : InSection(t) => owner[MetaLock] = t /\ lockState[MetaLock] = "LOCKED"

\* up() works on the element of another thread without the mutex: the thread
\* must not have returned from down() before up() is done with the element
\* (semaphore.h:71-76,92-101).
ElementAlive == \A t \in Thread : at[t] = "upWake" => element[t] \in alive

\* A thread waits for the mutex only at the start of down() and up(), and for a
\* blockade only if it is that of its own element.
CallsMatch ==
  \A t \in Thread, l \in LockId :
    Waits(t, l) => IF l = MetaLock THEN at[t] \in {"downLock", "upLock"}
                                   ELSE l = t /\ at[t] = "downEnd"

\* The element of the thread is in the queue, or up() has it and works on it.
Enlisted(t) == t \in ToSet(queue) \/ \E u \in Thread : element[u] = t

\* Elements are in the queue once or in the hands of one up().
ElementsUnique ==
  /\ \A i, j \in DOMAIN queue : queue[i] = queue[j] => i = j
  /\ \A t, u \in Thread : element[t] = element[u] /\ element[t] # None => t = u
  /\ \A t \in Thread :
       /\ element[t] # None => element[t] \notin ToSet(queue) /\ at[t] \in {"upUnlock", "upWake"}
       /\ at[t] = "upWake" => element[t] # None

\* An element exists from its construction until its thread returns from down(),
\* and it is in the queue when the thread releases the mutex.
ElementsOnStack ==
  \A t \in Thread :
    /\ at[t] \in {"downUnlockWait", "downBlock", "downEnd"} <=> t \in alive
    /\ at[t] = "downUnlockWait" => t \in ToSet(queue)

\* As long as an element is in the queue or in the hands of up(), it exists and
\* its blockade is closed: its thread owns the lock, or waits for it.
BlockadesClosed ==
  \A t \in Thread :
    Enlisted(t) =>
      /\ t \in alive /\ lockState[t] = "LOCKED"
      /\ IF at[t] = "downEnd" THEN owner[t] = None /\ Waits(t, t) ELSE owner[t] = t

\* A negative counter is the length of the queue, except while a thread is
\* between counting and its change of the queue (semaphore.h:62-77,83-106).
QueueCounted ==
  LET waiters == IF cnt < 0 THEN -cnt ELSE 0 IN
  /\ \A t \in Thread : at[t] = "downEnqueue" => Len(queue) = waiters - 1
  /\ \A t \in Thread : at[t] = "upDequeue" => Len(queue) = waiters + 1
  /\ (\A t \in Thread : at[t] \notin {"downEnqueue", "upDequeue"}) => Len(queue) = waiters

\* The lists of applicants of all locks are right, whoever was handed a lock is
\* going to be restarted, and the counter, the queue and the blockades in it
\* agree with the threads (lock.cc:63-162, semaphore.h:30-106).
LocksConsistent ==
  /\ TypeOK
  /\ ApplicantsListed /\ NewOwnerAwakes /\ WakersMatch /\ MissedMatch /\ PhasesMatch
  /\ CallsMatch /\ ElementsUnique /\ ElementsOnStack /\ BlockadesClosed /\ QueueCounted

\* The semaphore does what a semaphore promises, in FIFO order. A thread waits
\* since it has counted, though it is not in the queue yet.
Waiters ==
  IF \E t \in Thread : at[t] = "downEnqueue"
  THEN Append(queue, CHOOSE t \in Thread : at[t] = "downEnqueue")
  ELSE queue
Abstract == INSTANCE SemaphoreSpec WITH
  avail   <- IF cnt > 0 THEN cnt ELSE 0,
  waiting <- Waiters,
  granted <- {t \in Thread : /\ at[t] \in {"downUnlock", "downUnlockWait", "downBlock", "downEnd"}
                             /\ t \notin ToSet(queue)}
Implements == Abstract!Spec

-----------------------------------------------------------------------------
(* Liveness *)

\* What a thread does by itself once it has called down() or up().
GoesOn(t) ==
  \/ CallStep(t) /\ at[t] # "idle"
  \/ (StopMyself(t) \/ WakeUp(t)) /\ UNCHANGED semVars

\* Every thread that can run is scheduled again and again. The pager handles
\* every fault and so a thread gets on however often it faults (strong
\* fairness). up() is called as long as the bound of the model allows it.
Fairness ==
  \A t \in Thread :
    /\ SF_vars(GoesOn(t))
    /\ WF_vars(PagerWakeUp(t) /\ UNCHANGED semVars)
    /\ SF_vars(UpAcquire(t))

FairSpec == Spec /\ Fairness

Idle(t) == at[t] = "idle" /\ phase[t] = "out"

\* Every down() returns, whatever other threads call down() again and again, and
\* every up(): no thread sleeps forever in a lock, unless one does that faulted
\* in front of stop_thread when it was woken.
CallsReturn == []<>(missed = {}) => \A t \in Thread : ~Idle(t) ~> Idle(t)

=============================================================================

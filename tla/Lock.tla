-------------------------------- MODULE Lock --------------------------------
(***************************************************************************)
(* The lock of the base library on the base-hw kernel.                     *)
(*                                                                         *)
(* Sources: base/src/lib/base/lock.cc and base/include/base/lock.h (the    *)
(* list of applicants), mutex.cc and blockade.h (its two users),           *)
(* base-hw lock_helper.h and kernel/thread.cc (stop_thread and             *)
(* restart_thread), base-hw/src/core/region_map_support.cc (the pager,     *)
(* which restarts threads too).                                            *)
(*                                                                         *)
(* The fields of a lock are only accessed with its spinlock held, so each  *)
(* critical section is one action. What happens after the spinlock is      *)
(* released, stopping oneself and waking the next owner, are actions of    *)
(* their own. An applicant is an object on the stack of the thread that    *)
(* waits: its identity is the thread, which waits for one lock at a time.  *)
(***************************************************************************)
EXTENDS Naturals, Sequences, FiniteSets

CONSTANTS
  Thread,
  LockId,       \* the lock objects
  None,         \* the null pointer
  Owner         \* the address of the field _owner of a lock

ASSUME LockAssumption ==
  /\ None \notin Thread \cup LockId /\ Owner \notin Thread /\ None # Owner

VARIABLES
  lockState,  \* Lock::_state
  owner,      \* the thread of Lock::_owner, None for invalid_thread_base
  ownerNext,  \* Lock::_owner._to_wake_up
  last,       \* Lock::_last_applicant
  next,       \* _to_wake_up of the applicant on the stack of the thread
  phase,      \* where the thread is in lock() or unlock()
  lockOf,     \* the lock whose lock() or unlock() the thread executes
  target,     \* the copy of the next owner on the stack of unlock()
  stopped,    \* the threads in the kernel's state AWAITS_RESTART
  faults,     \* the threads whose fault signal the pager has not handled
  missed      \* the threads that were restarted as the next owner when they had
              \* faulted in front of stop_thread, see WakeUp

fieldVars == <<lockState, owner, ownerNext, last, next>>
kernelVars == <<stopped, faults, missed>>
lockVars == <<fieldVars, phase, lockOf, target, kernelVars>>

\* outside of lock and unlock; registered, before stop_thread; in stop_thread;
\* in the loop of Applicant::wake_up
Phase == {"out", "queued", "blocked", "waking"}

LockTypeOK ==
  /\ lockState \in [LockId -> {"LOCKED", "UNLOCKED"}]
  /\ owner \in [LockId -> Thread \cup {None}]
  /\ ownerNext \in [LockId -> Thread \cup {None}]
  /\ last \in [LockId -> Thread \cup {Owner, None}]
  /\ next \in [Thread -> Thread \cup {None}]
  /\ phase \in [Thread -> Phase]
  /\ lockOf \in [Thread -> LockId \cup {None}]
  /\ target \in [Thread -> Thread \cup {None}]
  /\ stopped \subseteq Thread /\ faults \subseteq Thread /\ missed \subseteq Thread

LockInit ==
  /\ lockState = [l \in LockId |-> "UNLOCKED"]
  /\ owner = [l \in LockId |-> None]
  /\ ownerNext = [l \in LockId |-> None]
  /\ last = [l \in LockId |-> None]
  /\ next = [t \in Thread |-> None]
  /\ phase = [t \in Thread |-> "out"]
  /\ lockOf = [t \in Thread |-> None]
  /\ target = [t \in Thread |-> None]
  /\ stopped = {} /\ faults = {} /\ missed = {}

\* The thread executes instructions of its own, outside of lock and unlock.
Runs(t) == phase[t] = "out" /\ t \notin stopped

-----------------------------------------------------------------------------
(* lock() *)

\* cmpxchg(&_state, UNLOCKED, LOCKED)
FreeIfNoApplicant(l) == lockState[l] = "UNLOCKED" \/ ownerNext[l] = None    \* mutant
Free(l) == lockState[l] = "UNLOCKED"

\* The branch in which the lock was free.
Grab(t, l) ==
  /\ lockState' = [lockState EXCEPT ![l] = "LOCKED"]
  /\ owner' = [owner EXCEPT ![l] = t]
  /\ ownerNext' = [ownerNext EXCEPT ![l] = None]
  /\ last' = [last EXCEPT ![l] = Owner]
  /\ UNCHANGED <<next, phase, lockOf>>

\* The branch in which the owner locks twice, as a blockade does: nobody is
\* the owner, the thread waits in front of all others.
ApplyTwice(t, l) ==
  /\ owner' = [owner EXCEPT ![l] = None]
  /\ ownerNext' = [ownerNext EXCEPT ![l] = t]
  /\ next' = [next EXCEPT ![t] = ownerNext[l]]
  /\ last' = [last EXCEPT ![l] = IF ownerNext[l] = None THEN t ELSE @]
  /\ UNCHANGED lockState

\* The branch in which the thread becomes the last applicant. The null pointer
\* of a lock without any applicant cannot occur here: the lock is taken.
AppendToLast(t, l) ==
  /\ ownerNext' = [ownerNext EXCEPT ![l] = IF last[l] = Owner THEN t ELSE @]
  /\ next' = [u \in Thread |-> IF u = t THEN None
                              ELSE IF u = last[l] THEN t ELSE next[u]]
Apply(t, l) ==
  /\ AppendToLast(t, l)
  /\ last' = [last EXCEPT ![l] = t]
  /\ UNCHANGED <<lockState, owner>>

\* Lock::lock up to the release of the spinlock, Mutex::acquire (which only
\* adds a diagnostic message) and Blockade::block
LockLock(t, l) ==
  /\ Runs(t)
  /\ \/ Free(l) /\ Grab(t, l)
     \/ /\ ~Free(l)
        /\ IF owner[l] = t THEN ApplyTwice(t, l) ELSE Apply(t, l)
        /\ phase' = [phase EXCEPT ![t] = "queued"]
        /\ lockOf' = [lockOf EXCEPT ![t] = l]
  /\ UNCHANGED <<target, kernelVars>>

\* Lock::lock after the release of the spinlock: Kernel::stop_thread
StopMyself(t) ==
  /\ phase[t] = "queued" /\ t \notin stopped
  /\ phase' = [phase EXCEPT ![t] = "blocked"]
  /\ stopped' = stopped \cup {t}
  /\ UNCHANGED <<fieldVars, lockOf, target, faults, missed>>

-----------------------------------------------------------------------------
(* unlock() *)

\* Lock::_last_applicant after ownership goes to the applicant n.
LastStale(l, n) == last[l]    \* mutant: still points to the stack of n
LastAfter(l, n) == IF last[l] = n THEN Owner ELSE last[l]

\* Lock::unlock up to the release of the spinlock, Blockade::wakeup
LockUnlock(t, l) ==
  LET n == ownerNext[l] IN
  /\ Runs(t)
  /\ IF n # None
     THEN /\ owner' = [owner EXCEPT ![l] = n]
          /\ ownerNext' = [ownerNext EXCEPT ![l] = next[n]]
          /\ last' = [last EXCEPT ![l] = LastAfter(l, n)]
          /\ phase' = [phase EXCEPT ![t] = "waking"]
          /\ lockOf' = [lockOf EXCEPT ![t] = l]
          /\ target' = [target EXCEPT ![t] = n]
          /\ UNCHANGED lockState
     ELSE /\ owner' = [owner EXCEPT ![l] = None]
          /\ last' = [last EXCEPT ![l] = None]
          /\ lockState' = [lockState EXCEPT ![l] = "UNLOCKED"]
          /\ UNCHANGED <<ownerNext, phase, lockOf, target>>
  /\ UNCHANGED <<next, kernelVars>>

\* Mutex::release, denied if the caller is not the owner. That is read without
\* the spinlock; nobody else can make or unmake the caller the owner meanwhile.
MutexRelease(t, l) ==
  IF lockState[l] = "LOCKED" /\ owner[l] = t
  THEN LockUnlock(t, l)
  ELSE Runs(t) /\ UNCHANGED lockVars

\* The threads in stop_thread whose lock() returns when they are restarted.
Returned(t, ts) ==
  [u \in Thread |-> IF u \in ts /\ phase[u] = "blocked" THEN "out"
                    ELSE IF u = t THEN "out" ELSE phase[u]]

\* Kernel::restart_thread in the loop of Applicant::wake_up: it has an effect
\* and ends the loop if the thread is stopped, whatever stopped it: a thread
\* that faulted in front of stop_thread goes on and stops after it was woken.
\* If the thread is not stopped the caller yields and tries again.
RestartOnce(n) == TRUE    \* mutant: does not look at the answer of the kernel
Restarts(n) == n \in stopped
WakeUp(t) ==
  /\ phase[t] = "waking" /\ t \notin stopped
  /\ Restarts(target[t])
  /\ stopped' = stopped \ {target[t]}
  /\ phase' = Returned(t, {target[t]} \cap stopped)
  /\ lockOf' = [u \in Thread |-> IF phase'[u] = "out" THEN None ELSE lockOf[u]]
  /\ target' = [target EXCEPT ![t] = None]
  /\ missed' = IF phase[target[t]] = "queued" THEN missed \cup {target[t]} ELSE missed
  /\ UNCHANGED <<fieldVars, faults>>

-----------------------------------------------------------------------------
(* Page faults *)

\* Thread::_mmu_exception: the thread stops in the same state as by
\* stop_thread, and a signal goes to the pager.
MmuException(t) ==
  /\ t \notin stopped
  /\ stopped' = stopped \cup {t}
  /\ faults' = faults \cup {t}
  /\ UNCHANGED <<fieldVars, phase, lockOf, target, missed>>

\* Pager_entrypoint::entry: resolve the fault and restart the thread, if it is
\* stopped, whatever stopped it.
PagerWakeUp(t) ==
  /\ t \in faults
  /\ faults' = faults \ {t}
  /\ stopped' = stopped \ {t}
  /\ phase' = Returned(None, {t} \cap stopped)
  /\ lockOf' = [u \in Thread |-> IF phase'[u] = "out" THEN None ELSE lockOf[u]]
  /\ missed' = {u \in missed : phase'[u] # "out"}
  /\ UNCHANGED <<fieldVars, target>>

LockStep(t) == StopMyself(t) \/ WakeUp(t) \/ MmuException(t) \/ PagerWakeUp(t)

-----------------------------------------------------------------------------
(* Properties of the lock by itself *)

Waits(t, l) == phase[t] \in {"queued", "blocked"} /\ lockOf[t] = l

\* The thread got the lock from its last owner, who has not woken it yet.
BeingWoken(t) == \E w \in Thread : phase[w] = "waking" /\ target[w] = t

\* The thread waits and got the lock.
HandedOver(t) == BeingWoken(t) \/ t \in missed

\* The pointers of a lock form a list of threads that wait for it: each of
\* them is pointed to once, the last one is known, and no pointer leads to a
\* thread that is not in lock() any more, whose applicant is gone
\* (lock.cc:88-107, 138-147).
ApplicantsListed ==
  \A l \in LockId :
    LET pending == {t \in Thread : Waits(t, l) /\ ~HandedOver(t)}
        linked  == {ownerNext[l]} \cup {next[t] : t \in pending}
    IN
    /\ linked \ {None} = pending
    /\ \A t, u \in pending : next[t] = next[u] /\ next[t] # None => t = u
    /\ \A t \in pending : next[t] = ownerNext[l] => next[t] = None
    /\ lockState[l] = "LOCKED" => last[l] \in pending \cup {Owner}
    /\ last[l] = Owner => pending = {}
    /\ last[l] \in pending => next[last[l]] = None

\* No wakeup is lost but by a fault in front of stop_thread: a thread that became
\* the owner while it was waiting is not left asleep, somebody is about to restart
\* it, or did so when the thread had faulted (lock.cc:112-121).
NewOwnerAwakes ==
  \A t \in Thread, l \in LockId : Waits(t, l) /\ owner[l] = t => HandedOver(t)

\* No wakeup is lost ("We handle this case in the 'unlock' function by checking
\* the previous thread state when resuming its execution", lock.cc:119): a thread
\* that stopped itself as the owner is going to be restarted by the last one, or
\* by the pager.
NoWakeupLost ==
  \A t \in Thread :
    phase[t] = "blocked" /\ owner[lockOf[t]] = t => BeingWoken(t) \/ t \in faults

\* A thread that is about to wake another one has made it the owner of the lock
\* for which that one waits, and nobody else is about to wake it.
WakersMatch ==
  /\ \A w \in Thread :
       phase[w] = "waking" =>
         /\ target[w] # None /\ Waits(target[w], lockOf[w])
         /\ owner[lockOf[w]] = target[w] /\ lockState[lockOf[w]] = "LOCKED"
  /\ \A w, v \in Thread :
       phase[w] = "waking" /\ phase[v] = "waking" /\ target[w] = target[v] => w = v

\* A thread that was restarted in front of stop_thread owns the lock for which it
\* waits, and nobody is about to wake it.
MissedMatch ==
  \A t \in missed :
    /\ lockOf[t] # None /\ Waits(t, lockOf[t]) /\ ~BeingWoken(t)
    /\ owner[lockOf[t]] = t /\ lockState[lockOf[t]] = "LOCKED"

\* The kernel's state of a thread and its place in lock() and unlock() agree: a
\* thread in stop_thread is stopped, and the pager restarts it there only if it
\* is the owner of the lock.
PhasesMatch ==
  \A t \in Thread :
    /\ phase[t] = "out" <=> lockOf[t] = None
    /\ phase[t] = "blocked" => t \in stopped
    /\ t \in stopped => phase[t] = "blocked" \/ t \in faults
    /\ t \in faults /\ t \notin missed => t \in stopped /\ phase[t] # "blocked"

=============================================================================

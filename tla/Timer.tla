------------------------------- MODULE Timer --------------------------------
(* The timer of a CPU (src/repos/base-hw/src/core/kernel/timer.cc, timer.h) and
   its use by Cpu::schedule (cpu.cc) and by the timeout call (thread.cc).

   Timeouts are kept in a list sorted by their end. The hardware timer counts
   down once and is started only by a scheduling decision; a kernel pass that
   makes none leaves it alone. Times are relative: rest[o] is the end of timeout
   o minus the time of the timer. Names do not collide with those of CpuScheduler,
   the other part of a CPU's state, so that one module can extend both. *)
EXTENDS Integers, Sequences, SequencesExt

CONSTANTS
  Thread,      \* threads of the CPU that install timeouts
  Cpu,         \* the timeout of the CPU itself, the end of a time slice
  Durations,   \* durations, in microseconds, that threads ask for
  UsPerMs,     \* microseconds per millisecond, small for model checking
  TicksPerMs,  \* ticks of the timer per millisecond
  MaxSlice,    \* bound: length of a time slice in ticks
  MaxLate      \* bound: ticks after which a late timeout gets no later

ASSUME TimerAssumption ==
  /\ Cpu \notin Thread
  /\ Durations \subseteq Nat
  /\ UsPerMs \in Nat \ {0} /\ TicksPerMs \in Nat \ {0}
  /\ MaxSlice \in Nat \ {0} /\ MaxLate \in Nat

VARIABLES
  list,         \* _timeout_list
  rest,         \* _end of a timeout minus time()
  real,         \* what is left of a timeout in real time
  hw,           \* ticks until the hardware timer fires, zero if it has fired
  decide,       \* need_to_schedule() of the scheduler
  fresh,        \* threads that installed a timeout since the hardware was started
  freeRunning   \* time() goes on after the hardware timer has fired

timerVars == <<list, rest, real, hw, decide, fresh, freeRunning>>

Timeouts == Thread \cup {Cpu}
Listed == ToSet(list)

\* A timer counts down and stops at zero (spec/x86_64/pit.cc), or time is that of
\* a counter that never stops (spec/arm/generic_timer.cc, spec/riscv/timer.cc).
TimerInit ==
  /\ list = <<>>
  /\ rest = [o \in Timeouts |-> 0]
  /\ real = [o \in Timeouts |-> 0]
  /\ hw = 1
  /\ decide = TRUE
  /\ fresh = {}
  /\ freeRunning \in BOOLEAN

-----------------------------------------------------------------------------
(* Timer *)

UsToTicks(us) == (us \div UsPerMs) * TicksPerMs

\* n ticks later, for the timeouts in list l
After(n, l, times) ==
  [o \in Timeouts |-> IF o \notin ToSet(l) THEN 0
                      ELSE IF times[o] - n < -MaxLate THEN -MaxLate ELSE times[o] - n]

\* How many timeouts at the front of the list end before end
Earlier(l, times, end) ==
  CHOOSE n \in 0 .. Len(l) : /\ \A m \in 1 .. n : times[l[m]] < end
                             /\ n < Len(l) => times[l[n + 1]] >= end

\* set_timeout: o leaves its place and goes behind all timeouts that end earlier.
WithoutTimeout(l, o) == IF o \in ToSet(l) THEN RemoveAt(l, CHOOSE n \in DOMAIN l : l[n] = o) ELSE l
Inserted(l, times, o) ==
  LET others == WithoutTimeout(l, o)
  IN  InsertAt(others, Earlier(others, times, times[o]) + 1, o)

\* process_timeouts: the timeouts before the first that ends in the future
DueBefore(l, times) == Earlier(l, times, 2)
Due(l, times) == Earlier(l, times, 1)

\* schedule_timeout: start the hardware timer for the nearest timeout.
SliceOneShot(l, times) == times[Cpu]
OneShot(l, times) == IF times[Head(l)] > 0 THEN times[Head(l)] ELSE 1

\* A tick of the clock. The interrupt may have to wait for the kernel lock.
Tick ==
  /\ hw' = IF hw > 0 THEN hw - 1 ELSE 0
  /\ rest' = IF hw > 0 \/ freeRunning THEN After(1, list, rest) ELSE rest
  /\ real' = After(1, list, real)
  /\ UNCHANGED <<list, decide, fresh, freeRunning>>

-----------------------------------------------------------------------------
(* Kernel passes *)

\* The end of Cpu::schedule, with list l and its times: process the timeouts,
\* update the scheduler, install the time slice of its new head and start the
\* hardware timer. A tick may go by from the first to the last.
Decide(l, rests, reals) ==
  LET left == SubSeq(l, Due(l, rests) + 1, Len(l))
  IN  /\ decide' = FALSE /\ fresh' = {}
      /\ \E slice \in 1 .. MaxSlice, late \in 0 .. 1 :
           LET rest1 == [After(late, left, rests) EXCEPT ![Cpu] = slice]
               list1 == Inserted(left, rest1, Cpu)
           IN  /\ rest' = rest1
               /\ real' = [After(late, left, reals) EXCEPT ![Cpu] = slice]
               /\ list' = list1
               /\ hw' = OneShot(list1, rest1)
      /\ UNCHANGED freeRunning

\* The interrupt of the timer asks for a decision, Timer::Irq::occurred.
InterruptIgnored == hw = 0 /\ UNCHANGED timerVars
Interrupt == hw = 0 /\ Decide(list, rest, real)

\* A kernel pass of this CPU in which a thread blocks, yields or is woken, or
\* which is due to the inter-processor interrupt of a CPU that has woken one.
OtherPass == Decide(list, rest, real)

\* Another CPU makes a thread of this one ready, Cpu::schedule(Job *).
RemoteReady ==
  /\ decide' = TRUE
  /\ UNCHANGED <<list, rest, real, hw, fresh, freeRunning>>

\* _call_timeout, and a decision if one is pending
SetTimeout(t, us) ==
  LET rests == [rest EXCEPT ![t] = UsToTicks(us)]
      reals == [real EXCEPT ![t] = UsToTicks(us)]
      l == Inserted(list, rests, t)
  IN  IF decide THEN Decide(l, rests, reals)
      ELSE /\ fresh' = fresh \cup {t}
           /\ rest' = rests
           /\ real' = reals
           /\ list' = l
           /\ UNCHANGED <<hw, decide, freeRunning>>

TimerNext ==
  \/ Tick
  \/ Interrupt
  \/ OtherPass
  \/ RemoteReady
  \/ \E t \in Thread, us \in Durations : SetTimeout(t, us)

TimerSpec == TimerInit /\ [][TimerNext]_timerVars

\* Time goes on, and the kernel takes the interrupt of the timer.
FairTimerSpec == TimerSpec /\ WF_timerVars(Tick) /\ WF_timerVars(Interrupt)

-----------------------------------------------------------------------------
(* Properties *)

MaxTicks == {UsToTicks(us) : us \in Durations} \cup {MaxSlice}

TimerTypeOK ==
  /\ list \in Seq(Timeouts) /\ IsInjective(list)
  /\ rest \in [Timeouts -> Int] /\ real \in [Timeouts -> Int]
  /\ \A o \in Timeouts : \E n \in MaxTicks : rest[o] \in -MaxLate .. n /\ real[o] \in -MaxLate .. n
  /\ \E n \in MaxTicks : hw \in 0 .. n
  /\ decide \in BOOLEAN /\ fresh \subseteq Thread /\ freeRunning \in BOOLEAN

\* The hardware timer fires at the nearest timeout or earlier, except for the
\* timeouts that were installed after it was started: those wait for the next
\* decision, at the end of the time slice at the latest (schedule_timeout).
NearestProgrammed ==
  \A o \in Listed \ fresh : hw <= rest[o] \/ hw <= 1

\* The list and the hardware timer agree after every kernel pass (timer.cc:39-79).
TimerConsistent == TimerTypeOK /\ NearestProgrammed

\* No timeout fires before its duration has gone by, even if the time of the timer
\* stands still while its interrupt waits (_duration, process_timeouts).
NeverEarly ==
  [][\A t \in Thread :
       t \in Listed /\ t \notin ToSet(list') =>
         real[t] <= 0 \/ \E us \in Durations : SetTimeout(t, us)]_timerVars

\* A timeout that is not installed anew fires, however often the others are and
\* however often the CPU decides what to run.
TimeoutsFire ==
  \A t \in Thread :
    <>[][~\E us \in Durations : SetTimeout(t, us)]_timerVars => []<>(t \notin Listed)
=============================================================================

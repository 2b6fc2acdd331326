--------------------------- MODULE InterProcessor ---------------------------
(***************************************************************************)
(* The CPUs of a base-hw system: boot, kernel entry under the kernel lock, *)
(* inter-processor interrupts and the work they announce (TLB invalidation,*)
(* destruction of a thread, stop before a suspend), and the resume.        *)
(*                                                                         *)
(* Sources: base-hw/src/core/kernel/{main,lock,cpu,cpu_mp,thread}.cc and   *)
(* the x86_64 variants of thread.cc, thread_exception.cc, pd.cc, cpu.cc,   *)
(* the only architecture with all kinds of work.                           *)
(*                                                                         *)
(* Whatever is done under the kernel lock is one step: Cpu::schedule() of  *)
(* a CPU handles one exception and selects the next job. The scheduler is  *)
(* reduced to "some job that is ready" (see CpuScheduler), IPC to helping  *)
(* among the threads of one CPU (see ThreadIpc).                           *)
(***************************************************************************)
EXTENDS Integers, FiniteSets

CONSTANTS
  Cpu, PrimaryCpu,
  CoreThread,      \* threads of core, they may delete, invalidate and suspend
  UserThread,
  Suspender,       \* the one core thread that suspends the system
  Home,            \* Thread -> Cpu: Cpu_job::_cpu
  Calls,           \* the system calls that threads make
  Fadt,            \* the values of "the boot information names the ACPI FADT"
  MaxSuspends,     \* bound of the model
  UintMax,         \* the largest unsigned integer
  None

Thread == CoreThread \cup UserThread
Job    == Thread \cup Cpu    \* the idle thread of a CPU is named like the CPU
NrOfCpus == Cardinality(Cpu)

ASSUME InterProcessorAssumption ==
  /\ IsFiniteSet(Cpu) /\ PrimaryCpu \in Cpu
  /\ CoreThread \cap UserThread = {} /\ Thread \cap Cpu = {} /\ None \notin Job \cup Nat
  /\ Suspender \in CoreThread \cup {None}
  /\ Home \in [Thread -> Cpu]
  /\ Calls \subseteq {"tlb", "delete", "suspend", "wake", "stop", "call", "reply"}
  /\ Fadt \subseteq BOOLEAN /\ Fadt # {}
  /\ MaxSuspends \in Nat /\ UintMax \in Nat /\ UintMax > NrOfCpus

VARIABLES
  mode,      \* where a CPU is
  head,      \* Cpu_scheduler::_head, None once it was removed
  ran,       \* the job whose proceed() the CPU executed last
  state,     \* Thread::_state, "GONE" after the destruction
  helps,     \* the server that a thread helps
  trap,      \* the last exception of a job: trapno and arguments in its regs
  pending,   \* CPUs with Cpu::Ipi::pending
  line,      \* CPUs whose local APIC holds an IPI that was not accepted
  isr,       \* CPUs that have accepted an IPI and not finished it
  tlb,       \* Tlb_invalidation::cnt of a caller, 0 if there is no work item
  destroy,   \* Destroy::thread_to_destroy of a caller, None if there is none
  left,      \* Flush_and_stop_cpu::cpus_left, None if there is none
  stale,     \* CPUs that may still use translations that the caller invalidates
  instanceInitialized, kernelInitialized, nrOfInitializedCpus,
  fadt,      \* does the boot information name the ACPI FADT?
  suspends,  \* how often the system was suspended
  orphaned   \* history: CPUs that lost their head to another CPU since they left the kernel

bootVars == <<instanceInitialized, kernelInitialized, nrOfInitializedCpus, fadt>>
workVars == <<tlb, destroy, left, stale>>
ipiVars  == <<pending, line, isr>>
vars == <<mode, head, ran, state, helps, trap, ipiVars, workVars, bootVars, suspends, orphaned>>

Mode == {"boot", "counted", "run", "entry", "halt", "suspend", "resume", "barrier"}
Irq == [op |-> "irq", arg |-> None]
Call == [op : Calls, arg : UserThread \cup {None}]

JobsOf(c) == {t \in Thread : Home[t] = c} \cup {c}

TypeOK ==
  /\ mode \in [Cpu -> Mode]
  /\ head \in [Cpu -> Job \cup {None}] /\ ran \in [Cpu -> Job]
  /\ \A c \in Cpu : head[c] \in JobsOf(c) \cup {None} /\ ran[c] \in JobsOf(c)
  /\ state \in [Thread -> {"ACTIVE", "AWAITS_RESTART", "AWAITS_IPC", "GONE"}]
  /\ helps \in [Thread -> UserThread \cup {None}]
  /\ trap \in [Job -> Call \cup {Irq}]
  /\ pending \subseteq Cpu /\ line \subseteq Cpu /\ isr \subseteq Cpu
  /\ line \cap isr = {}
  /\ tlb \in [CoreThread -> 0 .. NrOfCpus - 1]
  /\ destroy \in [CoreThread -> UserThread \cup {None}]
  /\ left = None \/ left \in 0 .. UintMax
  /\ stale \in [CoreThread -> SUBSET Cpu]
  /\ instanceInitialized \in BOOLEAN /\ kernelInitialized \in BOOLEAN
  /\ nrOfInitializedCpus \in 0 .. NrOfCpus
  /\ fadt \in BOOLEAN
  /\ suspends \in 0 .. MaxSuspends
  /\ orphaned \subseteq Cpu

\* Threads are created by the running system, here they exist from the start.
Init ==
  /\ mode = [c \in Cpu |-> "boot"]
  /\ head = [c \in Cpu |-> c]
  /\ ran = [c \in Cpu |-> c]
  /\ state = [t \in Thread |-> "ACTIVE"]
  /\ helps = [t \in Thread |-> None]
  /\ trap = [j \in Job |-> Irq]
  /\ pending = {} /\ line = {} /\ isr = {}
  /\ tlb = [t \in CoreThread |-> 0]
  /\ destroy = [t \in CoreThread |-> None]
  /\ left = None
  /\ stale = [t \in CoreThread |-> {}]
  /\ instanceInitialized = FALSE /\ kernelInitialized = FALSE
  /\ nrOfInitializedCpus = 0
  /\ fadt \in Fadt
  /\ suspends = 0
  /\ orphaned = {}

-----------------------------------------------------------------------------
(* Scheduling *)

\* Thread::helping_destination, Cpu_job of an idle thread
Dest(j) == IF j \in Thread /\ helps[j] # None THEN helps[j] ELSE j

Ready(c) == {t \in Thread : Home[t] = c /\ state[Dest(t)] = "ACTIVE"}

\* Cpu_scheduler::update
Candidates(c) == IF Ready(c) = {} THEN {c} ELSE Ready(c)

\* Cpu_scheduler::head looks for a head if the last one was removed.
Heads(c) == IF head[c] = None THEN Candidates(c) ELSE {head[c]}

\* The rest of Cpu::schedule and proceed of the job it returns; heads are the
\* heads of the schedulers before.
Leave(c, heads) ==
  \E h \in Candidates(c)' :
    /\ head' = [heads EXCEPT ![c] = h]
    /\ ran' = [ran EXCEPT ![c] = Dest(h)']
    /\ mode' = [mode EXCEPT ![c] = "run"]
    /\ orphaned' = {d \in Cpu \ {c} : d \in orphaned \/ heads[d] = None}

\* Cpu::trigger_ip_interrupt of the CPUs in C; done are those whose IPI is
\* finished by the same step.
NeverReceived(C, done) ==    \* mutant: Ipi::pending is not reset
  /\ pending' = pending \cup C
  /\ line' = line \cup (C \ pending)
  /\ isr' = isr \ done
Trigger(C, done) ==
  /\ pending' = (pending \cup C) \ done
  /\ line' = line \cup (C \ pending)
  /\ isr' = isr \ done

\* Cpu::schedule(job) for jobs that become ready at other CPUs: if a CPU is idle,
\* or if priority and quota say so, it has to schedule.
MustSchedule(c, T) == {d \in {Home[t] : t \in T} \ {c} : head[d] \in {d, None}}
MaySchedule(c, T) == {Home[t] : t \in T} \ {c}
Schedules(c, T) == {C \in SUBSET MaySchedule(c, T) : MustSchedule(c, T) \subseteq C}

-----------------------------------------------------------------------------
(* A job runs until an exception makes the CPU enter the kernel. *)

\* A call that the thread may make. Core deletes a thread once.
MayCall(t, call) ==
  CASE call.op = "tlb"     -> t \in CoreThread /\ call.arg = None
    [] call.op = "delete"  -> /\ t \in CoreThread /\ call.arg \in UserThread
                              /\ state[call.arg] # "GONE"
                              /\ \A d \in CoreThread : destroy[d] # call.arg /\ trap[d] # call
    [] call.op = "suspend" -> t = Suspender /\ call.arg = None /\ suspends < MaxSuspends
    [] call.op = "wake"    -> call.arg \in UserThread \ {t}
    [] call.op = "stop"    -> t \in UserThread /\ call.arg = None
    [] call.op = "call"    -> /\ call.arg \in UserThread \ {t} /\ Home[call.arg] = Home[t]
                              /\ \A u \in Thread : helps[u] \notin {t, call.arg}
                              /\ helps[call.arg] = None
    [] call.op = "reply"   -> t \in UserThread /\ call.arg = None

SystemCall(c, call) ==
  /\ mode[c] = "run" /\ ran[c] \in Thread
  /\ MayCall(ran[c], call)
  /\ trap' = [trap EXCEPT ![ran[c]] = call]
  /\ mode' = [mode EXCEPT ![c] = "entry"]
  /\ UNCHANGED <<head, ran, state, helps, ipiVars, workVars, bootVars, suspends, orphaned>>

\* An IPI if there is one, or else the timer or a device
Interrupt(c) ==
  /\ mode[c] = "run"
  /\ trap' = [trap EXCEPT ![ran[c]] = Irq]
  /\ mode' = [mode EXCEPT ![c] = "entry"]
  /\ isr' = isr \cup (line \cap {c})
  /\ line' = line \ {c}
  /\ UNCHANGED <<head, ran, state, helps, pending, workVars, bootVars, suspends, orphaned>>

\* Main::_handle_kernel_entry: the exception of the scheduled job is handled,
\* that of the head h or the thread it helps.
Enters(c, h, op) ==
  /\ mode[c] = "entry"
  /\ h \in Heads(c)
  /\ trap[Dest(h)].op = op

-----------------------------------------------------------------------------
(* Inter-processor interrupts *)

Restart(T) == [t \in Thread |-> IF t \in T THEN "ACTIVE" ELSE state[t]]

\* ~Thread: the calls of threads that help one in D fail.
Destruct(D, st) ==
  [t \in Thread |-> IF t \in D THEN "GONE"
                    ELSE IF helps[t] \in D THEN "ACTIVE" ELSE st[t]]
NoHelp(D) == [t \in Thread |-> IF t \in D \/ helps[t] \in D THEN None ELSE helps[t]]
RemoveHeads(D) == [c \in Cpu |-> IF head[c] \in D THEN None ELSE head[c]]

\* The work list of a CPU: callers that have a thread destroyed by CPU c
Destroyers(c) == {t \in CoreThread : destroy[t] # None /\ Home[destroy[t]] = c}

\* The global work list: Tlb_invalidation::execute for all that are listed
Invalidations == {t \in CoreThread : tlb[t] > 0}
NobodyWoken == {}    \* mutant: the caller is not restarted
LastInvalidations == {t \in CoreThread : tlb[t] = 1}
CountsOn == [t \in CoreThread |-> tlb[t] - 1]    \* mutant: the work stays listed
Invalidated == [t \in CoreThread |-> IF tlb[t] > 0 THEN tlb[t] - 1 ELSE 0]
Flushed(c) == [t \in CoreThread |-> stale[t] \ {c}]

\* Flush_and_stop_cpu::execute: where the CPU gets to if there is such work
CountDown == IF left = 0 THEN UintMax ELSE left - 1
StopPlace == IF CountDown = 0 THEN "suspend" ELSE "halt"

\* Cpu::Ipi::occurred executes all work of the local and of the global list.
IpiOccurred(c, h) ==
  LET done    == Destroyers(c) \cup LastInvalidations
      victims == {destroy[t] : t \in Destroyers(c)}
  IN
  /\ Enters(c, h, "irq") /\ c \in isr
  /\ state' = Destruct(victims, Restart(done))
  /\ helps' = NoHelp(victims)
  /\ destroy' = [t \in CoreThread |-> IF t \in Destroyers(c) THEN None ELSE destroy[t]]
  /\ tlb' = Invalidated
  /\ stale' = IF Invalidations = {} THEN stale ELSE Flushed(c)
  /\ \E C \in Schedules(c, done) : Trigger(C, {c})
  /\ IF left = None
     THEN Leave(c, head) /\ UNCHANGED left
     ELSE /\ left' = CountDown
          /\ mode' = [mode EXCEPT ![c] = StopPlace]
          /\ head' = [RemoveHeads(victims) EXCEPT ![c] = IF h \in victims THEN None ELSE h]
          /\ UNCHANGED <<ran, orphaned>>
  /\ UNCHANGED <<trap, bootVars, suspends>>

\* The timer, a device, or nothing at all: initially and after a resume.
OtherInterrupt(c, h) ==
  /\ Enters(c, h, "irq") /\ c \notin isr
  /\ UNCHANGED <<state, helps>>
  /\ Leave(c, head)
  /\ UNCHANGED <<trap, ipiVars, workVars, bootVars, suspends>>

-----------------------------------------------------------------------------
(* System calls. The caller is the scheduled job. *)

\* _call_invalidate_tlb
InvalidateTlb(c, h) ==
  LET t == Dest(h) IN
  /\ Enters(c, h, "tlb")
  /\ state' = IF NrOfCpus > 1 THEN [state EXCEPT ![t] = "AWAITS_RESTART"] ELSE state
  /\ tlb' = [tlb EXCEPT ![t] = NrOfCpus - 1]
  /\ stale' = [Flushed(c) EXCEPT ![t] = Cpu \ {c}]
  /\ Trigger(Cpu \ {c}, {})
  /\ UNCHANGED helps
  /\ Leave(c, head)
  /\ UNCHANGED <<trap, destroy, left, bootVars, suspends>>

\* _call_delete_thread: is the thread deleted at once? d is the head of its CPU.
DeletesAlways(c, u, d) == TRUE    \* mutant: without the help of the other CPU
DeletesNow(c, u, d) == Home[u] = c \/ Dest(d) # u

DeleteThread(c, h) ==
  LET t == Dest(h)
      u == trap[t].arg
  IN
  /\ Enters(c, h, "delete")
  /\ \E d \in Heads(Home[u]) :
       IF DeletesNow(c, u, d)
       THEN /\ state' = Destruct({u}, state)
            /\ helps' = NoHelp({u})
            /\ LET heads == [head EXCEPT ![Home[u]] = IF d = u THEN None ELSE d]
                   woken == {x \in Thread : helps[x] = u}
               IN \E C \in Schedules(c, woken) : Trigger(C, {}) /\ Leave(c, heads)
            /\ UNCHANGED destroy
       ELSE /\ state' = [state EXCEPT ![t] = "AWAITS_RESTART"]
            /\ destroy' = [destroy EXCEPT ![t] = u]
            /\ Trigger({Home[u]}, {})
            /\ UNCHANGED helps
            /\ Leave(c, [head EXCEPT ![Home[u]] = d])
  /\ UNCHANGED <<trap, tlb, left, stale, bootVars, suspends>>

\* _call_suspend: it is executed again when the system resumes.
AllButCallerAndLast == NrOfCpus - 2    \* mutant: one CPU is not waited for
CpusToStop == NrOfCpus - 1
StopCpus(c, h) ==
  /\ Enters(c, h, "suspend") /\ fadt /\ left = None
  /\ left' = CpusToStop
  /\ mode' = [mode EXCEPT ![c] = IF NrOfCpus = 1 THEN "suspend" ELSE "halt"]
  /\ head' = [head EXCEPT ![c] = h]
  /\ Trigger(Cpu \ {c}, {})
  /\ suspends' = suspends + 1
  /\ UNCHANGED <<ran, state, helps, trap, tlb, destroy, stale, bootVars, orphaned>>

StaysConstructed == left    \* mutant: _stop_cpu is not destructed
StopCpuDestructed == IF left = 0 THEN None ELSE left
EndSuspend(c, h) ==
  /\ Enters(c, h, "suspend") /\ fadt /\ left # None
  /\ left' = StopCpuDestructed
  /\ UNCHANGED <<state, helps>>
  /\ Leave(c, head)
  /\ UNCHANGED <<trap, ipiVars, tlb, destroy, stale, bootVars, suspends>>

\* Without the FADT the call fails.
FailSuspend(c, h) ==
  /\ Enters(c, h, "suspend") /\ ~fadt
  /\ UNCHANGED <<state, helps>>
  /\ Leave(c, head)
  /\ UNCHANGED <<trap, ipiVars, workVars, bootVars, suspends>>

\* _call_restart_thread
RestartThread(c, h) ==
  LET u == trap[Dest(h)].arg
      woken == IF state[u] = "AWAITS_RESTART" THEN {u} ELSE {}
  IN
  /\ Enters(c, h, "wake")
  /\ state' = Restart(woken)
  /\ \E C \in Schedules(c, woken) : Trigger(C, {})
  /\ UNCHANGED helps
  /\ Leave(c, head)
  /\ UNCHANGED <<trap, workVars, bootVars, suspends>>

\* _call_stop_thread
StopThread(c, h) ==
  /\ Enters(c, h, "stop")
  /\ state' = [state EXCEPT ![Dest(h)] = "AWAITS_RESTART"]
  /\ UNCHANGED helps
  /\ Leave(c, head)
  /\ UNCHANGED <<trap, ipiVars, workVars, bootVars, suspends>>

\* _call_send_request_msg to a server that the caller helps
SendRequest(c, h) ==
  LET t == Dest(h)
      u == trap[t].arg
      sends == state[u] # "GONE" /\ helps[u] = None
  IN
  /\ Enters(c, h, "call")
  /\ state' = IF sends THEN [state EXCEPT ![t] = "AWAITS_IPC"] ELSE state
  /\ helps' = IF sends THEN [helps EXCEPT ![t] = u] ELSE helps
  /\ Leave(c, head)
  /\ UNCHANGED <<trap, ipiVars, workVars, bootVars, suspends>>

\* _call_send_reply_msg
SendReply(c, h) ==
  LET clients == {t \in Thread : helps[t] = Dest(h)} IN
  /\ Enters(c, h, "reply")
  /\ state' = Restart(clients)
  /\ helps' = NoHelp({Dest(h)})
  /\ Leave(c, head)
  /\ UNCHANGED <<trap, ipiVars, workVars, bootVars, suspends>>

-----------------------------------------------------------------------------
(* main_initialize_and_handle_kernel_entry *)

\* Boot: the CPU creates its object, secondary CPUs after the primary.
InitializeCpu(c) ==
  /\ mode[c] = "boot" /\ (c = PrimaryCpu \/ instanceInitialized)
  /\ instanceInitialized' = TRUE
  /\ nrOfInitializedCpus' = nrOfInitializedCpus + 1
  /\ mode' = [mode EXCEPT ![c] = "counted"]
  /\ UNCHANGED <<head, ran, state, helps, trap, ipiVars, workVars, kernelInitialized, fadt,
                 suspends, orphaned>>

\* Boot: all CPUs wait for each other, and the secondary ones for core's thread.
BootBarrier(c) ==
  /\ mode[c] = "counted" /\ nrOfInitializedCpus >= NrOfCpus
  /\ c = PrimaryCpu \/ kernelInitialized
  /\ kernelInitialized' = TRUE
  /\ mode' = [mode EXCEPT ![c] = "entry"]
  /\ UNCHANGED <<head, ran, state, helps, trap, ipiVars, workVars, instanceInitialized,
                 nrOfInitializedCpus, fadt, suspends, orphaned>>

\* Resume: the first CPU resets the barrier.
CountGoesOn == nrOfInitializedCpus + 1    \* mutant: no reset
CountAfterReset == IF kernelInitialized THEN 1 ELSE nrOfInitializedCpus + 1
FlagStays(n) == kernelInitialized \/ n = NrOfCpus    \* mutant: no reset
AllReinitialized(n) == n = NrOfCpus
ReinitCpu(c) ==
  /\ mode[c] = "resume"
  /\ nrOfInitializedCpus' = CountAfterReset
  /\ kernelInitialized' = AllReinitialized(nrOfInitializedCpus')
  /\ pending' = pending \ {c}
  /\ mode' = [mode EXCEPT ![c] = "barrier"]
  /\ UNCHANGED <<head, ran, state, helps, trap, line, isr, workVars, instanceInitialized, fadt,
                 suspends, orphaned>>

ResumeBarrier(c) ==
  /\ mode[c] = "barrier" /\ kernelInitialized
  /\ mode' = [mode EXCEPT ![c] = "entry"]
  /\ UNCHANGED <<head, ran, state, helps, trap, ipiVars, workVars, bootVars, suspends, orphaned>>

\* Halt_job::proceed: ACPI powers off the CPUs and later starts them again. What
\* the interrupt controllers and TLBs held is lost.
PowerCycle(c) ==
  /\ mode[c] = "suspend"
  /\ mode' = [d \in Cpu |-> "resume"]
  /\ line' = {} /\ isr' = {}
  /\ stale' = [t \in CoreThread |-> {}]
  /\ UNCHANGED <<head, ran, state, helps, trap, pending, tlb, destroy, left, bootVars, suspends,
                 orphaned>>

-----------------------------------------------------------------------------

Handle(c) ==
  \E h \in Heads(c) :
    \/ IpiOccurred(c, h) \/ OtherInterrupt(c, h)
    \/ InvalidateTlb(c, h) \/ DeleteThread(c, h)
    \/ StopCpus(c, h) \/ EndSuspend(c, h) \/ FailSuspend(c, h)
    \/ RestartThread(c, h) \/ StopThread(c, h) \/ SendRequest(c, h) \/ SendReply(c, h)

Startup(c) == InitializeCpu(c) \/ BootBarrier(c) \/ ReinitCpu(c) \/ ResumeBarrier(c)

Next ==
  \E c \in Cpu :
    \/ Handle(c) \/ Startup(c) \/ PowerCycle(c) \/ Interrupt(c)
    \/ \E call \in Call : SystemCall(c, call)

Spec == Init /\ [][Next]_vars

-----------------------------------------------------------------------------
(* Safety *)

\* The thread that a CPU executes, or whose exception it is about to handle,
\* exists: "The destruction of a thread still active on another cpu needs
\* cross-cpu synchronization" (thread.h:99-100).
Executes(c) == mode[c] \in {"run", "entry"} /\ ran[c] \in Thread
ExecutedExists == \A c \in Cpu : Executes(c) => state[ran[c]] # "GONE"

\* The same as long as the CPU's head is the one that led to this thread. If the
\* head is a client that helps it, another CPU may delete the client at once, and
\* from then on scheduled_job() is not the thread (_call_delete_thread).
RunningExists == \A c \in Cpu \ orphaned : Executes(c) => state[ran[c]] # "GONE"

\* A CPU that enters the kernel handles the exception of the job that it was
\* executing, and no other (Cpu::schedule asks the scheduler for that job),
\* whatever calls, replies and deletions of helpers and helped threads came
\* before, unless its head was deleted meanwhile.
HandlesOwnException ==
  \A c \in Cpu \ orphaned : mode[c] = "entry" => {Dest(h) : h \in Heads(c)} = {ran[c]}

\* A CPU that has to execute work for somebody who waits has an IPI that tells
\* it so (trigger_ip_interrupt sends none while one is pending).
WorkAnnounced ==
  \A c \in Cpu :
    Destroyers(c) # {} \/ (\E t \in Invalidations : c \in stale[t]) => c \in line \cup isr

\* A TLB invalidation is over when no other CPU uses the old translations:
\* "the caller gets blocked until all finished" (thread.h:78).
InvalidatedEverywhere == \A t \in CoreThread : state[t] = "ACTIVE" => stale[t] = {}

\* The power is switched off by the last CPU, all others have stopped: "all CPUs
\* signaled that they are stopped, trigger ACPI suspend" (x86_64 thread.cc:76).
StoppedBeforeSuspend ==
  \A c \in Cpu : mode[c] = "suspend" => \A d \in Cpu \ {c} : mode[d] = "halt"

\* No CPU works before all have been (re)initialized, at boot and at each resume.
BarrierHolds ==
  (\E c \in Cpu : mode[c] \in {"run", "entry"}) =>
    \A c \in Cpu : mode[c] \notin {"boot", "resume"}

\* CPUs stop only for a suspend that is going on, not after the resume:
\* Flush_and_stop_cpu is for "before suspending or powering off" (thread.h:119).
HaltsForSuspend ==
  (\E c \in Cpu : mode[c] = "halt") => left # None /\ left < NrOfCpus

-----------------------------------------------------------------------------
(* Liveness: a CPU that spins gets the lock, and one that runs gets its IPI. *)

Fairness ==
  \A c \in Cpu :
    /\ WF_vars(Handle(c)) /\ WF_vars(Startup(c)) /\ WF_vars(PowerCycle(c))
    /\ SF_vars(c \in line /\ Interrupt(c))

FairSpec == Spec /\ Fairness

\* Whoever waits for other CPUs goes on in the end, if no CPU loses its head: such a
\* CPU handles the exception of another job and may leave an IPI unfinished.
WorkEnds ==
  [](orphaned = {}) =>
    \A t \in CoreThread : (tlb[t] > 0 \/ destroy[t] # None) ~> state[t] = "ACTIVE"

\* A suspended system works again: every CPU runs, and the suspend call returns.
ResumeEnds ==
  /\ \A c \in Cpu : mode[c] = "resume" ~> mode[c] = "run"
  /\ left # None ~> left = None

=============================================================================

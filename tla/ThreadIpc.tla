------------------------------ MODULE ThreadIpc ------------------------------
(***************************************************************************)
(* Synchronous IPC of the base-hw kernel and what it does to scheduling.   *)
(*                                                                         *)
(* Sources: base-hw/src/core/kernel/ipc_node.{h,cc} (the IPC nodes),       *)
(* thread.{h,cc} (the kernel calls that drive them, thread states, pause), *)
(* cpu.cc and cpu_context.h (a thread's CPU share and its helpers).        *)
(*                                                                         *)
(* A thread that calls a server on its own CPU keeps its CPU share ready   *)
(* and lends it to the server ("helping"); the scheduler runs whoever is   *)
(* at the end of the helping chain that starts at the share it selects.    *)
(* The module keeps all of that control and abstracts message contents,    *)
(* capabilities and the choice between ready shares (see CpuScheduler).    *)
(*                                                                         *)
(* Every action is one kernel pass: the kernel holds its data lock while   *)
(* it runs one (main.cc), so passes of different CPUs are atomic.          *)
(***************************************************************************)
EXTENDS Naturals, SequencesExt

CONSTANTS
  Thread,        \* kernel thread objects (slots that are constructed, deleted, reused)
  Cpu,           \* CPUs of the pool
  PrimaryCpu,    \* the boot CPU, the only one core threads run on
  Affinity,      \* the CPUs that core starts a thread on
  Level,         \* call hierarchy: a thread calls only threads of a lower level
  None           \* the null pointer

ASSUME ThreadIpcAssumption ==
  /\ PrimaryCpu \in Cpu
  /\ Affinity \in [Thread -> SUBSET Cpu]
  /\ Level \in [Thread -> Nat]
  /\ None \notin Thread \cup Cpu

VARIABLES
  state,     \* Thread::_state, NONE while the object does not exist
  paused,    \* the threads whose Thread::_paused is set
  cpu,       \* Cpu_job::_cpu
  ready,     \* the threads whose CPU share is ready (Cpu_share::_ready)
  inState,   \* Ipc_node::_in.state
  inQueue,   \* Ipc_node::_in.queue
  outState,  \* Ipc_node::_out.state
  outNode,   \* Ipc_node::_out.node
  request,   \* the thread whose request the node received and has to answer
  unmasked,  \* history: the call of a paused thread has ended and made it active
  halted     \* the assertion that failed: the CPU spins with the kernel lock held

nodeVars == <<inState, inQueue, outState, outNode, request>>
vars == <<state, paused, cpu, ready, nodeVars, unmasked, halted>>

ThreadState == {"NONE", "AWAITS_START", "ACTIVE", "AWAITS_IPC",
                "AWAITS_RESTART", "DEAD"}
InState  == {"READY", "WAIT", "REPLY", "REPLY_NO_SENDER"}
OutState == {"READY", "SEND", "SEND_HELPING"}

\* Assertions that fail: that the shares of a thread to pause belong to the CPU
\* of the caller (cpu.cc:36), that a thread to restart is active or stopped
\* (thread.cc:404), any other one, or none so far.
Assertion == {"none", "pause", "restart", "other"}
Verdict(holds) == IF holds THEN "none" ELSE "other"

TypeOK ==
  /\ state \in [Thread -> ThreadState]
  /\ paused \subseteq Thread
  /\ cpu \in [Thread -> Cpu \cup {None}]
  /\ ready \subseteq Thread
  /\ inState \in [Thread -> InState]
  /\ inQueue \in [Thread -> Seq(Thread)]
  /\ outState \in [Thread -> OutState]
  /\ outNode \in [Thread -> Thread \cup {None}]
  /\ request \in [Thread -> Thread \cup {None}]
  /\ unmasked \in BOOLEAN
  /\ halted \in Assertion

All(value) == [t \in Thread |-> value]

Init ==
  /\ state = All("NONE") /\ paused = {} /\ cpu = All(None) /\ ready = {}
  /\ inState = All("READY") /\ inQueue = All(<<>>) /\ request = All(None)
  /\ outState = All("READY") /\ outNode = All(None)
  /\ unmasked = FALSE
  /\ halted = "none"

\* The assertion a has failed, and what the other variables hold does not matter
\* any more.
Halt(a) ==
  /\ halted' = a
  /\ state' = All("NONE") /\ paused' = {} /\ cpu' = All(None) /\ ready' = {}
  /\ inState' = All("READY") /\ inQueue' = All(<<>>) /\ request' = All(None)
  /\ outState' = All("READY") /\ outNode' = All(None)
  /\ UNCHANGED unmasked

-----------------------------------------------------------------------------
(* Queue and helping structure *)

\* Fifo::enqueue
EnqueuedFirst(q, t) == <<t>> \o q    \* mutant: newest client first
Enqueued(q, t) == Append(q, t)

\* Fifo::remove: take one element out of the queue, if it is there.
StillIn(q, t) == q    \* mutant: the element stays linked
Without(q, t) ==
  IF t \in ToSet(q) THEN RemoveAt(q, CHOOSE i \in DOMAIN q : q[i] = t) ELSE q

Sending(t) == outState[t] \in {"SEND", "SEND_HELPING"}

\* Ipc_node::_helping
Helping(t) == outState[t] = "SEND_HELPING" /\ outNode[t] # None

\* Ipc_node::for_each_helper
Helpers(t) == {h \in ToSet(inQueue[t]) : Helping(h)}

\* The shares that _activate_used_shares and _deactivate_used_shares walk
\* over: that of t, those of its helpers, of their helpers and so on.
UsedShares(t) ==
  LET helping == {h \in Thread : Helping(h)}
      closed  == {S \in SUBSET helping : \A v \in S \cup {t} : Helpers(v) \subseteq S}
  IN  {t} \cup {h \in helping : \A S \in closed : h \in S}

\* Cpu::scheduled_job: the thread at the end of a helping chain that starts
\* at a ready share. Which of them a CPU executes is up to the scheduler.
Scheduled(t) == ~Helping(t) /\ \E u \in UsedShares(t) : u \in ready

\* What _become_inactive and _call_pause_thread ask before they deactivate shares
Runs(t) == state[t] = "ACTIVE" /\ t \notin paused

\* Thread::_become_active: the shares it activates of a thread that is not
\* active. A paused thread only changes its state.
BecomeActiveAlways(t) == UsedShares(t)    \* mutant: pause is ignored
BecomeActive(t) == IF t \in paused THEN {} ELSE UsedShares(t)

\* Thread::ipc_send_request_succeeded and ipc_send_request_failed: the shares
\* they activate of a client whose call ends.
EndCallAlways(c) == UsedShares(c)    \* mutant: also of a client that helped
EndCall(c) == IF c \in ready THEN {} ELSE UsedShares(c)

\* Cpu_scheduler::ready asserts that no share it is given is ready yet.
CanActivate(shares) == shares \cap ready = {}

\* Cpu_scheduler::unready asserts that the share is ready, and
\* Cpu_job::_deactivate_own_share that it belongs to the executing CPU.
CanDeactivate(shares, executing) == \A u \in shares : u \in ready /\ cpu[u] = executing

\* ready' after activating the shares On and deactivating the shares Off.
SetShares(On, Off) ==
  ready' = (ready \cup On) \ Off

-----------------------------------------------------------------------------
(* Life of a thread object: kernel calls of core *)

\* call_id_new_thread: construct the object, not yet on any CPU.
NewThread(t) ==
  /\ halted = "none" /\ state[t] = "NONE"
  /\ state' = [state EXCEPT ![t] = "AWAITS_START"]
  /\ UNCHANGED <<paused, cpu, ready, nodeVars, unmasked, halted>>

\* _call_start_thread: link the thread to a CPU and _become_active.
StartThread(t, c) ==
  LET on == BecomeActive(t) IN
  /\ halted = "none" /\ state[t] = "AWAITS_START" /\ c \in Affinity[t]
  /\ halted' = Verdict(CanActivate(on))
  /\ cpu' = [cpu EXCEPT ![t] = c]
  /\ state' = [state EXCEPT ![t] = "ACTIVE"]
  /\ SetShares(on, {})
  /\ UNCHANGED <<paused, nodeVars, unmasked>>

\* _call_pause_thread, executed by core on the boot CPU. If shares of another CPU
\* are to be deactivated, an assertion fails.
PauseThread(t) ==
  LET off == IF Runs(t) THEN UsedShares(t) ELSE {} IN
  /\ halted = "none" /\ state[t] # "NONE"
  /\ IF \E u \in off : cpu[u] # PrimaryCpu
     THEN Halt("pause")
     ELSE /\ halted' = Verdict(CanDeactivate(off, PrimaryCpu))
          /\ paused' = paused \cup {t}
          /\ SetShares({}, off)
          /\ UNCHANGED <<state, cpu, nodeVars, unmasked>>

\* _call_resume_thread
ResumeThread(t) ==
  LET on == IF state[t] = "ACTIVE" THEN UsedShares(t) ELSE {} IN
  /\ halted = "none" /\ t \in paused
  /\ halted' = Verdict(CanActivate(on))
  /\ paused' = paused \ {t}
  /\ SetShares(on, {})
  /\ UNCHANGED <<state, cpu, nodeVars, unmasked>>

\* The node of a destroyed thread in the view of the server it called:
\* Ipc_node::_cancel_send marks a request in process as withdrawn.
NeverWithdrawn(t, s) == FALSE    \* mutant: the server is not told
WithdrawnIfLast(t, s) ==    \* mutant: the server is not told if it has other clients
  outNode[t] = s /\ inState[s] = "REPLY" /\ inQueue[s] = <<t>>
Withdrawn(t, s) ==
  outNode[t] = s /\ inState[s] = "REPLY" /\ Head(inQueue[s]) = t

\* Ipc_node::_in.state of a slot without an object, as the next object in it
\* will start (~Ipc_node itself sets DESTRUCT while it runs).
LeftInState == "DESTRUCT"    \* mutant: the next object starts with what is left
FreeInState == "READY"

\* _call_delete_thread and Destroy::execute: ~Ipc_node withdraws the own
\* request and fails those of all queued clients, ~Cpu_job leaves the CPU.
DeleteThread(t) ==
  LET clients == ToSet(inQueue[t])
      woken   == {c \in clients : Sending(c)}
      on      == UNION {EndCall(c) : c \in woken}
  IN
  /\ halted = "none" /\ state[t] # "NONE"
  /\ halted' = Verdict(CanActivate(on) /\ \A c \in woken : state[c] = "AWAITS_IPC")
  /\ unmasked' = (unmasked \/ woken \cap paused # {})
  /\ inState' = [s \in Thread |-> IF s = t THEN FreeInState
                                 ELSE IF Withdrawn(t, s) THEN "REPLY_NO_SENDER"
                                 ELSE inState[s]]
  /\ request' = [s \in Thread |-> IF s = t \/ Withdrawn(t, s) THEN None ELSE request[s]]
  /\ inQueue' = [s \in Thread |-> IF s = t THEN <<>>
                                 ELSE IF s = outNode[t] THEN Without(inQueue[s], t)
                                 ELSE inQueue[s]]
  /\ outNode' = [c \in Thread |-> IF c = t \/ c \in clients THEN None ELSE outNode[c]]
  /\ outState' = [c \in Thread |-> IF c = t \/ c \in woken THEN "READY" ELSE outState[c]]
  /\ state' = [c \in Thread |-> IF c = t THEN "NONE"
                               ELSE IF c \in woken THEN "ACTIVE" ELSE state[c]]
  /\ SetShares(on, {t})
  /\ paused' = paused \ {t}
  /\ cpu' = [cpu EXCEPT ![t] = None]

-----------------------------------------------------------------------------
(* Kernel calls and exceptions of the executing thread *)

\* Thread::_become_inactive of the executing thread
BecomeInactive(t, s) ==
  LET off == IF Runs(t) THEN UsedShares(t) ELSE {} IN
  /\ halted' = Verdict(CanDeactivate(off, cpu[t]))
  /\ state' = [state EXCEPT ![t] = s]
  /\ SetShares({}, off)

\* _call_stop_thread, and _mmu_exception as far as the thread is concerned
StopThread(t) ==
  /\ halted = "none" /\ Scheduled(t)
  /\ BecomeInactive(t, "AWAITS_RESTART")
  /\ UNCHANGED <<paused, cpu, nodeVars, unmasked>>

\* _call_stop_thread asserts that its caller is active.
StopInactive(t) ==
  /\ halted = "none" /\ Scheduled(t) /\ state[t] # "ACTIVE"
  /\ Halt("other")

\* Thread::_die after an exception that no pager takes, a kernel call the
\* thread is not entitled to, or a request to an invalid capability
Die(t) ==
  /\ halted = "none" /\ Scheduled(t)
  /\ BecomeInactive(t, "DEAD")
  /\ UNCHANGED <<paused, cpu, nodeVars, unmasked>>

\* Thread::_restart of a stopped thread, by another thread of the protection
\* domain or by core's pager. On an active one the call returns false.
RestartThread(t) ==
  LET on == BecomeActive(t) IN
  /\ halted = "none" /\ state[t] = "AWAITS_RESTART"
  /\ halted' = Verdict(CanActivate(on))
  /\ state' = [state EXCEPT ![t] = "ACTIVE"]
  /\ SetShares(on, {})
  /\ UNCHANGED <<paused, cpu, nodeVars, unmasked>>

\* Thread::_restart of a thread in any other state
RestartOther(t) ==
  /\ halted = "none" /\ state[t] \notin {"NONE", "ACTIVE", "AWAITS_RESTART"}
  /\ Halt("restart")

\* The shares of t that block with it when it called d and Ipc_node::send
\* activated the shares on: none if t helps and the share of d is active now.
BlockStale(t, d, on) ==    \* mutant: looks at the share of d before the send
  IF cpu[d] = cpu[t] /\ d \in ready THEN {} ELSE UsedShares(t)
Block(t, d, on) ==
  IF cpu[d] = cpu[t] /\ (d \in ready \/ d \in on) THEN {} ELSE UsedShares(t)

\* _call_send_request_msg to the started thread d. A node that is not ready
\* to send only blocks its thread.
\* Out of memory for receiving capabilities, the call changes nothing.
SendRequest(t, d) ==
  LET help  == cpu[d] = cpu[t]
      sends == outState[t] = "READY" /\ inState[t] # "WAIT"
      wakes == sends /\ inState[d] = "WAIT"
      on    == IF wakes THEN BecomeActive(d) ELSE {}
      off   == Block(t, d, on)
  IN
  /\ halted = "none" /\ Scheduled(t)
  /\ state[d] \notin {"NONE", "AWAITS_START"}
  /\ Level[d] < Level[t]
  /\ halted' = Verdict(/\ wakes => state[d] = "AWAITS_IPC"
                       /\ CanActivate(on)
                       /\ CanDeactivate(off, cpu[t]))
  /\ inQueue' = [inQueue EXCEPT ![d] = IF sends THEN Enqueued(@, t) ELSE @]
  /\ inState' = [inState EXCEPT ![d] = IF wakes THEN "REPLY" ELSE @]
  /\ request' = [request EXCEPT ![d] = IF wakes THEN t ELSE @]
  /\ outNode' = [outNode EXCEPT ![t] = IF sends THEN d ELSE @]
  /\ outState' = [outState EXCEPT ![t] = IF ~sends THEN @
                                        ELSE IF help THEN "SEND_HELPING" ELSE "SEND"]
  /\ state' = [state EXCEPT ![t] = "AWAITS_IPC", ![d] = IF wakes THEN "ACTIVE" ELSE @]
  /\ SetShares(on, off)
  /\ UNCHANGED <<paused, cpu, unmasked>>

\* Ipc_node::wait of a ready node with the in-queue q: receive from the first
\* queued sender, or wait. A node that waits has no helper, its own share is
\* the only one that _become_inactive deactivates.
WaitsBlindly(q) == TRUE    \* mutant: does not look at the queue
Waits(q) == q = <<>>
WaitState(q) == IF Waits(q) THEN "WAIT" ELSE "REPLY"
Received(q) == IF Waits(q) THEN None ELSE Head(q)

\* _call_await_request_msg: a thread that still owes a reply dies.
\* Out of memory for receiving capabilities, the call changes nothing.
AwaitRequest(t) ==
  /\ halted = "none" /\ Scheduled(t)
  /\ IF inState[t] = "READY"
     THEN LET off == IF Waits(inQueue[t]) /\ Runs(t) THEN {t} ELSE {} IN
          /\ inState' = [inState EXCEPT ![t] = WaitState(inQueue[t])]
          /\ request' = [request EXCEPT ![t] = Received(inQueue[t])]
          /\ state' = [state EXCEPT ![t] = IF Waits(inQueue[t]) THEN "AWAITS_IPC" ELSE @]
          /\ halted' = Verdict(CanDeactivate(off, cpu[t]))
          /\ SetShares({}, off)
     ELSE BecomeInactive(t, "DEAD") /\ UNCHANGED <<inState, request>>
  /\ UNCHANGED <<paused, cpu, inQueue, outState, outNode, unmasked>>

\* _call_send_reply_msg: answer the request in process, if its sender is
\* still there, and then await the next one if the caller says so (without
\* memory for capabilities the second half is skipped, as with ~await).
SendReply(t, await) ==
  LET replies == inState[t] = "REPLY"
      c       == Head(inQueue[t])
      rest    == IF replies THEN Tail(inQueue[t]) ELSE inQueue[t]
      on      == IF replies THEN EndCall(c) ELSE {}
      blocks  == await /\ Waits(rest)
      off     == IF blocks /\ Runs(t) THEN {t} ELSE {}
  IN
  /\ halted = "none" /\ Scheduled(t)
  /\ halted' = Verdict(/\ replies => state[c] = "AWAITS_IPC"
                       /\ CanActivate(on)
                       /\ CanDeactivate(off, cpu[t]))
  /\ unmasked' = (unmasked \/ (replies /\ c \in paused))
  /\ inState' = [inState EXCEPT ![t] = IF await THEN WaitState(rest) ELSE "READY"]
  /\ request' = [request EXCEPT ![t] = IF await THEN Received(rest) ELSE None]
  /\ inQueue' = [inQueue EXCEPT ![t] = rest]
  /\ outNode' = [u \in Thread |-> IF replies /\ u = c THEN None ELSE outNode[u]]
  /\ outState' = [u \in Thread |-> IF replies /\ u = c THEN "READY" ELSE outState[u]]
  /\ state' = [u \in Thread |-> IF replies /\ u = c THEN "ACTIVE"
                               ELSE IF blocks /\ u = t THEN "AWAITS_IPC" ELSE state[u]]
  /\ SetShares(on, off)
  /\ UNCHANGED <<paused, cpu>>

-----------------------------------------------------------------------------

CoreStep(t) ==
  \/ NewThread(t)
  \/ \E c \in Cpu : StartThread(t, c)
  \/ PauseThread(t)
  \/ ResumeThread(t)
  \/ DeleteThread(t)

ThreadStep(t) ==
  \/ StopThread(t)
  \/ StopInactive(t)
  \/ Die(t)
  \/ RestartThread(t)
  \/ RestartOther(t)
  \/ \E d \in Thread : SendRequest(t, d)
  \/ AwaitRequest(t)
  \/ \E await \in BOOLEAN : SendReply(t, await)

\* The loop behind a failed assertion
Spin == halted # "none" /\ UNCHANGED vars

Next == Spin \/ \E t \in Thread : CoreStep(t) \/ ThreadStep(t)

Spec == Init /\ [][Next]_vars

-----------------------------------------------------------------------------
(* Safety *)

\* The kernel has not met a failed assertion, nor did the call of a paused thread
\* end. Such an end leaves the thread active, ready and paused, although the code
\* relies on pause to mask readiness (ipc_send_request_succeeded, thread.cc:231).
Intact == ~unmasked /\ halted = "none"

\* Only two assertions of the kernel's thread, job and scheduler code can be
\* the first to fail, unless the call of a paused thread has ended: that of a
\* pause of a thread of another CPU and that of a restart of a blocked or dead
\* one. Whatever order sends, replies, stops, faults, pauses, restarts and
\* deletions come in, no share is made ready or unready twice and nobody
\* completes an IPC of a thread that awaits none
\* (cpu_scheduler.cc:214,250, thread.cc:233,242,251,328).
OtherAssertionsHold == ~unmasked => halted # "other"

\* Pausing a thread "may target any thread" (core_interface.h:105), one of another
\* CPU included: the assertion on the executing CPU does not fail (cpu.cc:36).
PauseTargetsAny == halted # "pause"

\* No assertion of the kernel fails at all, whatever thread of its domain somebody
\* restarts (thread.cc:404).
NoAssertionFails == halted = "none"

\* Whatever thread the scheduler reaches through a helping chain is able to
\* run: it is active and not paused (Cpu::scheduled_job, thread.cc:265-291), as
\* long as the call of no paused thread has ended.
ScheduledRunnable == Intact => \A t \in Thread : Scheduled(t) => Runs(t)

\* Pausing a thread keeps it from being scheduled, in whatever state it is
\* (the documentation of pause_thread, core_interface.h:98-110).
PausedNotScheduled == \A t \in Thread : t \in paused => ~Scheduled(t)

\* A client waits in the queue of the server it called and in no other, once
\* (Ipc_node::send, _cancel_send, reply).
QueuesMatchSenders ==
  \A t, s \in Thread :
    /\ t \in ToSet(inQueue[s]) <=> outNode[t] = s
    /\ outNode[t] = s => Sending(t) /\ state[s] \notin {"NONE", "AWAITS_START"}
    /\ Sending(t) => outNode[t] # None
    /\ \A i, j \in DOMAIN inQueue[s] : inQueue[s][i] = inQueue[s][j] => i = j

\* The client a server would answer next, the first of its queue, is the one
\* whose request it received, even after the deletion of clients that it was
\* serving or that were queued (Ipc_node::_cancel_send, REPLY_NO_SENDER), and a
\* server that waits for a request has nobody queued (no lost wakeup).
ServesHead ==
  \A s \in Thread :
    /\ inState[s] = "REPLY" => inQueue[s] # <<>> /\ request[s] = Head(inQueue[s])
    /\ inState[s] # "REPLY" => request[s] = None
    /\ inState[s] = "WAIT" => inQueue[s] = <<>>

\* Calls go down the hierarchy, so that helping chains end.
CallsDescend ==
  \A t, s \in Thread : outNode[t] = s => Level[s] < Level[t]

\* Nobody is forgotten: the share of a thread that can run is ready, and the
\* share of a helper is ready exactly if that of the thread it helps is
\* (thread.cc:552, ipc_send_request_succeeded and _activate_used_shares).
SharesFollowHelping ==
  \A t \in Thread :
    /\ Runs(t) => t \in ready
    /\ Helping(t) => (t \in ready <=> outNode[t] \in ready) /\ cpu[t] = cpu[outNode[t]]
    /\ t \in ready => Runs(t) \/ Helping(t)

\* A thread blocks in IPC exactly if it waits for one of a reply or a request.
BlockedForOneReason ==
  \A t \in Thread :
    /\ inState[t] = "WAIT" => ~Sending(t)
    /\ state[t] = "AWAITS_IPC" <=> Sending(t) \/ inState[t] = "WAIT"

\* The queues of IPC nodes agree with each other whatever happens to threads, and
\* no assertion fails that others than core and the caller of a restart are
\* responsible for. As long as nothing else has happened, threads, nodes and shares
\* agree: the invariant that every kernel pass relies on and restores
\* (ipc_node.cc, _become_active, _become_inactive, _deactivate_used_shares).
QueueInv == TypeOK /\ QueuesMatchSenders /\ ServesHead /\ CallsDescend
ShareInv == SharesFollowHelping /\ BlockedForOneReason
IInv == QueueInv /\ OtherAssertionsHold /\ (Intact => ShareInv)

\* A call ends only by the reply of the server that received this very
\* request, or because that server, or the caller, is deleted.
CallEndStep ==
  \A c, s \in Thread :
    outNode[c] = s /\ outNode'[c] # s =>
      \/ state'[s] = "NONE" \/ state'[c] = "NONE"
      \/ request[s] = c /\ inState[s] = "REPLY" /\ Scheduled(s)
CallEndsByReplyOrDeletion == [][CallEndStep]_vars

\* Clients of a server are received in the order of their calls: whoever is in
\* front of a client that was queued before the step was in front of it already
\* (Ipc_node::send, reply, _cancel_send).
KeepsOrder(q, r) ==
  \A i \in DOMAIN q, k, l \in DOMAIN r :
    r[l] = q[i] /\ k < l => \E h \in DOMAIN q : h < i /\ q[h] = r[k]
OrderStep == \A s \in Thread : KeepsOrder(inQueue[s], inQueue'[s])
NoOvertaking == [][OrderStep]_vars

-----------------------------------------------------------------------------
(* Liveness *)

\* The scheduler runs every ready share again and again, and a server that
\* gets to run comes back to its dispatch loop, which replies and awaits
\* (rpc_dispatch_loop.cc). Stopped threads are restarted by who holds the lock
\* they wait for or by the pager.
Fairness ==
  \A t \in Thread :
    /\ SF_vars(SendReply(t, TRUE))
    /\ WF_vars(RestartThread(t))

FairSpec == Spec /\ Fairness

\* A caller does not wait forever: its call ends unless some thread it may
\* depend on has died or stays paused, an assertion has failed, or the call of a
\* paused thread has ended before (Ipc_node::reply, wait, ~Ipc_node).
CallsEnd ==
  \A c \in Thread :
    Sending(c) ~> \/ ~Sending(c) \/ ~Intact
                  \/ \E s \in Thread : Level[s] < Level[c] /\ (state[s] = "DEAD" \/ s \in paused)

=============================================================================

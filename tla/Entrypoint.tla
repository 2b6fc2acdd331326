----------------------------- MODULE Entrypoint -----------------------------
(***************************************************************************)
(* An entrypoint of the base library: its signal-proxy thread, the signal  *)
(* library underneath, and the kernel's signal receiver.                   *)
(*                                                                         *)
(* Sources: base/src/lib/base/entrypoint.cc (proxy, dispatch, deferral),   *)
(* base-hw/src/lib/base/signal_receiver.cc and                             *)
(* base/src/lib/base/signal_common.cc (contexts, block_for_signal,         *)
(* pending_signal, dissolve). The kernel is module SignalReceiver.         *)
(*                                                                         *)
(* The proxy blocks for signals, marks their contexts as pending and calls *)
(* the entrypoint by RPC, which fetches one pending signal and dispatches  *)
(* it. The code of a handler, or of any other RPC, may wait for I/O        *)
(* signals itself: signals of application level that it meets are deferred.*)
(* Handlers are dissolved by the entrypoint's own thread, as is the rule   *)
(* for their use, so that nobody else takes the mutex of the list of       *)
(* contexts. The mutex of a context is not held across an action here,     *)
(* _block_for_signal_mutex and _destroy_mutex are.                         *)
(*                                                                         *)
(* An object of class Signal_context is known by its address: after it has *)
(* been dissolved it may be managed again, or it may be destructed and     *)
(* another one takes its place. Its memory is not used for anything else.  *)
(***************************************************************************)
EXTENDS Naturals, SequencesExt

CONSTANTS
  Proxy, Ep,         \* the two threads
  Rec,               \* the entrypoint's signal receiver
  DeferredHandler,   \* context of Entrypoint::_deferred_signal_handler
  Io, App,           \* signal contexts of I/O and application level
  Permanent,         \* contexts managed from the start and never dissolved
  None,
  MaxSubmits,        \* bound of the kernel's counter
  MaxNum,            \* bound of the model: numbers of notifications saturate here
  MaxNest            \* bound of the model: nested waits for I/O signals

Thread   == {Proxy, Ep}
Receiver == {Rec}
User     == Io \cup App
Context  == User \cup {DeferredHandler}

ASSUME EntrypointAssumption ==
  /\ Proxy # Ep /\ None \notin Thread \cup Context \cup Receiver
  /\ DeferredHandler \notin User /\ Io \cap App = {}
  /\ Permanent \subseteq User /\ IsFiniteSet(Permanent)
  /\ MaxSubmits \in Nat \ {0, 1} /\ MaxNum \in Nat \ {0} /\ MaxNest \in Nat

VARIABLES
  state, awaiting, killing, cancelNext, receiver, submits, ack, killed, killer,
  handlers, deliver, owed, halted,   \* the kernel, see SignalReceiver
  pc,          \* where a thread is
  utcb,        \* Signal::Data that the kernel handed to the thread
  pending,     \* the contexts whose _pending is set
  curr,        \* Signal_context::_curr_signal.num, 0 for an invalid signal
  ring,        \* Signal_receiver::_contexts from its head on
  blockMutex,  \* the holder of _block_for_signal_mutex
  delivers,    \* _signal_proxy_delivers_signal
  deferred,    \* _deferred_signals
  stack,       \* what the entrypoint executes, the innermost call last
  victim,      \* the context that is being dissolved
  sum,         \* notifications handed out by the kernel since the context's last Signal
  late,        \* history: the kernel handed out a signal of a killed context
  reused,      \* history: a context was managed whose _pending is left from a dissolve
  polled       \* history: the last wait left deferred signals, telling nobody

kernelVars == <<state, awaiting, killing, cancelNext, receiver, submits, ack, killed,
                killer, handlers, deliver, owed, halted>>
libVars == <<pending, curr, ring, reused, late>>
epVars == <<blockMutex, delivers, deferred, stack, victim, polled>>
vars == <<kernelVars, pc, utcb, libVars, epVars, sum>>

Kernel == INSTANCE SignalReceiver WITH Batch <- {1}, forgotten <- {}

ProxyPlace == {"take", "await", "woken", "update", "ack", "call", "inCall"}
EpPlace == {"idle", "drain", "scan", "poll", "pollUpdate", "pollAck", "waitBlock",
            "await", "woken", "update", "ack", "user", "kill", "free", "destroy"}
WaitKind == {"wait", "try"}    \* wait_and_dispatch_one_io_signal, dispatch_pending_io_signal
NoData == [context |-> None, num |-> 0]
Frame == [kind : {"signal", "rpc", "item"} \cup WaitKind, context : Context \cup {None}]

TypeOK ==
  /\ Kernel!TypeOK
  /\ pc[Proxy] \in ProxyPlace /\ pc[Ep] \in EpPlace
  /\ utcb \in [Thread -> [context : Context \cup {None}, num : 0 .. MaxNum]]
  /\ pending \subseteq Context
  /\ curr \in [Context -> 0 .. MaxNum]
  /\ IsInjective(ring) /\ ToSet(ring) \subseteq Context
  /\ blockMutex \in Thread \cup {None}
  /\ delivers \in BOOLEAN
  /\ IsInjective(deferred) /\ ToSet(deferred) \subseteq Context
  /\ stack \in Seq(Frame)
  /\ victim \in User \cup {None}
  /\ sum \in [Context -> 0 .. MaxNum]
  /\ late \in BOOLEAN /\ reused \in BOOLEAN /\ polled \in BOOLEAN

\* The entrypoint is up, its handler for deferred signals is managed, and the
\* application has been constructed.
Init ==
  /\ state = [t \in Thread |-> "ACTIVE"]
  /\ awaiting = [t \in Thread |-> None]
  /\ killing = [t \in Thread |-> None]
  /\ cancelNext = {}
  /\ receiver = [c \in Context |-> IF c \in Permanent \cup {DeferredHandler} THEN Rec ELSE None]
  /\ submits = [c \in Context |-> 0]
  /\ ack = Context
  /\ killed = {}
  /\ killer = [c \in Context |-> None]
  /\ handlers = [r \in Receiver |-> <<>>]
  /\ deliver = [r \in Receiver |-> <<>>]
  /\ owed = [c \in Context |-> 0]
  /\ halted = FALSE
  /\ pc = [t \in Thread |-> IF t = Proxy THEN "take" ELSE "idle"]
  /\ utcb = [t \in Thread |-> NoData]
  /\ pending = {}
  /\ curr = [c \in Context |-> 0]
  /\ ring = <<DeferredHandler>> \o SetToSeq(Permanent)
  /\ blockMutex = None
  /\ delivers = FALSE
  /\ deferred = <<>>
  /\ stack = <<>>
  /\ victim = None
  /\ sum = [c \in Context |-> 0]
  /\ late = FALSE /\ reused = FALSE /\ polled = FALSE

Capped(n) == IF n > MaxNum THEN MaxNum ELSE n
Goto(t, place) == pc' = [pc EXCEPT ![t] = place]
Without(q, c) ==
  IF c \in ToSet(q) THEN RemoveAt(q, CHOOSE i \in DOMAIN q : q[i] = c) ELSE q
Top == Last(stack)

-----------------------------------------------------------------------------
(* The kernel as seen by the library *)

\* The contexts that this kernel pass hands to a thread, with their submits.
Handed ==
  {c \in Context : /\ c \notin ack' /\ (c \in ack \/ submits[c] > 0)
                   /\ submits'[c] = 0 /\ receiver'[c] # None}

\* The data of a signal of n new submits arrive in the UTCB of thread t; utcbs
\* are the UTCBs before.
Receives(t, n, utcbs) ==
  IF Handed = {} THEN utcb' = utcbs /\ UNCHANGED sum
  ELSE LET c   == CHOOSE h \in Handed : TRUE
           num == Capped(submits[c] + n)
       IN /\ utcb' = [utcbs EXCEPT ![t] = [context |-> c, num |-> num]]
          /\ sum' = [sum EXCEPT ![c] = Capped(@ + num)]

\* The thread that is served by a submit or an acknowledgement.
Waiting == IF handlers[Rec] = <<>> THEN None ELSE Head(handlers[Rec])

\* Kernel::submit_signal by anybody
SubmitSignal(c) == Kernel!Submit(c, 1) /\ Receives(Waiting, 1, utcb)

\* Kernel::ack_signal: no effect if the context is acknowledged, killed with
\* nobody waiting for that, or does not exist.
KernelAck(c) ==
  \/ Kernel!AckSignal(c)
  \/ Kernel!AckKilled(c)
  \/ /\ receiver[c] = None \/ c \in ack \/ (c \in killed /\ killer[c] = None)
     /\ UNCHANGED kernelVars

\* The thread that acknowledges does not use its signal data again.
AckSignal(t, c) == KernelAck(c) /\ Receives(Waiting, 0, [utcb EXCEPT ![t] = NoData])

-----------------------------------------------------------------------------
(* Signal_receiver::block_for_signal, by the proxy or by the entrypoint *)

\* A killed context accepts no submits, but await_signal delivers those it has.
Await(t) ==
  /\ pc[t] = "await"
  /\ Kernel!AwaitSignal(t, Rec) /\ Receives(t, 0, utcb)
  /\ late' = (late \/ Handed \cap killed # {})
  /\ Goto(t, "woken")
  /\ UNCHANGED <<pending, curr, ring, reused, epVars>>

\* Without the context's mutex: is the context pending already?
ReadPending(t) ==
  /\ pc[t] = "woken" /\ state[t] = "ACTIVE"
  /\ Goto(t, IF utcb[t].context \in pending THEN "ack" ELSE "update")
  /\ UNCHANGED <<kernelVars, utcb, libVars, epVars, sum>>

\* _curr_signal.num after the update by block_for_signal
NumOverwritten(c, n) == n - 1    \* mutant: one too few
Num(c, n) == Capped(curr[c] + n)

UpdateContext(t) ==
  LET c == utcb[t].context IN
  /\ pc[t] = "update"
  /\ curr' = [curr EXCEPT ![c] = Num(c, utcb[t].num)]
  /\ pending' = pending \cup {c}
  /\ Goto(t, "ack")
  /\ UNCHANGED <<kernelVars, utcb, ring, reused, late, epVars, sum>>

\* The acknowledgement, after which the caller gives back the mutex.
AckBlocked(t) ==
  LET c == utcb[t].context IN
  /\ pc[t] = "ack"
  /\ AckSignal(t, c)
  /\ blockMutex' = None
  /\ Goto(t, IF t = Proxy THEN "call" ELSE "scan")
  /\ UNCHANGED <<libVars, delivers, deferred, stack, victim, polled>>

-----------------------------------------------------------------------------
(* The signal-proxy thread: Entrypoint::_process_incoming_signals *)

ProxyBlock ==
  /\ pc[Proxy] = "take" /\ blockMutex = None
  /\ blockMutex' = Proxy
  /\ delivers' = TRUE
  /\ Goto(Proxy, "await")
  /\ UNCHANGED <<kernelVars, utcb, libVars, deferred, stack, victim, polled, sum>>

-----------------------------------------------------------------------------
(* The entrypoint's thread *)

Push(kind) == stack' = Append(stack, [kind |-> kind, context |-> None])

\* Signal_proxy_component::signal, called by the proxy
EpSignal ==
  /\ pc[Ep] = "idle" /\ pc[Proxy] = "call"
  /\ pc' = [pc EXCEPT ![Ep] = "drain", ![Proxy] = "inCall"]
  /\ delivers' = FALSE
  /\ Push("signal")
  /\ UNCHANGED <<kernelVars, utcb, libVars, blockMutex, deferred, victim, polled, sum>>

\* Any other RPC to the entrypoint
EpOtherRpc ==
  /\ pc[Ep] = "idle"
  /\ Goto(Ep, "user")
  /\ Push("rpc")
  /\ UNCHANGED <<kernelVars, utcb, libVars, blockMutex, delivers, deferred, victim, polled, sum>>

\* Entrypoint::_process_deferred_signals
Drain ==
  /\ pc[Ep] = "drain"
  /\ IF deferred = <<>>
     THEN Goto(Ep, "scan") /\ UNCHANGED <<deferred, stack>>
     ELSE /\ deferred' = Tail(deferred)
          /\ stack' = Append(stack, [kind |-> "item", context |-> Head(deferred)])
          /\ Goto(Ep, "user")
  /\ polled' = (polled /\ deferred' # <<>>)
  /\ UNCHANGED <<kernelVars, utcb, libVars, blockMutex, delivers, victim, sum>>

\* The list of deferred signals, in which a context is once at most
DeferredAgain(c) == <<c>> \o deferred    \* mutant: the context is listed twice
NotListed(c) == deferred    \* mutant: the context is skipped
Deferred(c) == <<c>> \o Without(deferred, c)

\* What becomes of the signal that pending_signal returned: it is deferred if
\* the caller wants I/O signals only, and dispatched otherwise; next is the
\* number that the kernel hands out next for the context.
GotSignal(c, next) ==
  /\ sum' = [sum EXCEPT ![c] = next]
  /\ IF Top.kind # "signal" /\ c \notin Io
     THEN /\ deferred' = Deferred(c)
          /\ Goto(Ep, "scan") /\ UNCHANGED stack
     ELSE /\ stack' = [stack EXCEPT ![Len(stack)].context = c]
          /\ Goto(Ep, "user") /\ UNCHANGED deferred

\* Context_ring::head after a pending context was found at position i
Turned(i) == SubSeq(ring, i + 1, Len(ring)) \o SubSeq(ring, 1, i)

\* Signal_receiver::pending_signal: the search for a pending context. It ends with
\* the first one, but goes on like without one if the signal of that is invalid.
Scan ==
  /\ pc[Ep] = "scan"
  /\ IF pending \cap ToSet(ring) = {}
     THEN Goto(Ep, "poll") /\ UNCHANGED <<libVars, deferred, stack, sum>>
     ELSE LET i == SelectInSeq(ring, LAMBDA c : c \in pending) IN
          /\ ring' = Turned(i)
          /\ pending' = pending \ {ring[i]}
          /\ curr' = [curr EXCEPT ![ring[i]] = 0]
          /\ IF curr[ring[i]] = 0
             THEN Goto(Ep, "poll") /\ UNCHANGED <<deferred, stack, sum>>
             ELSE GotSignal(ring[i], 0)
          /\ UNCHANGED <<reused, late>>
  /\ UNCHANGED <<kernelVars, utcb, blockMutex, delivers, victim, polled>>

\* The frame ends that the entrypoint executes last.
Popped == Front(stack)
Return ==
  /\ stack' = Popped
  /\ pc' = [pc EXCEPT
       ![Ep] = IF Top.kind \in {"signal", "rpc"} THEN "idle"
               ELSE IF Top.kind = "item" THEN "drain" ELSE "user",
       ![Proxy] = IF Top.kind = "signal" THEN "take" ELSE @]

\* Signal_receiver::pending_signal: Kernel::pending_signal. If there is nothing
\* either, signal() and dispatch_pending_io_signal return, while
\* wait_and_dispatch_one_io_signal blocks.
Poll ==
  /\ pc[Ep] = "poll"
  /\ Kernel!PendingSignal(Ep, Rec) /\ Receives(Ep, 0, utcb)
  /\ IF Handed # {} THEN Goto(Ep, "pollUpdate") /\ UNCHANGED <<stack, polled>>
     ELSE IF Top.kind = "wait" THEN Goto(Ep, "waitBlock") /\ UNCHANGED <<stack, polled>>
     ELSE Return /\ polled' = (polled \/ (Top.kind = "try" /\ deferred # <<>>))
  /\ UNCHANGED <<libVars, blockMutex, delivers, deferred, victim>>

\* The number of the returned signal stays behind in the context, where the next
\* update adds to it (Num). If numbers saturate at 1, that sum is 1 with or without
\* it, and it is dropped to keep states apart only if a later step does.
LeftBehind(n) == IF MaxNum = 1 THEN 0 ELSE n
PollUpdate ==
  LET c == utcb[Ep].context IN
  /\ pc[Ep] = "pollUpdate"
  /\ pending' = pending \ {c}
  /\ curr' = [curr EXCEPT ![c] = LeftBehind(utcb[Ep].num)]
  /\ Goto(Ep, "pollAck")
  /\ UNCHANGED <<kernelVars, utcb, ring, reused, late, epVars, sum>>

PollAck ==
  LET c == utcb[Ep].context IN
  /\ pc[Ep] = "pollAck"
  /\ KernelAck(c)
  /\ LET utcbs == [utcb EXCEPT ![Ep] = NoData]
     IN utcb' = IF Handed = {} THEN utcbs
                ELSE [utcbs EXCEPT ![Waiting] = [context |-> c, num |-> Capped(submits[c])]]
  /\ GotSignal(c, IF Handed = {} THEN 0 ELSE Capped(submits[c]))
  /\ UNCHANGED <<libVars, blockMutex, delivers, victim, polled>>

\* wait_and_dispatch_one_io_signal: block, unless the proxy has a signal.
WaitBlock ==
  /\ pc[Ep] = "waitBlock" /\ blockMutex = None
  /\ IF delivers THEN Goto(Ep, "scan") /\ UNCHANGED blockMutex
                 ELSE Goto(Ep, "await") /\ blockMutex' = Ep
  /\ delivers' = FALSE
  /\ UNCHANGED <<kernelVars, utcb, libVars, deferred, stack, victim, polled, sum>>

-----------------------------------------------------------------------------
(* Handlers and other user code *)

\* After a wait for I/O: have deferred signals handled by the entrypoint.
NotInitiated == FALSE    \* mutant: nobody is told
Initiates == deferred # <<>>

\* The user code of the innermost frame returns.
UserReturn ==
  /\ pc[Ep] = "user"
  /\ Return
  /\ IF Top.kind \in WaitKind /\ Initiates /\ Kernel!CanSubmit(DeferredHandler, 1)
     THEN SubmitSignal(DeferredHandler)
     ELSE UNCHANGED <<kernelVars, utcb, sum>>
  /\ polled' = (polled /\ ~(Top.kind \in WaitKind /\ Initiates))
  /\ UNCHANGED <<libVars, blockMutex, delivers, deferred, victim>>

\* Code of the application runs. _handle_deferred_signals is empty.
InUserCode == pc[Ep] = "user" /\ Top.context # DeferredHandler

\* wait_and_dispatch_one_io_signal and dispatch_pending_io_signal, called by an
\* application that has a handler for I/O signals
UserWait(kind) ==
  /\ InUserCode /\ \E c \in Io : receiver[c] # None
  /\ Cardinality({i \in DOMAIN stack : stack[i].kind \in WaitKind}) < MaxNest
  /\ Push(kind)
  /\ Goto(Ep, "scan")
  /\ UNCHANGED <<kernelVars, utcb, libVars, blockMutex, delivers, deferred, victim, polled, sum>>

\* Signal_receiver::manage of a new context, or again of one that was dissolved
\* and has kept its members
Manage(c, new) ==
  /\ InUserCode /\ receiver[c] = None
  /\ Kernel!NewContext(c, Rec)
  /\ ring' = Append(ring, c)
  /\ pending' = IF new THEN pending \ {c} ELSE pending
  /\ curr' = IF new THEN [curr EXCEPT ![c] = 0] ELSE curr
  /\ reused' = (reused \/ c \in pending')
  /\ UNCHANGED <<pc, utcb, late, epVars, sum>>

\* Signal_receiver::dissolve: _platform_begin_dissolve marks the context.
BeginDissolve(c) ==
  /\ InUserCode /\ receiver[c] # None
  /\ pending' = pending \cup {c}
  /\ curr' = [curr EXCEPT ![c] = 0]
  /\ sum' = [sum EXCEPT ![c] = 0]
  /\ victim' = c
  /\ Goto(Ep, "kill")
  /\ UNCHANGED <<kernelVars, utcb, ring, reused, late, blockMutex, delivers, deferred, stack, polled>>

\* Kernel::kill_signal_context waits for an outstanding acknowledgement.
Kill ==
  /\ pc[Ep] = "kill"
  /\ Kernel!KillContext(Ep, victim)
  /\ Goto(Ep, "free")
  /\ UNCHANGED <<utcb, libVars, epVars, sum>>

\* _unsynchronized_dissolve: core frees the kernel's context, and the context
\* leaves the ring.
Free ==
  /\ pc[Ep] = "free" /\ state[Ep] = "ACTIVE"
  /\ Kernel!DeleteContext(victim)
  /\ ring' = Without(ring, victim)
  /\ sum' = [sum EXCEPT ![victim] = 0]
  /\ Goto(Ep, "destroy")
  /\ UNCHANGED <<utcb, pending, curr, reused, late, epVars>>

\* Entrypoint::dissolve: the list of deferred signals without the context
StaysDeferred(c) == deferred    \* mutant: a deferred signal survives its context
NotDeferred(c) == Without(deferred, c)

\* A Signal of the context holds its _destroy_mutex. _process_deferred_signals
\* dispatches without a Signal.
HasSignal(c) == \E i \in DOMAIN stack : stack[i].kind # "item" /\ stack[i].context = c

\* The rest of dissolve waits for _destroy_mutex, for ever if the caller itself
\* is handling a signal of the context.
Destroy ==
  /\ pc[Ep] = "destroy" /\ ~HasSignal(victim)
  /\ deferred' = NotDeferred(victim)
  /\ victim' = None
  /\ polled' = (polled /\ deferred' # <<>>)
  /\ Goto(Ep, "user")
  /\ UNCHANGED <<kernelVars, utcb, libVars, blockMutex, delivers, stack, sum>>

-----------------------------------------------------------------------------

BlockStep(t) == Await(t) \/ ReadPending(t) \/ UpdateContext(t) \/ AckBlocked(t)

EpStep == Drain \/ Scan \/ Poll \/ PollUpdate \/ PollAck \/ Kill \/ Free \/ Destroy

\* Somebody else submits a signal.
Trigger(c) ==
  /\ SubmitSignal(c)
  /\ UNCHANGED <<pc, libVars, epVars>>

Next ==
  \/ \E t \in Thread : BlockStep(t)
  \/ ProxyBlock \/ EpSignal \/ EpOtherRpc \/ EpStep \/ WaitBlock
  \/ UserReturn \/ \E kind \in WaitKind : UserWait(kind)
  \/ \E c \in User : Trigger(c) \/ \E new \in BOOLEAN : Manage(c, new)
  \/ \E c \in User \ Permanent : BeginDissolve(c)

Spec == Init /\ [][Next]_vars

-----------------------------------------------------------------------------
(* Safety *)

\* Nobody works on the context of a signal after it has been dissolved and
\* destructed: neither the thread that took the signal from the kernel, nor
\* the entrypoint by its list of deferred signals or a Signal that it handles
\* ("end kernel-aided life-time management", signal_receiver.cc:154).
NoDeadContext ==
  /\ \A t \in Thread :
       pc[t] \in {"woken", "update", "ack", "pollUpdate", "pollAck"} /\ state[t] = "ACTIVE" =>
         receiver[utcb[t].context] # None
  /\ \A c \in Context :
       c \in ToSet(deferred) \/ HasSignal(c) => receiver[c] # None \/ c = victim

\* That holds as long as the kernel has delivered no signal of a killed context,
\* whenever contexts are dissolved and signals are submitted to them.
ContextsAlive == late \/ NoDeadContext

\* Once the kernel has handed out a signal, the library still has to return a
\* Signal of its context: it is pending or in the hands of a thread that will
\* mark it as pending (block_for_signal, pending_signal). A context that is managed
\* again while it looks pending loses the next one, see SignalsReturned.
OnItsWay(t, c) ==
  IF /\ utcb[t].context = c /\ state[t] = "ACTIVE"
     /\ pc[t] \in {"woken", "update", "pollUpdate", "pollAck"}
  THEN utcb[t].num ELSE 0
ToReport(c) ==
  (IF c \in pending THEN curr[c] ELSE 0) + OnItsWay(Proxy, c) + OnItsWay(Ep, c)
SignalsReturned == \A c \in Context \ {victim} : sum[c] > 0 => ToReport(c) > 0
NoSignalLost == late \/ reused \/ SignalsReturned

\* All notifications are reported by the number in the Signal: "the total number
\* of notifications gets properly communicated to the receiver" (signal.h:57).
NoNotificationLost == \A c \in Context \ {victim} : sum[c] <= ToReport(c)

\* The entrypoint and its proxy both wait for something new.
Idle == pc[Ep] = "idle" /\ pc[Proxy] = "woken" /\ state[Proxy] = "AWAITS_SIGNAL"

\* They never do while there is a signal to handle: a pending one, or one that was
\* deferred, except for those that dispatch_pending_io_signal left when it found
\* nothing to dispatch.
IdleOnlyIfDone ==
  Idle /\ ~late /\ ~reused => pending \cap ToSet(ring) = {} /\ (deferred = <<>> \/ polled)

\* Signals are deferred "until the entrypoint would block for the next time"
\* (entrypoint.h:177), also by dispatch_pending_io_signal.
NothingDeferred == Idle => deferred = <<>>

-----------------------------------------------------------------------------
(* Liveness *)

Dispatched(c) == \E i \in DOMAIN stack : stack[i].context = c

\* The application is looking for I/O.
LooksForIo == \E i \in DOMAIN stack : stack[i].kind \in WaitKind

\* Threads are scheduled and mutexes are handed over in order, RPCs are received
\* in order, user code returns, and the I/O happens while it looks for that.
Fairness ==
  /\ WF_vars(BlockStep(Proxy)) /\ WF_vars(BlockStep(Ep)) /\ WF_vars(EpStep)
  /\ SF_vars(ProxyBlock) /\ SF_vars(WaitBlock) /\ SF_vars(EpSignal)
  /\ \A d \in 1 .. MaxNest + 2 : SF_vars(UserReturn /\ Len(stack) = d)
  /\ \A c \in Io \cap Permanent : SF_vars(LooksForIo /\ Trigger(c))

FairSpec == Spec /\ Fairness

\* Every signal is handled in the end, unless its context is dissolved, it is left
\* deferred like above, or the entrypoint dissolves what it is handling.
SignalsHandled ==
  \A c \in App :
    submits[c] > 0 ~> \/ Dispatched(c) \/ receiver[c] = None
                      \/ late \/ reused \/ (polled /\ c \in ToSet(deferred))
                      \/ (pc[Ep] = "destroy" /\ HasSignal(victim))

=============================================================================

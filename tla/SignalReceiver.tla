---------------------------- MODULE SignalReceiver ----------------------------
(***************************************************************************)
(* Asynchronous notifications of the base-hw kernel.                       *)
(*                                                                         *)
(* Sources: base-hw/src/core/kernel/signal_receiver.{h,cc} (contexts,      *)
(* receivers, handlers, killers), thread.cc (the kernel calls that drive   *)
(* them), irq.h and thread.cc (interrupts, timeouts and page faults that   *)
(* submit to a context).                                                   *)
(*                                                                         *)
(* A context counts submits. While its last delivery is acknowledged it    *)
(* hands the whole count to the first thread that waits at its receiver.   *)
(* Killing a context waits until an outstanding delivery is acknowledged.  *)
(* Every action is one kernel pass, passes are atomic (see ThreadIpc).     *)
(***************************************************************************)
EXTENDS Naturals, SequencesExt

CONSTANTS
  Thread, Context, Receiver,
  None,        \* the null pointer
  MaxSubmits,  \* (unsigned)~0, the bound of Signal_context::_submits
  Batch        \* how often one call may trigger a context

ASSUME SignalReceiverAssumption ==
  /\ None \notin Thread \cup Context \cup Receiver
  /\ MaxSubmits \in Nat
  /\ Batch \subseteq 0 .. MaxSubmits

VARIABLES
  state,       \* Thread::_state, NONE while the object does not exist
  awaiting,    \* Signal_handler::_receiver of the thread
  killing,     \* Signal_context_killer::_context of the thread
  cancelNext,  \* the threads whose _cancel_next_await_signal is set
  receiver,    \* Signal_context::_receiver, None while there is no object
  submits,     \* Signal_context::_submits
  ack,         \* the contexts whose _ack is set
  killed,      \* the contexts whose _killed is set
  killer,      \* Signal_context::_killer
  handlers,    \* Signal_receiver::_handlers
  deliver,     \* Signal_receiver::_deliver
  owed,        \* accepted submits that no thread has been handed yet
  forgotten,   \* the threads that wait for the kill of a context from which the
               \* killer object of another thread has removed them
  halted       \* an assertion failed: the CPU spins with the kernel lock held

threadVars == <<state, awaiting, killing, cancelNext>>
killVars == <<killing, cancelNext, receiver, killed, killer, forgotten>>
vars == <<threadVars, receiver, submits, ack, killed, killer, handlers, deliver, owed,
          forgotten, halted>>

ThreadState == {"NONE", "ACTIVE", "AWAITS_SIGNAL", "AWAITS_SIGNAL_CONTEXT_KILL"}

TypeOK ==
  /\ state \in [Thread -> ThreadState]
  /\ awaiting \in [Thread -> Receiver \cup {None}]
  /\ killing \in [Thread -> Context \cup {None}]
  /\ cancelNext \subseteq Thread
  /\ receiver \in [Context -> Receiver \cup {None}]
  /\ submits \in [Context -> 0 .. MaxSubmits]
  /\ ack \subseteq Context
  /\ killed \subseteq Context
  /\ killer \in [Context -> Thread \cup {None}]
  /\ handlers \in [Receiver -> Seq(Thread)]
  /\ deliver \in [Receiver -> Seq(Context)]
  /\ owed \in [Context -> Nat]
  /\ forgotten \subseteq Thread
  /\ halted \in BOOLEAN

Init ==
  /\ state = [t \in Thread |-> "NONE"]
  /\ awaiting = [t \in Thread |-> None]
  /\ killing = [t \in Thread |-> None]
  /\ cancelNext = {}
  /\ receiver = [c \in Context |-> None]
  /\ submits = [c \in Context |-> 0]
  /\ ack = Context
  /\ killed = {}
  /\ killer = [c \in Context |-> None]
  /\ handlers = [r \in Receiver |-> <<>>]
  /\ deliver = [r \in Receiver |-> <<>>]
  /\ owed = [c \in Context |-> 0]
  /\ forgotten = {}
  /\ halted = FALSE

Alive == {c \in Context : receiver[c] # None}

-----------------------------------------------------------------------------
(* Delivery *)

\* Fifo::remove
Without(q, e) ==
  IF e \in ToSet(q) THEN RemoveAt(q, CHOOSE i \in DOMAIN q : q[i] = e) ELSE q

\* How many deliverable contexts in d the loop of _listen pairs with handlers.
PairsNone(d, h) == 0    \* mutant: the loop never runs
Pairs(d, h) == IF Len(d) < Len(h) THEN Len(d) ELSE Len(h)

\* The submits that Signal::Data carries to the handler of context c.
DataNumLate(sub, c) == 0    \* mutant: read after Signal_context::_delivered
DataNum(sub, c) == sub[c]

\* Signal_context::_delivered: the _ack flags after the contexts out delivered.
Delivered(ak, out) == ak \ out

\* The n iterations of Signal_receiver::_listen at receiver r, with deliverable
\* contexts d and handlers h, from the given values of the other variables:
\* the i-th context is handed to the i-th handler, which becomes active.
Hand(r, n, d, h, st, aw, sub, ak, ow) ==
  LET got == ToSet(SubSeq(h, 1, n))
      out == ToSet(SubSeq(d, 1, n))
  IN
  /\ halted' = ~(\A t \in got : st[t] = "AWAITS_SIGNAL")
  /\ deliver' = [deliver EXCEPT ![r] = SubSeq(d, n + 1, Len(d))]
  /\ handlers' = [handlers EXCEPT ![r] = SubSeq(h, n + 1, Len(h))]
  /\ state' = [t \in Thread |-> IF t \in got THEN "ACTIVE" ELSE st[t]]
  /\ awaiting' = [t \in Thread |-> IF t \in got THEN None ELSE aw[t]]
  /\ submits' = [c \in Context |-> IF c \in out THEN 0 ELSE sub[c]]
  /\ ack' = Delivered(ak, out)
  /\ owed' = [c \in Context |-> IF c \in out THEN ow[c] - DataNum(sub, c) ELSE ow[c]]

\* Signal_receiver::_add_deliverable: the queue with context c in it, once.
AddedAgain(d, c) == Append(d, c)    \* mutant: enqueued while it is enqueued
AddedFirst(d, c) == IF c \in ToSet(d) THEN d ELSE <<c>> \o d    \* mutant: last in, first out
Added(d, c) == IF c \in ToSet(d) THEN d ELSE Append(d, c)

\* Signal_context::_deliverable, if there are submits, or nothing more than the
\* assignment of the given values if not, or if the call is not reached.
Deliverable(c, reached, sub, ak, ow) ==
  LET r == receiver[c]
      d == IF reached /\ sub[c] > 0 THEN Added(deliver[r], c) ELSE deliver[r]
      n == IF reached /\ sub[c] > 0 THEN Pairs(d, handlers[r]) ELSE 0
  IN Hand(r, n, d, handlers[r], state, awaiting, sub, ak, ow)

-----------------------------------------------------------------------------
(* Contexts *)

\* call_id_new_signal_context
NewContext(c, r) ==
  /\ ~halted /\ c \notin Alive
  /\ receiver' = [receiver EXCEPT ![c] = r]
  /\ UNCHANGED <<threadVars, submits, ack, killed, killer, handlers, deliver, owed, forgotten,
                 halted>>

\* Signal_context::can_submit, with the width of the counter.
CanSubmitWide(c, n) == c \notin killed /\ submits[c] + n <= MaxSubmits + 1    \* mutant: off by one
CanSubmit(c, n) == c \notin killed /\ submits[c] + n < MaxSubmits

\* _call_submit_signal, User_irq::occurred, Thread::timeout_triggered and
\* the fault handlers: submit if possible, else the call has no effect.
Submit(c, n) ==
  /\ ~halted /\ c \in Alive /\ CanSubmit(c, n)
  /\ Deliverable(c, c \in ack, [submits EXCEPT ![c] = @ + n], ack, [owed EXCEPT ![c] = @ + n])
  /\ UNCHANGED killVars

\* _call_ack_signal of a context that lives: the next submits are delivered.
AckSignal(c) ==
  /\ ~halted /\ c \in Alive \ (ack \cup killed)
  /\ Deliverable(c, TRUE, submits, ack \cup {c}, owed)
  /\ UNCHANGED killVars

\* _call_ack_signal of a killed context: the thread that waits for it goes on.
AckKilled(c) ==
  LET t == killer[c] IN
  /\ ~halted /\ c \in Alive \cap killed /\ c \notin ack /\ t # None
  /\ halted' = (state[t] # "AWAITS_SIGNAL_CONTEXT_KILL")
  /\ killing' = [killing EXCEPT ![t] = None]
  /\ state' = [state EXCEPT ![t] = "ACTIVE"]
  /\ killer' = [killer EXCEPT ![c] = None]
  /\ UNCHANGED <<awaiting, cancelNext, receiver, submits, ack, killed, handlers, deliver, owed,
                 forgotten>>

\* Signal_context::kill waits for the acknowledgement of a delivery.
KillWaitsAlways(c) == FALSE    \* mutant: waits although all is acknowledged
KillsDirectly(c) == c \in ack

\* _call_kill_signal_context by thread t. A context that is killed already is
\* left alone, whether the call succeeds or not.
KillContext(t, c) ==
  /\ ~halted /\ state[t] = "ACTIVE" /\ c \in Alive \ killed
  /\ killed' = killed \cup {c}
  /\ IF KillsDirectly(c)
     THEN UNCHANGED <<state, killing, killer>>
     ELSE /\ state' = [state EXCEPT ![t] = "AWAITS_SIGNAL_CONTEXT_KILL"]
          /\ killing' = [killing EXCEPT ![t] = c]
          /\ killer' = [killer EXCEPT ![c] = t]
  /\ UNCHANGED <<awaiting, cancelNext, receiver, submits, ack, handlers, deliver, owed,
                 forgotten, halted>>

\* call_id_delete_signal_context: a thread that waits for the kill goes on with
\* an error, its killer object keeps pointing to where the context was.
DeleteContext(c) ==
  LET t == killer[c] IN
  /\ ~halted /\ c \in Alive
  /\ halted' = (t # None /\ state[t] # "AWAITS_SIGNAL_CONTEXT_KILL")
  /\ state' = [u \in Thread |-> IF u = t THEN "ACTIVE" ELSE state[u]]
  /\ deliver' = [deliver EXCEPT ![receiver[c]] = Without(@, c)]
  /\ receiver' = [receiver EXCEPT ![c] = None]
  /\ submits' = [submits EXCEPT ![c] = 0]
  /\ owed' = [owed EXCEPT ![c] = 0]
  /\ ack' = ack \cup {c}
  /\ killed' = killed \ {c}
  /\ killer' = [killer EXCEPT ![c] = None]
  /\ UNCHANGED <<awaiting, killing, cancelNext, handlers, forgotten>>

-----------------------------------------------------------------------------
(* Handlers *)

\* Construction and start of a thread, as far as signals are concerned.
NewThread(t) ==
  /\ ~halted /\ state[t] = "NONE"
  /\ state' = [state EXCEPT ![t] = "ACTIVE"]
  /\ UNCHANGED <<awaiting, killing, cancelNext, receiver, submits, ack, killed, killer,
                 handlers, deliver, owed, forgotten, halted>>

\* ~Signal_handler and Signal_handler::cancel_waiting: the queues of handlers
\* without thread t.
HandlersLeft(t) == handlers    \* mutant: the handler stays in the queue
HandlersWithout(t) ==
  [r \in Receiver |-> IF r = awaiting[t] THEN Without(handlers[r], t) ELSE handlers[r]]

\* Destruction of a thread: ~Signal_context_killer, ~Signal_handler. The killer
\* object may point to a context that has another killer by now.
DeleteThread(t) ==
  /\ ~halted /\ state[t] # "NONE"
  /\ state' = [state EXCEPT ![t] = "NONE"]
  /\ killer' = [c \in Context |-> IF c = killing[t] THEN None ELSE killer[c]]
  /\ killing' = [killing EXCEPT ![t] = None]
  /\ handlers' = HandlersWithout(t)
  /\ awaiting' = [awaiting EXCEPT ![t] = None]
  /\ cancelNext' = cancelNext \ {t}
  /\ forgotten' = (forgotten \ {t}) \cup {u \in Thread \ {t} : killing[t] # None /\ killer[killing[t]] = u}
  /\ UNCHANGED <<receiver, submits, ack, killed, deliver, owed, halted>>

\* _call_await_signal with a pending request to cancel it
AwaitCancelled(t) ==
  /\ ~halted /\ state[t] = "ACTIVE" /\ t \in cancelNext
  /\ cancelNext' = cancelNext \ {t}
  /\ UNCHANGED <<state, awaiting, killing, receiver, submits, ack, killed, killer,
                 handlers, deliver, owed, forgotten, halted>>

\* _call_await_signal at receiver r: Signal_receiver::add_handler. A thread that
\* is registered already returns with an error.
AwaitSignal(t, r) ==
  /\ ~halted /\ state[t] = "ACTIVE" /\ t \notin cancelNext /\ awaiting[t] = None
  /\ LET h == Append(handlers[r], t) IN
     Hand(r, Pairs(deliver[r], h), deliver[r], h,
          [state EXCEPT ![t] = "AWAITS_SIGNAL"], [awaiting EXCEPT ![t] = r],
          submits, ack, owed)
  /\ UNCHANGED killVars

\* _call_pending_signal: the thread registers like in await_signal and cancels
\* that if it has not been served. Registered last, it is served only if there
\* are more deliverable contexts than other handlers.
PendingSignal(t, r) ==
  LET served == Len(deliver[r]) > Len(handlers[r])
      h      == IF served THEN Append(handlers[r], t) ELSE handlers[r]
      st     == IF served THEN [state EXCEPT ![t] = "AWAITS_SIGNAL"] ELSE state
  IN
  /\ ~halted /\ state[t] = "ACTIVE" /\ awaiting[t] = None
  /\ Hand(r, Pairs(deliver[r], h), deliver[r], h, st, awaiting, submits, ack, owed)
  /\ UNCHANGED killVars

\* _call_cancel_next_await_signal for thread t: unblock it if it awaits a
\* signal, else remember to cancel its next await_signal.
CancelNextAwaitSignal(t) ==
  /\ ~halted /\ state[t] # "NONE"
  /\ IF state[t] = "AWAITS_SIGNAL"
     THEN /\ state' = [state EXCEPT ![t] = "ACTIVE"]
          /\ handlers' = HandlersWithout(t)
          /\ awaiting' = [awaiting EXCEPT ![t] = None]
          /\ UNCHANGED cancelNext
     ELSE /\ cancelNext' = cancelNext \cup {t}
          /\ UNCHANGED <<state, handlers, awaiting>>
  /\ UNCHANGED <<killing, receiver, submits, ack, killed, killer, deliver, owed, forgotten, halted>>

-----------------------------------------------------------------------------

ContextStep(c) ==
  \/ \E r \in Receiver : NewContext(c, r)
  \/ \E n \in Batch : Submit(c, n)
  \/ AckSignal(c)
  \/ AckKilled(c)
  \/ \E t \in Thread : KillContext(t, c)
  \/ DeleteContext(c)

ThreadStep(t) ==
  \/ NewThread(t)
  \/ DeleteThread(t)
  \/ AwaitCancelled(t)
  \/ \E r \in Receiver : AwaitSignal(t, r) \/ PendingSignal(t, r)
  \/ CancelNextAwaitSignal(t)

Next == (\E c \in Context : ContextStep(c)) \/ (\E t \in Thread : ThreadStep(t))

Spec == Init /\ [][Next]_vars

-----------------------------------------------------------------------------
(* Safety *)

\* No assertion on the state of a thread fails that is served, whose kill is
\* done or whose kill failed (thread.cc:196,203,211,225).
NoAssertionFails == ~halted

\* No wakeup is lost: nobody waits at a receiver that has something to deliver
\* (Signal_receiver::_listen after add_handler and _add_deliverable).
NoLostWakeup == \A r \in Receiver : handlers[r] = <<>> \/ deliver[r] = <<>>

\* A context is queued for delivery exactly if it has submits and its last
\* delivery is acknowledged, so that it never delivers again before that and
\* never sits on submits after it (await_signal's contract in interface.h).
QueuedIfDeliverable ==
  \A r \in Receiver :
    /\ \A c \in Context :
         c \in ToSet(deliver[r]) <=> receiver[c] = r /\ c \in ack /\ submits[c] > 0
    /\ \A i, j \in DOMAIN deliver[r] : deliver[r][i] = deliver[r][j] => i = j

\* A thread blocks for signals exactly while it is registered at one receiver,
\* once (add_handler, cancel_waiting, _listen, ~Signal_handler).
HandlersMatch ==
  /\ \A t \in Thread : state[t] = "AWAITS_SIGNAL" <=> awaiting[t] # None
  /\ \A r \in Receiver :
       /\ \A t \in Thread : t \in ToSet(handlers[r]) <=> awaiting[t] = r
       /\ \A i, j \in DOMAIN handlers[r] : handlers[r][i] = handlers[r][j] => i = j

\* A context that has not been constructed is as its constructor leaves it.
FreshContexts ==
  \A c \in Context : receiver[c] = None => submits[c] = 0 /\ c \in ack \ killed

\* A context knows as its killer only a thread that waits for its kill, and
\* only while the context is killed and its last delivery unacknowledged.
KillersMatch ==
  \A c \in Context :
    killer[c] # None =>
      /\ c \in (Alive \cap killed) \ ack
      /\ state[killer[c]] = "AWAITS_SIGNAL_CONTEXT_KILL"
      /\ killing[killer[c]] = c

\* Handlers, deliverable contexts, killers and threads agree, and nothing that
\* can be delivered waits for anything but a handler (signal_receiver.cc, the
\* queues _handlers and _deliver, the pointer _killer).
QueuesConsistent ==
  TypeOK /\ NoLostWakeup /\ QueuedIfDeliverable /\ HandlersMatch /\ FreshContexts /\ KillersMatch

\* No submit is lost and none is handed out twice: what a context still counts
\* is what was accepted and not handed to a thread, also at the limit of the
\* counter (Signal_context::submit, _delivered, _listen).
NoSubmitLost ==
  \A c \in Context : owed[c] = submits[c] /\ submits[c] <= MaxSubmits

\* Whoever waits for the kill of a context is known to it, and the context has
\* a delivery that is not acknowledged: the acknowledgement will end the wait
\* (Signal_context::kill, ack, the destructors). Only a thread can lose that
\* whose context was killed before at the same place and deleted meanwhile.
KillWaitEnds ==
  \A t \in Thread :
    state[t] = "AWAITS_SIGNAL_CONTEXT_KILL" /\ t \notin forgotten =>
      killing[t] # None /\ killer[killing[t]] = t /\ killing[t] \in (Alive \cap killed) \ ack

\* The inductive invariant of the specification.
IInv == QueuesConsistent /\ NoAssertionFails /\ NoSubmitLost

\* As long as a thread waits its killer object points to a context, which knows
\* the thread if no other killer object removed it.
KillingMatches ==
  \A t \in Thread :
    state[t] = "AWAITS_SIGNAL_CONTEXT_KILL" =>
      killing[t] # None /\ (t \in forgotten \/ killer[killing[t]] = t)

\* A context forgets the thread that waits for its kill only when that thread
\* ends waiting ("Notice that the killer of the context has cancelled waiting",
\* Signal_context::_killer_cancelled).
KillerCancelled ==
  [][\A c \in Context, t \in Thread :
       killer[c] = t /\ killer'[c] # t => state'[t] # "AWAITS_SIGNAL_CONTEXT_KILL"]_vars

\* A context whose kill has succeeded delivers nothing any more.
KilledNotDelivered ==
  [][\A c \in Alive : c \in ack /\ c \notin ack' => c \notin killed]_vars

-----------------------------------------------------------------------------
(* Liveness *)

\* Handlers come back for more signals and acknowledge what they were handed
\* (block_for_signal in base-hw/src/lib/base/signal_receiver.cc).
Fairness ==
  /\ WF_vars(\E t \in Thread : NewThread(t))
  /\ \A r \in Receiver : SF_vars(\E t \in Thread : AwaitSignal(t, r))
  /\ \A t \in Thread : WF_vars(AwaitCancelled(t))
  /\ \A c \in Context : WF_vars(AckSignal(c)) /\ WF_vars(AckKilled(c))

FairSpec == Spec /\ Fairness

\* Every submit is handed to a thread in the end, unless its context is killed
\* or deleted first, however other contexts of the receiver are triggered.
SubmitsDelivered ==
  \A c \in Context : submits[c] > 0 ~> submits[c] = 0 \/ c \in killed

\* A kill ends, however long the handler takes to acknowledge, but for a thread
\* that the context has forgotten.
KillsEnd ==
  \A t \in Thread : state[t] = "AWAITS_SIGNAL_CONTEXT_KILL" ~>
                     state[t] # "AWAITS_SIGNAL_CONTEXT_KILL" \/ t \in forgotten

=============================================================================

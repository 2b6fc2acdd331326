------------------------- MODULE SignalReceiverProof -------------------------
(* Proofs about SignalReceiver, for any number of threads, contexts and       *)
(* receivers.                                                                 *)
EXTENDS SignalReceiver, QueueTheorems

-----------------------------------------------------------------------------
(* Operators of the model *)

\* Fifo::remove takes out the given element and nothing else.
LEMMA WithoutElements ==
  ASSUME NEW S, NEW q \in Seq(S), Distinct(q), NEW e
  PROVE  /\ Without(q, e) \in Seq(S)
         /\ Distinct(Without(q, e))
         /\ \A u : u \in ToSet(Without(q, e)) <=> u \in ToSet(q) /\ u # e
         /\ q = <<>> => Without(q, e) = <<>>
<1>1. CASE e \in ToSet(q)
  <2>1. q # <<>>
    BY <1>1 DEF ToSet
  <2> QED
    BY <1>1, <2>1, RemovedElements DEF Without
<1>2. CASE e \notin ToSet(q)
  BY <1>2 DEF Without
<1> QED
  BY <1>1, <1>2

\* _add_deliverable adds the given context and nothing else, and adds it once.
LEMMA AddedElements ==
  ASSUME NEW d \in Seq(Context), Distinct(d), NEW c \in Context
  PROVE  /\ Added(d, c) \in Seq(Context)
         /\ Distinct(Added(d, c))
         /\ \A u : u \in ToSet(Added(d, c)) <=> u \in ToSet(d) \/ u = c
<1>1. CASE c \in ToSet(d)
  BY <1>1 DEF Added
<1>2. CASE c \notin ToSet(d)
  BY <1>2, AppendedElements DEF Added
<1> QED
  BY <1>1, <1>2

\* The part of the invariant that _listen restores: threads, contexts and the
\* queues agree, for the given values of the variables.
Agree(del, han, st, aw, rec, sub, ak) ==
  /\ del \in [Receiver -> Seq(Context)]
  /\ han \in [Receiver -> Seq(Thread)]
  /\ st \in [Thread -> ThreadState]
  /\ aw \in [Thread -> Receiver \cup {None}]
  /\ sub \in [Context -> 0 .. MaxSubmits]
  /\ ak \subseteq Context
  /\ \A r \in Receiver : Distinct(del[r]) /\ Distinct(han[r])
  /\ \A r \in Receiver, c \in Context :
       c \in ToSet(del[r]) <=> rec[c] = r /\ c \in ak /\ sub[c] > 0
  /\ \A t \in Thread : st[t] = "AWAITS_SIGNAL" <=> aw[t] # None
  /\ \A r \in Receiver, t \in Thread : t \in ToSet(han[r]) <=> aw[t] = r

\* The rest of the invariant.
Rest ==
  /\ halted = FALSE
  /\ killing \in [Thread -> Context \cup {None}]
  /\ cancelNext \subseteq Thread
  /\ receiver \in [Context -> Receiver \cup {None}]
  /\ killed \subseteq Context
  /\ killer \in [Context -> Thread \cup {None}]
  /\ owed = submits
  /\ forgotten \subseteq Thread
  /\ FreshContexts
  /\ KillersMatch

\* The invariant, taken apart ...
LEMMA InvariantParts ==
  ASSUME IInv
  PROVE  /\ Agree(deliver, handlers, state, awaiting, receiver, submits, ack)
         /\ NoLostWakeup
         /\ Rest
<1>1. Agree(deliver, handlers, state, awaiting, receiver, submits, ack)
  BY DEF IInv, QueuesConsistent, TypeOK, QueuedIfDeliverable, HandlersMatch, Agree, Distinct
<1>2. owed = submits
  BY DEF IInv, QueuesConsistent, TypeOK, NoSubmitLost
<1>3. halted = FALSE
  BY DEF IInv, QueuesConsistent, TypeOK, NoAssertionFails
<1> QED
  BY <1>1, <1>2, <1>3 DEF IInv, QueuesConsistent, TypeOK, Rest

\* ... and put together after a step.
LEMMA InvariantWhole ==
  ASSUME Agree(deliver', handlers', state', awaiting', receiver', submits', ack'),
         NoLostWakeup',
         Rest'
  PROVE  IInv'
<1>1. QueuedIfDeliverable' /\ HandlersMatch'
  BY DEF QueuedIfDeliverable, HandlersMatch, Agree, Distinct
<1>2. submits' \in [Context -> 0 .. MaxSubmits]
  BY DEF Agree
<1>3. \A c \in Context : submits'[c] \in Nat /\ submits'[c] <= MaxSubmits
  BY <1>2, SignalReceiverAssumption
<1>4. owed' = submits'
  BY DEF Rest
<1>5. NoSubmitLost'
  BY <1>3, <1>4 DEF NoSubmitLost
<1>6. owed' \in [Context -> Nat]
  BY <1>2, <1>3, <1>4
<1>7. TypeOK'
  BY <1>6 DEF TypeOK, Agree, Rest
<1> QED
  BY <1>1, <1>5, <1>7 DEF IInv, QueuesConsistent, NoAssertionFails, Rest

-----------------------------------------------------------------------------
(* Delivery *)

\* What the loop of _listen leaves behind, if it was entered with the states st
\* of threads, the submits sub and acknowledgements ak of contexts: threads,
\* contexts and queues agree, nobody is left waiting at a receiver with
\* deliverable contexts, no assertion failed, and only threads that awaited a
\* signal and contexts that exist were touched.
Listened(st, sub, ak) ==
  /\ Agree(deliver', handlers', state', awaiting', receiver, submits', ack')
  /\ NoLostWakeup'
  /\ halted' = FALSE
  /\ owed' = submits'
  /\ ack' \subseteq ak
  /\ \A t \in Thread : st[t] # "AWAITS_SIGNAL" => state'[t] = st[t]
  /\ \A c \in Context : receiver[c] = None => submits'[c] = sub[c] /\ (c \in ak => c \in ack')

\* The loop of _listen does that if threads, contexts and queues agreed when it
\* was entered, and no other receiver has both handlers and deliverable contexts.
LEMMA ListenAgrees ==
  ASSUME NEW r \in Receiver, NEW d, NEW h, NEW st, NEW aw, NEW sub, NEW ak,
         deliver \in [Receiver -> Seq(Context)],
         handlers \in [Receiver -> Seq(Thread)],
         Agree([deliver EXCEPT ![r] = d], [handlers EXCEPT ![r] = h], st, aw, receiver, sub, ak),
         \A q \in Receiver : q # r => handlers[q] = <<>> \/ deliver[q] = <<>>,
         Hand(r, Pairs(d, h), d, h, st, aw, sub, ak, sub)
  PROVE  Listened(st, sub, ak)
<1> DEFINE n   == Pairs(d, h)
           got == ToSet(SubSeq(h, 1, n))
           out == ToSet(SubSeq(d, 1, n))
           dl  == SubSeq(d, n + 1, Len(d))
           hl  == SubSeq(h, n + 1, Len(h))
           del == [deliver EXCEPT ![r] = d]
           han == [handlers EXCEPT ![r] = h]
<1>1. /\ d \in Seq(Context) /\ Distinct(d)
      /\ h \in Seq(Thread) /\ Distinct(h)
      /\ \A c \in Context : c \in ToSet(d) <=> receiver[c] = r /\ c \in ak /\ sub[c] > 0
      /\ \A t \in Thread : t \in ToSet(h) <=> aw[t] = r
  <2>1. del[r] = d /\ han[r] = h
    OBVIOUS
  <2> QED
    BY <2>1 DEF Agree
<1>2. \A q \in Receiver : q # r => del[q] = deliver[q] /\ han[q] = handlers[q]
  OBVIOUS
<1>3. n \in 0 .. Len(d) /\ n \in 0 .. Len(h) /\ (n = Len(d) \/ n = Len(h))
  BY <1>1 DEF Pairs
<1>4. /\ dl \in Seq(Context) /\ Distinct(dl)
      /\ \A u : u \in ToSet(d) <=> u \in out \/ u \in ToSet(dl)
      /\ \A u : ~(u \in out /\ u \in ToSet(dl))
      /\ n = Len(d) => dl = <<>>
  BY <1>1, <1>3, SplitElements
<1>5. /\ hl \in Seq(Thread) /\ Distinct(hl)
      /\ \A u : u \in ToSet(h) <=> u \in got \/ u \in ToSet(hl)
      /\ \A u : ~(u \in got /\ u \in ToSet(hl))
      /\ n = Len(h) => hl = <<>>
  BY <1>1, <1>3, SplitElements
<1>6. /\ halted' = ~(\A t \in got : st[t] = "AWAITS_SIGNAL")
      /\ deliver' = [deliver EXCEPT ![r] = dl]
      /\ handlers' = [handlers EXCEPT ![r] = hl]
      /\ state' = [t \in Thread |-> IF t \in got THEN "ACTIVE" ELSE st[t]]
      /\ awaiting' = [t \in Thread |-> IF t \in got THEN None ELSE aw[t]]
      /\ submits' = [c \in Context |-> IF c \in out THEN 0 ELSE sub[c]]
      /\ ack' = ak \ out
      /\ owed' = [c \in Context |-> IF c \in out THEN sub[c] - sub[c] ELSE sub[c]]
  BY DEF Hand, Delivered, DataNum
<1> HIDE DEF n, got, out, dl, hl
<1>7. got \subseteq Thread /\ \A t \in got : aw[t] = r /\ st[t] = "AWAITS_SIGNAL"
  <2>1. ToSet(h) \subseteq Thread
    BY <1>1 DEF ToSet
  <2>2. got \subseteq ToSet(h)
    BY <1>5
  <2> QED
    BY <2>1, <2>2, <1>1, SignalReceiverAssumption DEF Agree
<1>8. halted' = FALSE
  BY <1>6, <1>7
<1>9. owed' = submits'
  <2>1. \A c \in Context : sub[c] - sub[c] = 0
    BY SignalReceiverAssumption DEF Agree
  <2> QED
    BY <2>1, <1>6
<1>10. NoLostWakeup'
  BY <1>2, <1>3, <1>4, <1>5, <1>6 DEF NoLostWakeup
<1>11. Agree(deliver', handlers', state', awaiting', receiver, submits', ack')
  <2>1. /\ deliver' \in [Receiver -> Seq(Context)]
        /\ handlers' \in [Receiver -> Seq(Thread)]
    BY <1>4, <1>5, <1>6
  <2>2. /\ state' \in [Thread -> ThreadState]
        /\ awaiting' \in [Thread -> Receiver \cup {None}]
    BY <1>6 DEF Agree, ThreadState
  <2>3. submits' \in [Context -> 0 .. MaxSubmits] /\ ack' \subseteq Context
    BY <1>6, SignalReceiverAssumption DEF Agree
  <2>4. \A q \in Receiver : Distinct(deliver'[q]) /\ Distinct(handlers'[q])
    BY <1>2, <1>4, <1>5, <1>6 DEF Agree
  <2>5. ASSUME NEW q \in Receiver, NEW c \in Context
        PROVE  c \in ToSet(deliver'[q]) <=> receiver[c] = q /\ c \in ack' /\ submits'[c] > 0
    <3>1. CASE q = r
      BY <3>1, <1>1, <1>4, <1>6
    <3>2. CASE q # r
      <4>1. deliver'[q] = del[q]
        BY <3>2, <1>2, <1>6
      <4>2. c \in out => receiver[c] = r
        BY <1>1, <1>4
      <4>3. c \in ToSet(del[q]) <=> receiver[c] = q /\ c \in ak /\ sub[c] > 0
        BY DEF Agree
      <4> HIDE DEF del
      <4> QED
        BY <3>2, <4>1, <4>2, <4>3, <1>6
    <3> QED
      BY <3>1, <3>2
  <2>6. \A t \in Thread : state'[t] = "AWAITS_SIGNAL" <=> awaiting'[t] # None
    BY <1>6 DEF Agree
  <2>7. ASSUME NEW q \in Receiver, NEW t \in Thread
        PROVE  t \in ToSet(handlers'[q]) <=> awaiting'[t] = q
    <3> q # None
      BY SignalReceiverAssumption
    <3>1. CASE q = r
      BY <3>1, <1>1, <1>5, <1>6
    <3>2. CASE q # r
      <4>1. handlers'[q] = han[q]
        BY <3>2, <1>2, <1>6
      <4>2. t \in ToSet(han[q]) <=> aw[t] = q
        BY DEF Agree
      <4> HIDE DEF han
      <4> QED
        BY <3>2, <4>1, <4>2, <1>6, <1>7
    <3> QED
      BY <3>1, <3>2
  <2> QED
    BY <2>1, <2>2, <2>3, <2>4, <2>5, <2>6, <2>7 DEF Agree
<1>12. \A c \in Context : receiver[c] = None => c \notin out
  BY <1>1, <1>4, SignalReceiverAssumption
<1> QED
  BY <1>6, <1>7, <1>8, <1>9, <1>10, <1>11, <1>12 DEF Listened

\* Signal_context::_deliverable after the submits of a context grew or its
\* acknowledgement came in.
LEMMA DeliverableAgrees ==
  ASSUME IInv, NEW c \in Alive,
         NEW sub \in [Context -> 0 .. MaxSubmits],
         sub[c] >= submits[c],
         \A b \in Context : b # c => sub[b] = submits[b],
         NEW ak \in {ack, ack \cup {c}},
         Deliverable(c, c \in ak, sub, ak, sub)
  PROVE  Listened(state, sub, ak)
<1> DEFINE r   == receiver[c]
           put == c \in ak /\ sub[c] > 0
           d   == IF put THEN Added(deliver[r], c) ELSE deliver[r]
           h   == handlers[r]
           del == [deliver EXCEPT ![r] = d]
           han == [handlers EXCEPT ![r] = h]
<1>1. Agree(deliver, handlers, state, awaiting, receiver, submits, ack) /\ NoLostWakeup /\ Rest
  BY InvariantParts
<1>2. c \in Context /\ r \in Receiver /\ r # None
  BY <1>1, SignalReceiverAssumption DEF Alive, Rest
<1>3. /\ deliver[r] \in Seq(Context) /\ Distinct(deliver[r])
      /\ handlers[r] \in Seq(Thread)
      /\ deliver \in [Receiver -> Seq(Context)]
      /\ handlers \in [Receiver -> Seq(Thread)]
  BY <1>1, <1>2 DEF Agree
<1>4. /\ Added(deliver[r], c) \in Seq(Context)
      /\ Distinct(Added(deliver[r], c))
      /\ \A u : u \in ToSet(Added(deliver[r], c)) <=> u \in ToSet(deliver[r]) \/ u = c
  BY <1>2, <1>3, AddedElements
<1>5. d \in Seq(Context) /\ Distinct(d)
  BY <1>3, <1>4
<1>6. Hand(r, Pairs(d, h), d, h, state, awaiting, sub, ak, sub)
  <2>1. CASE put
    BY <2>1 DEF Deliverable
  <2>2. CASE ~put
    <3>1. Pairs(d, h) = 0
      BY <2>2, <1>1, <1>2, <1>3 DEF NoLostWakeup, Pairs
    <3>2. Hand(r, 0, d, h, state, awaiting, sub, ak, sub)
      BY <2>2 DEF Deliverable
    <3> QED
      BY <3>1, <3>2
  <2> QED
    BY <2>1, <2>2
<1>7. han = handlers
  BY <1>2, <1>3
<1>8. del \in [Receiver -> Seq(Context)] /\ del[r] = d /\ \A q \in Receiver : q # r => del[q] = deliver[q]
  BY <1>2, <1>3, <1>5
<1> HIDE DEF del, han
<1>9. ASSUME NEW q \in Receiver, NEW b \in Context
      PROVE  b \in ToSet(del[q]) <=> receiver[b] = q /\ b \in ak /\ sub[b] > 0
  <2>1. b \in ToSet(deliver[q]) <=> receiver[b] = q /\ b \in ack /\ submits[b] > 0
    BY <1>1 DEF Agree
  <2>2. submits[c] \in Nat /\ sub[c] \in Nat
    BY <1>1, <1>2, SignalReceiverAssumption DEF Agree
  <2>3. CASE q # r
    BY <2>1, <2>3, <1>8
  <2>4. CASE q = r /\ b # c
    BY <2>1, <2>4, <1>4, <1>8
  <2>5. CASE q = r /\ b = c
    <3>1. CASE put
      BY <2>5, <3>1, <1>4, <1>8
    <3>2. CASE ~put
      BY <2>1, <2>2, <2>5, <3>2, <1>8
    <3> QED
      BY <3>1, <3>2
  <2> QED
    BY <2>3, <2>4, <2>5
<1>10. ak \subseteq Context
  BY <1>1, <1>2 DEF Agree
<1> HIDE DEF d, h, r
<1>11. \A q \in Receiver : Distinct(del[q]) /\ Distinct(han[q])
  BY <1>1, <1>5, <1>7, <1>8 DEF Agree
<1>12. Agree(del, han, state, awaiting, receiver, sub, ak)
  BY <1>1, <1>7, <1>8, <1>9, <1>10, <1>11 DEF Agree
<1>13. \A q \in Receiver : q # r => handlers[q] = <<>> \/ deliver[q] = <<>>
  BY <1>1 DEF NoLostWakeup
<1>14. Agree([deliver EXCEPT ![r] = d], [handlers EXCEPT ![r] = h],
             state, awaiting, receiver, sub, ak)
  BY <1>12 DEF del, han
<1> DEFINE st == state
           aw == awaiting
<1>15. /\ Agree([deliver EXCEPT ![r] = d], [handlers EXCEPT ![r] = h], st, aw, receiver, sub, ak)
       /\ Hand(r, Pairs(d, h), d, h, st, aw, sub, ak, sub)
  BY <1>6, <1>14
<1> HIDE DEF st, aw
<1>16. Listened(st, sub, ak)
  BY <1>2, <1>3, <1>13, <1>15, ListenAgrees
<1> QED
  BY <1>16 DEF st

\* What the actions that deliver have in common: they leave the life of
\* contexts and their kills alone, and wake only threads that await a signal.
LEMMA DeliveryKeepsRest ==
  ASSUME IInv,
         NEW st, NEW sub, NEW ak,
         Listened(st, sub, ak),
         \A t \in Thread : state[t] = "AWAITS_SIGNAL_CONTEXT_KILL" => st[t] = state[t],
         \A b \in Context : receiver[b] = None => sub[b] = submits[b] /\ (b \in ack => b \in ak),
         \A b \in killed : b \in ak => b \in ack,
         UNCHANGED killVars
  PROVE  IInv'
<1>1. Agree(deliver, handlers, state, awaiting, receiver, submits, ack) /\ NoLostWakeup /\ Rest
  BY InvariantParts
<1>2. UNCHANGED <<killing, cancelNext, receiver, killed, killer, forgotten>>
  BY DEF killVars
<1>3. Agree(deliver', handlers', state', awaiting', receiver', submits', ack') /\ NoLostWakeup'
  BY <1>2 DEF Listened
<1>4. FreshContexts'
  BY <1>1, <1>2 DEF Rest, FreshContexts, Listened
<1>5. KillersMatch'
  <2>1. SUFFICES ASSUME NEW c \in Context, killer[c] # None
                 PROVE  /\ c \in (Alive \cap killed) \ ack'
                        /\ state'[killer[c]] = "AWAITS_SIGNAL_CONTEXT_KILL"
                        /\ killing[killer[c]] = c
    BY <1>2 DEF KillersMatch, Alive
  <2>2. /\ c \in (Alive \cap killed) \ ack
        /\ state[killer[c]] = "AWAITS_SIGNAL_CONTEXT_KILL"
        /\ killing[killer[c]] = c
        /\ killer[c] \in Thread
    BY <2>1, <1>1 DEF Rest, KillersMatch
  <2> QED
    BY <2>2 DEF Listened
<1>6. Rest'
  BY <1>1, <1>2, <1>4, <1>5 DEF Rest, Listened
<1> QED
  BY <1>3, <1>6, InvariantWhole

-----------------------------------------------------------------------------
(* Every step keeps the invariant. *)

LEMMA InitHolds == Init => IInv
<1> SUFFICES ASSUME Init PROVE IInv
  OBVIOUS
<1>1. TypeOK
  <2>1. /\ handlers \in [Receiver -> Seq(Thread)]
        /\ deliver \in [Receiver -> Seq(Context)]
    BY DEF Init
  <2>2. submits \in [Context -> 0 .. MaxSubmits] /\ owed \in [Context -> Nat]
    BY SignalReceiverAssumption DEF Init
  <2> QED
    BY <2>1, <2>2 DEF Init, TypeOK, ThreadState
<1>2. \A r \in Receiver : handlers[r] = <<>> /\ deliver[r] = <<>>
  BY DEF Init
<1>3. NoLostWakeup
  BY <1>2 DEF NoLostWakeup
<1>4. \A u : u \notin ToSet(<<>>)
  BY DEF ToSet
<1>5. QueuedIfDeliverable
  BY <1>2, <1>4 DEF Init, QueuedIfDeliverable
<1>6. HandlersMatch
  BY <1>2, <1>4, SignalReceiverAssumption DEF Init, HandlersMatch
<1>7. NoAssertionFails /\ NoSubmitLost /\ FreshContexts /\ KillersMatch
  BY SignalReceiverAssumption
     DEF Init, NoAssertionFails, NoSubmitLost, FreshContexts, KillersMatch
<1> QED
  BY <1>1, <1>3, <1>5, <1>6, <1>7 DEF IInv, QueuesConsistent

LEMMA SubmitKeeps ==
  ASSUME IInv, NEW c \in Context, NEW n \in Batch, Submit(c, n)
  PROVE  IInv'
<1> DEFINE sub == [submits EXCEPT ![c] = @ + n]
<1>1. Agree(deliver, handlers, state, awaiting, receiver, submits, ack) /\ NoLostWakeup /\ Rest
  BY InvariantParts
<1>2. submits \in [Context -> 0 .. MaxSubmits] /\ submits[c] \in Nat /\ n \in Nat /\ owed = submits
  BY <1>1, SignalReceiverAssumption DEF Agree, Rest
<1>3. sub \in [Context -> 0 .. MaxSubmits] /\ sub[c] >= submits[c]
  BY <1>2, SignalReceiverAssumption DEF Submit, CanSubmit
<1>4. \A b \in Context : b # c => sub[b] = submits[b]
  BY <1>2
<1>5. c \in Alive /\ c \notin killed /\ UNCHANGED killVars
  BY DEF Submit, CanSubmit
<1>6. Deliverable(c, c \in ack, sub, ack, sub)
  BY <1>2 DEF Submit
<1>7. \A b \in Context : receiver[b] = None => b # c
  BY <1>5 DEF Alive
<1> HIDE DEF sub
<1>8. Listened(state, sub, ack)
  BY <1>3, <1>4, <1>5, <1>6, DeliverableAgrees
<1> QED
  BY <1>4, <1>5, <1>7, <1>8, DeliveryKeepsRest

LEMMA AckSignalKeeps ==
  ASSUME IInv, NEW c \in Context, AckSignal(c)
  PROVE  IInv'
<1>1. Agree(deliver, handlers, state, awaiting, receiver, submits, ack) /\ NoLostWakeup /\ Rest
  BY InvariantParts
<1>2. submits \in [Context -> 0 .. MaxSubmits] /\ submits[c] \in Nat /\ owed = submits
  BY <1>1, SignalReceiverAssumption DEF Agree, Rest
<1>3. c \in Alive /\ c \notin killed /\ UNCHANGED killVars
  BY DEF AckSignal
<1> DEFINE ak  == ack \cup {c}
           sub == submits
<1>4. Deliverable(c, c \in ak, sub, ak, sub) /\ ak \in {ack, ack \cup {c}}
  <2>1. (c \in ak) = TRUE
    OBVIOUS
  <2> QED
    BY <2>1, <1>2 DEF AckSignal
<1>5. /\ sub \in [Context -> 0 .. MaxSubmits]
      /\ sub[c] >= submits[c]
      /\ \A b \in Context : b # c => sub[b] = submits[b]
  BY <1>2
<1> HIDE DEF ak, sub
<1>6. Listened(state, sub, ak)
  BY <1>3, <1>4, <1>5, DeliverableAgrees
<1> QED
  BY <1>3, <1>6, DeliveryKeepsRest DEF ak, sub

\* A thread that registers at a receiver, as add_handler does.
LEMMA RegisterKeeps ==
  ASSUME IInv, NEW t \in Thread, NEW r \in Receiver,
         state[t] = "ACTIVE", awaiting[t] = None,
         Hand(r, Pairs(deliver[r], Append(handlers[r], t)), deliver[r], Append(handlers[r], t),
              [state EXCEPT ![t] = "AWAITS_SIGNAL"], [awaiting EXCEPT ![t] = r],
              submits, ack, owed),
         UNCHANGED killVars
  PROVE  IInv'
<1> DEFINE h   == Append(handlers[r], t)
           st  == [state EXCEPT ![t] = "AWAITS_SIGNAL"]
           aw  == [awaiting EXCEPT ![t] = r]
           del == [deliver EXCEPT ![r] = deliver[r]]
           han == [handlers EXCEPT ![r] = h]
<1>1. Agree(deliver, handlers, state, awaiting, receiver, submits, ack) /\ NoLostWakeup /\ Rest
  BY InvariantParts
<1>2. /\ deliver \in [Receiver -> Seq(Context)]
      /\ handlers \in [Receiver -> Seq(Thread)]
      /\ state \in [Thread -> ThreadState]
      /\ awaiting \in [Thread -> Receiver \cup {None}]
      /\ r # None
  BY <1>1, SignalReceiverAssumption DEF Agree
<1>3. del = deliver
  BY <1>2
<1>4. t \notin ToSet(handlers[r])
  BY <1>1, <1>2 DEF Agree
<1>5. handlers[r] \in Seq(Thread) /\ Distinct(handlers[r])
  BY <1>1 DEF Agree
<1>6. /\ h \in Seq(Thread) /\ Distinct(h)
      /\ \A u : u \in ToSet(h) <=> u \in ToSet(handlers[r]) \/ u = t
  BY <1>4, <1>5, AppendedElements
<1> HIDE DEF h
<1>7. /\ han \in [Receiver -> Seq(Thread)]
      /\ han[r] = h
      /\ \A q \in Receiver : q # r => han[q] = handlers[q]
  BY <1>2, <1>6
<1>8. /\ st \in [Thread -> ThreadState] /\ st[t] = "AWAITS_SIGNAL"
      /\ \A u \in Thread : u # t => st[u] = state[u]
      /\ aw \in [Thread -> Receiver \cup {None}] /\ aw[t] = r
      /\ \A u \in Thread : u # t => aw[u] = awaiting[u]
  BY <1>2 DEF ThreadState
<1> HIDE DEF del, han, st, aw
<1>9. ASSUME NEW q \in Receiver, NEW u \in Thread
      PROVE  u \in ToSet(han[q]) <=> aw[u] = q
  <2>1. u \in ToSet(handlers[q]) <=> awaiting[u] = q
    BY <1>1 DEF Agree
  <2>2. q # None
    BY SignalReceiverAssumption
  <2> QED
    BY <2>1, <2>2, <1>6, <1>7, <1>8
<1>10. Agree(del, han, st, aw, receiver, submits, ack)
  <2>1. \A q \in Receiver : Distinct(han[q])
    BY <1>1, <1>6, <1>7 DEF Agree
  <2>2. \A u \in Thread : state[u] = "AWAITS_SIGNAL" <=> awaiting[u] # None
    BY <1>1 DEF Agree
  <2>3. \A u \in Thread : st[u] = "AWAITS_SIGNAL" <=> aw[u] # None
    BY <1>2, <1>8, <2>2
  <2> QED
    BY <1>1, <1>3, <1>7, <1>8, <1>9, <2>1, <2>3 DEF Agree
<1>11. Agree([deliver EXCEPT ![r] = deliver[r]], [handlers EXCEPT ![r] = h], st, aw,
             receiver, submits, ack)
  BY <1>10 DEF del, han
<1>12. \A q \in Receiver : q # r => handlers[q] = <<>> \/ deliver[q] = <<>>
  BY <1>1 DEF NoLostWakeup
<1>13. Hand(r, Pairs(deliver[r], h), deliver[r], h, st, aw, submits, ack, submits)
  BY <1>1 DEF Rest, st, aw, h
<1> DEFINE d   == deliver[r]
           sub == submits
           ak  == ack
<1>14. Agree([deliver EXCEPT ![r] = d], [handlers EXCEPT ![r] = h], st, aw, receiver, sub, ak)
  BY <1>11
<1>15. Hand(r, Pairs(d, h), d, h, st, aw, sub, ak, sub)
  BY <1>13
<1> HIDE DEF d, sub, ak
<1>16. Listened(st, sub, ak)
  BY <1>2, <1>12, <1>14, <1>15, ListenAgrees
<1>17. \A u \in Thread : state[u] = "AWAITS_SIGNAL_CONTEXT_KILL" => st[u] = state[u]
  BY <1>8
<1> QED
  BY <1>16, <1>17, DeliveryKeepsRest DEF sub, ak

LEMMA AwaitSignalKeeps ==
  ASSUME IInv, NEW t \in Thread, NEW r \in Receiver, AwaitSignal(t, r)
  PROVE  IInv'
BY RegisterKeeps DEF AwaitSignal

\* A thread that polls is served like one that registers, or not at all.
LEMMA PendingSignalKeeps ==
  ASSUME IInv, NEW t \in Thread, NEW r \in Receiver, PendingSignal(t, r)
  PROVE  IInv'
<1>1. Agree(deliver, handlers, state, awaiting, receiver, submits, ack) /\ NoLostWakeup /\ Rest
  BY InvariantParts
<1>2. /\ deliver \in [Receiver -> Seq(Context)] /\ deliver[r] \in Seq(Context)
      /\ handlers \in [Receiver -> Seq(Thread)] /\ handlers[r] \in Seq(Thread)
      /\ awaiting \in [Thread -> Receiver \cup {None}]
  BY <1>1 DEF Agree
<1>3. state[t] = "ACTIVE" /\ awaiting[t] = None /\ UNCHANGED killVars
  BY DEF PendingSignal
<1>4. CASE Len(deliver[r]) > Len(handlers[r])
  <2> DEFINE h   == Append(handlers[r], t)
             st  == [state EXCEPT ![t] = "AWAITS_SIGNAL"]
             n   == Pairs(deliver[r], h)
             got == ToSet(SubSeq(h, 1, n))
  <2>1. Hand(r, n, deliver[r], h, st, awaiting, submits, ack, owed)
    BY <1>4 DEF PendingSignal
  <2>2. n = Len(h) /\ h \in Seq(Thread) /\ Len(h) = Len(handlers[r]) + 1 /\ h[Len(h)] = t
    BY <1>2, <1>4 DEF Pairs
  <2>3. SubSeq(h, 1, n) = h
    BY <2>2
  <2>4. t \in got
    <3>1. Len(h) \in DOMAIN h
      BY <1>2, <2>2
    <3> HIDE DEF h, n
    <3> QED
      BY <2>2, <2>3, <3>1 DEF ToSet
  <2>5. awaiting' = [u \in Thread |-> IF u \in got THEN None ELSE awaiting[u]]
    BY <2>1 DEF Hand
  <2> HIDE DEF h, got, n, st
  <2>6. awaiting' = [u \in Thread |-> IF u \in got THEN None ELSE [awaiting EXCEPT ![t] = r][u]]
    BY <1>2, <2>4, <2>5
  <2>7. Hand(r, n, deliver[r], h, st, [awaiting EXCEPT ![t] = r], submits, ack, owed)
    BY <2>1, <2>6 DEF Hand, got
  <2> QED
    BY <1>3, <2>7, RegisterKeeps DEF h, n, st
<1>5. CASE ~(Len(deliver[r]) > Len(handlers[r]))
  <2> DEFINE d   == deliver[r]
             h   == handlers[r]
             st  == state
             aw  == awaiting
             sub == submits
             ak  == ack
  <2>1. Hand(r, Pairs(d, h), d, h, st, aw, sub, ak, sub)
    BY <1>1, <1>5 DEF PendingSignal, Rest
  <2>2. [deliver EXCEPT ![r] = d] = deliver /\ [handlers EXCEPT ![r] = h] = handlers
    BY <1>2
  <2>3. Agree([deliver EXCEPT ![r] = d], [handlers EXCEPT ![r] = h], st, aw, receiver, sub, ak)
    BY <1>1, <2>2
  <2> HIDE DEF d, h, st, aw, sub, ak
  <2>4. \A q \in Receiver : q # r => handlers[q] = <<>> \/ deliver[q] = <<>>
    BY <1>1 DEF NoLostWakeup
  <2>5. Listened(st, sub, ak)
    BY <1>2, <2>1, <2>3, <2>4, ListenAgrees
  <2> QED
    BY <1>3, <2>5, DeliveryKeepsRest DEF st, sub, ak
<1> QED
  BY <1>4, <1>5

LEMMA NewContextKeeps ==
  ASSUME IInv, NEW c \in Context, NEW r \in Receiver, NewContext(c, r)
  PROVE  IInv'
<1>1. Agree(deliver, handlers, state, awaiting, receiver, submits, ack) /\ NoLostWakeup /\ Rest
  BY InvariantParts
<1>2. /\ UNCHANGED <<state, awaiting, killing, cancelNext, submits, ack, killed, killer,
                     handlers, deliver, owed, forgotten, halted>>
      /\ receiver[c] = None
      /\ receiver' = [receiver EXCEPT ![c] = r]
      /\ receiver \in [Context -> Receiver \cup {None}]
      /\ r # None
  BY <1>1, SignalReceiverAssumption DEF NewContext, Alive, threadVars, Rest
<1>3. submits[c] = 0
  BY <1>1, <1>2 DEF Rest, FreshContexts
<1>4. \A q \in Receiver, b \in Context :
        b \in ToSet(deliver[q]) <=> receiver'[b] = q /\ b \in ack /\ submits[b] > 0
  <2> TAKE q \in Receiver, b \in Context
  <2>1. b \in ToSet(deliver[q]) <=> receiver[b] = q /\ b \in ack /\ submits[b] > 0
    BY <1>1 DEF Agree
  <2>2. q # None
    BY SignalReceiverAssumption
  <2> QED
    BY <1>2, <1>3, <2>1, <2>2
<1>5. Agree(deliver', handlers', state', awaiting', receiver', submits', ack')
  BY <1>1, <1>2, <1>4 DEF Agree
<1>6. NoLostWakeup'
  BY <1>1, <1>2 DEF NoLostWakeup
<1>7. FreshContexts' /\ KillersMatch'
  BY <1>1, <1>2 DEF Rest, FreshContexts, KillersMatch, Alive
<1>8. Rest'
  BY <1>1, <1>2, <1>7 DEF Rest
<1> QED
  BY <1>5, <1>6, <1>8, InvariantWhole

\* The thread that a context wakes has waited for the kill: no assertion fails.
LEMMA AckKilledKeeps ==
  ASSUME IInv, NEW c \in Context, AckKilled(c)
  PROVE  IInv'
<1> DEFINE t == killer[c]
<1>1. Agree(deliver, handlers, state, awaiting, receiver, submits, ack) /\ NoLostWakeup /\ Rest
  BY InvariantParts
<1>2. /\ t # None /\ t \in Thread
      /\ state[t] = "AWAITS_SIGNAL_CONTEXT_KILL"
      /\ killing[t] = c
  BY <1>1 DEF AckKilled, Rest, KillersMatch
<1>3. /\ halted' = FALSE
      /\ killing' = [killing EXCEPT ![t] = None]
      /\ state' = [state EXCEPT ![t] = "ACTIVE"]
      /\ killer' = [killer EXCEPT ![c] = None]
      /\ UNCHANGED <<awaiting, cancelNext, receiver, submits, ack, killed, handlers, deliver, owed, forgotten>>
  BY <1>2 DEF AckKilled
<1>4. \A b \in Context : b # c => killer[b] # t
  BY <1>1, <1>2 DEF Rest, KillersMatch
<1> HIDE DEF t
<1>5. /\ state' \in [Thread -> ThreadState]
      /\ \A u \in Thread : state'[u] = "AWAITS_SIGNAL" <=> state[u] = "AWAITS_SIGNAL"
  BY <1>1, <1>2, <1>3 DEF Agree, ThreadState
<1>6. Agree(deliver', handlers', state', awaiting', receiver', submits', ack')
  BY <1>1, <1>3, <1>5 DEF Agree
<1>7. NoLostWakeup'
  BY <1>1, <1>3 DEF NoLostWakeup
<1>8. FreshContexts'
  BY <1>1, <1>3 DEF Rest, FreshContexts
<1>9. KillersMatch'
  <2>1. SUFFICES ASSUME NEW b \in Context, killer'[b] # None
                 PROVE  /\ b \in (Alive' \cap killed') \ ack'
                        /\ state'[killer'[b]] = "AWAITS_SIGNAL_CONTEXT_KILL"
                        /\ killing'[killer'[b]] = b
    BY DEF KillersMatch
  <2>2. b # c /\ killer'[b] = killer[b]
    BY <1>1, <1>3, <2>1 DEF Rest
  <2>3. /\ b \in (Alive \cap killed) \ ack
        /\ state[killer[b]] = "AWAITS_SIGNAL_CONTEXT_KILL"
        /\ killing[killer[b]] = b
        /\ killer[b] # t /\ killer[b] \in Thread
    BY <1>1, <1>4, <2>1, <2>2 DEF Rest, KillersMatch
  <2> QED
    BY <1>1, <1>3, <2>2, <2>3 DEF Alive, Agree, Rest
<1>10. Rest'
  BY <1>1, <1>2, <1>3, <1>8, <1>9 DEF Rest
<1> QED
  BY <1>6, <1>7, <1>10, InvariantWhole

LEMMA KillContextKeeps ==
  ASSUME IInv, NEW t \in Thread, NEW c \in Context, KillContext(t, c)
  PROVE  IInv'
<1>1. Agree(deliver, handlers, state, awaiting, receiver, submits, ack) /\ NoLostWakeup /\ Rest
  BY InvariantParts
<1>2. /\ state[t] = "ACTIVE" /\ c \in Alive \ killed
      /\ killed' = killed \cup {c}
      /\ UNCHANGED <<awaiting, cancelNext, receiver, submits, ack, handlers, deliver, owed, forgotten, halted>>
  BY DEF KillContext
<1>3. \A b \in Context : killer[b] # t
  BY <1>1, <1>2, SignalReceiverAssumption DEF Rest, KillersMatch
<1>4. \/ c \in ack /\ UNCHANGED <<state, killing, killer>>
      \/ /\ c \notin ack
         /\ state' = [state EXCEPT ![t] = "AWAITS_SIGNAL_CONTEXT_KILL"]
         /\ killing' = [killing EXCEPT ![t] = c]
         /\ killer' = [killer EXCEPT ![c] = t]
  BY DEF KillContext, KillsDirectly
<1>5. /\ state' \in [Thread -> ThreadState]
      /\ \A u \in Thread : state'[u] = "AWAITS_SIGNAL" <=> state[u] = "AWAITS_SIGNAL"
  <2>1. state \in [Thread -> ThreadState] /\ "AWAITS_SIGNAL_CONTEXT_KILL" \in ThreadState
    BY <1>1 DEF Agree, ThreadState
  <2>2. CASE UNCHANGED <<state, killing, killer>>
    BY <2>1, <2>2
  <2>3. CASE state' = [state EXCEPT ![t] = "AWAITS_SIGNAL_CONTEXT_KILL"]
    BY <1>2, <2>1, <2>3
  <2> QED
    BY <1>4, <2>2, <2>3
<1>6. Agree(deliver', handlers', state', awaiting', receiver', submits', ack')
  BY <1>1, <1>2, <1>5 DEF Agree
<1>7. NoLostWakeup'
  BY <1>1, <1>2 DEF NoLostWakeup
<1>8. FreshContexts'
  BY <1>1, <1>2 DEF Rest, FreshContexts, Alive
<1>9. KillersMatch'
  <2>1. SUFFICES ASSUME NEW b \in Context, killer'[b] # None
                 PROVE  /\ b \in (Alive \cap killed') \ ack
                        /\ state'[killer'[b]] = "AWAITS_SIGNAL_CONTEXT_KILL"
                        /\ killing'[killer'[b]] = b
    BY <1>2 DEF KillersMatch, Alive
  <2>2. CASE killer'[b] = killer[b]
    <3>1. /\ b \in (Alive \cap killed) \ ack
          /\ state[killer[b]] = "AWAITS_SIGNAL_CONTEXT_KILL"
          /\ killing[killer[b]] = b
          /\ killer[b] # t /\ killer[b] \in Thread
      BY <1>1, <1>3, <2>1, <2>2 DEF Rest, KillersMatch
    <3> QED
      BY <1>1, <1>2, <1>4, <2>2, <3>1 DEF Rest, Agree
  <2>3. CASE killer'[b] # killer[b]
    <3>1. b = c /\ c \notin ack /\ killer'[b] = t
      BY <1>1, <1>4, <2>3 DEF Rest
    <3> QED
      BY <1>1, <1>2, <1>4, <3>1 DEF Rest, Agree
  <2> QED
    BY <2>2, <2>3
<1>10. Rest'
  BY <1>1, <1>2, <1>4, <1>8, <1>9 DEF Rest
<1> QED
  BY <1>6, <1>7, <1>10, InvariantWhole

LEMMA DeleteContextKeeps ==
  ASSUME IInv, NEW c \in Context, DeleteContext(c)
  PROVE  IInv'
<1> DEFINE t == killer[c]
           r == receiver[c]
<1>1. Agree(deliver, handlers, state, awaiting, receiver, submits, ack) /\ NoLostWakeup /\ Rest
  BY InvariantParts
<1>2. /\ halted' = (t # None /\ state[t] # "AWAITS_SIGNAL_CONTEXT_KILL")
      /\ state' = [u \in Thread |-> IF u = t THEN "ACTIVE" ELSE state[u]]
      /\ deliver' = [deliver EXCEPT ![r] = Without(@, c)]
      /\ receiver' = [receiver EXCEPT ![c] = None]
      /\ submits' = [submits EXCEPT ![c] = 0]
      /\ owed' = [owed EXCEPT ![c] = 0]
      /\ ack' = ack \cup {c}
      /\ killed' = killed \ {c}
      /\ killer' = [killer EXCEPT ![c] = None]
      /\ UNCHANGED <<awaiting, killing, cancelNext, handlers, forgotten>>
  BY DEF DeleteContext
<1>3. r \in Receiver /\ r # None
  BY <1>1 DEF DeleteContext, Alive, Rest
<1>4. t # None => t \in Thread /\ state[t] = "AWAITS_SIGNAL_CONTEXT_KILL" /\ killing[t] = c
  BY <1>1 DEF Rest, KillersMatch
<1>5. halted' = FALSE
  BY <1>2, <1>4
<1>6. deliver[r] \in Seq(Context) /\ Distinct(deliver[r]) /\ deliver \in [Receiver -> Seq(Context)]
  BY <1>1, <1>3 DEF Agree
<1> DEFINE d == Without(deliver[r], c)
<1>7. /\ d \in Seq(Context) /\ Distinct(d)
      /\ \A u : u \in ToSet(d) <=> u \in ToSet(deliver[r]) /\ u # c
      /\ deliver[r] = <<>> => d = <<>>
  BY <1>6, WithoutElements
<1>8. deliver' = [deliver EXCEPT ![r] = d]
  BY <1>2
<1> HIDE DEF d, r, t
<1>9. ASSUME NEW q \in Receiver, NEW b \in Context
      PROVE  b \in ToSet(deliver'[q]) <=> receiver'[b] = q /\ b \in ack' /\ submits'[b] > 0
  <2>1. b \in ToSet(deliver[q]) <=> receiver[b] = q /\ b \in ack /\ submits[b] > 0
    BY <1>1 DEF Agree
  <2>2. q # None
    BY SignalReceiverAssumption
  <2>3. CASE b = c
    <3>1. receiver'[b] # q
      BY <1>1, <1>2, <2>2, <2>3 DEF Rest
    <3>2. b \notin ToSet(deliver'[q])
      BY <1>3, <1>6, <1>7, <1>8, <2>1, <2>3 DEF r
    <3> QED
      BY <3>1, <3>2
  <2>4. CASE b # c
    <3>1. receiver'[b] = receiver[b] /\ submits'[b] = submits[b] /\ (b \in ack' <=> b \in ack)
      BY <1>1, <1>2, <2>4 DEF Rest, Agree
    <3>2. b \in ToSet(deliver'[q]) <=> b \in ToSet(deliver[q])
      BY <1>3, <1>6, <1>7, <1>8, <2>4
    <3> QED
      BY <2>1, <3>1, <3>2
  <2> QED
    BY <2>3, <2>4
<1>10. /\ state' \in [Thread -> ThreadState]
       /\ \A u \in Thread : state'[u] = "AWAITS_SIGNAL" <=> state[u] = "AWAITS_SIGNAL"
  <2>1. state \in [Thread -> ThreadState]
    BY <1>1 DEF Agree
  <2>2. t \in Thread => state[t] = "AWAITS_SIGNAL_CONTEXT_KILL"
    BY <1>4, SignalReceiverAssumption
  <2>3. \A u \in Thread : state'[u] = IF u = t THEN "ACTIVE" ELSE state[u]
    BY <1>2
  <2>4. "ACTIVE" \in ThreadState
    BY DEF ThreadState
  <2> QED
    BY <1>2, <2>1, <2>2, <2>3, <2>4
<1>11. /\ deliver' \in [Receiver -> Seq(Context)]
       /\ \A q \in Receiver : Distinct(deliver'[q])
  BY <1>1, <1>6, <1>7, <1>8 DEF Agree
<1>12. submits' \in [Context -> 0 .. MaxSubmits] /\ ack' \subseteq Context
  BY <1>1, <1>2, SignalReceiverAssumption DEF Agree
<1>13. Agree(deliver', handlers', state', awaiting', receiver', submits', ack')
  BY <1>1, <1>2, <1>9, <1>10, <1>11, <1>12 DEF Agree
<1>14. NoLostWakeup'
  BY <1>1, <1>2, <1>6, <1>7, <1>8 DEF NoLostWakeup
<1>15. FreshContexts'
  BY <1>1, <1>2, <1>12 DEF Rest, FreshContexts, Agree
<1>16. KillersMatch'
  <2>1. SUFFICES ASSUME NEW b \in Context, killer'[b] # None
                 PROVE  /\ b \in (Alive' \cap killed') \ ack'
                        /\ state'[killer'[b]] = "AWAITS_SIGNAL_CONTEXT_KILL"
                        /\ killing'[killer'[b]] = b
    BY DEF KillersMatch
  <2>2. b # c /\ killer'[b] = killer[b]
    BY <1>1, <1>2, <2>1 DEF Rest
  <2>3. /\ b \in (Alive \cap killed) \ ack
        /\ state[killer[b]] = "AWAITS_SIGNAL_CONTEXT_KILL"
        /\ killing[killer[b]] = b
        /\ killer[b] \in Thread
    BY <1>1, <2>1, <2>2 DEF Rest, KillersMatch
  <2>4. killer[b] # t
    BY <1>4, <2>2, <2>3, SignalReceiverAssumption
  <2>5. b \in Alive'
    BY <1>1, <1>2, <2>2, <2>3 DEF Alive, Rest
  <2> QED
    BY <1>2, <2>2, <2>3, <2>4, <2>5
<1>17. Rest'
  <2>1. owed' = submits'
    BY <1>1, <1>2 DEF Rest
  <2>2. receiver' \in [Context -> Receiver \cup {None}] /\ killer' \in [Context -> Thread \cup {None}]
    BY <1>1, <1>2 DEF Rest
  <2> QED
    BY <1>1, <1>2, <1>5, <1>15, <1>16, <2>1, <2>2 DEF Rest
<1> QED
  BY <1>13, <1>14, <1>17, InvariantWhole

LEMMA NewThreadKeeps ==
  ASSUME IInv, NEW t \in Thread, NewThread(t)
  PROVE  IInv'
<1>1. Agree(deliver, handlers, state, awaiting, receiver, submits, ack) /\ NoLostWakeup /\ Rest
  BY InvariantParts
<1>2. /\ state[t] = "NONE"
      /\ state' = [state EXCEPT ![t] = "ACTIVE"]
      /\ UNCHANGED <<awaiting, killing, cancelNext, receiver, submits, ack, killed, killer,
                     handlers, deliver, owed, forgotten, halted>>
  BY DEF NewThread
<1>3. /\ state' \in [Thread -> ThreadState]
      /\ \A u \in Thread : state'[u] = "AWAITS_SIGNAL" <=> state[u] = "AWAITS_SIGNAL"
      /\ \A u \in Thread : state[u] = "AWAITS_SIGNAL_CONTEXT_KILL" => state'[u] = state[u]
  BY <1>1, <1>2 DEF Agree, ThreadState
<1>4. Agree(deliver', handlers', state', awaiting', receiver', submits', ack')
  BY <1>1, <1>2, <1>3 DEF Agree
<1>5. NoLostWakeup'
  BY <1>1, <1>2 DEF NoLostWakeup
<1>6. FreshContexts' /\ KillersMatch'
  BY <1>1, <1>2, <1>3 DEF Rest, FreshContexts, KillersMatch, Alive
<1>7. Rest'
  BY <1>1, <1>2, <1>6 DEF Rest
<1> QED
  BY <1>4, <1>5, <1>7, InvariantWhole

\* The queues of handlers after a thread has left them.
LEMMA HandlersWithoutElements ==
  ASSUME IInv, NEW t \in Thread
  PROVE  /\ HandlersWithout(t) \in [Receiver -> Seq(Thread)]
         /\ \A r \in Receiver : Distinct(HandlersWithout(t)[r])
         /\ \A r \in Receiver, u \in Thread :
              u \in ToSet(HandlersWithout(t)[r]) <=> u # t /\ awaiting[u] = r
         /\ \A r \in Receiver : handlers[r] = <<>> => HandlersWithout(t)[r] = <<>>
<1>1. Agree(deliver, handlers, state, awaiting, receiver, submits, ack)
  BY InvariantParts
<1>2. ASSUME NEW r \in Receiver
      PROVE  /\ HandlersWithout(t)[r] \in Seq(Thread)
             /\ Distinct(HandlersWithout(t)[r])
             /\ \A u \in Thread : u \in ToSet(HandlersWithout(t)[r]) <=> u # t /\ awaiting[u] = r
             /\ handlers[r] = <<>> => HandlersWithout(t)[r] = <<>>
  <2>1. /\ handlers[r] \in Seq(Thread) /\ Distinct(handlers[r])
        /\ \A u \in Thread : u \in ToSet(handlers[r]) <=> awaiting[u] = r
    BY <1>1 DEF Agree
  <2>2. CASE r = awaiting[t]
    <3>1. HandlersWithout(t)[r] = Without(handlers[r], t)
      BY <2>2 DEF HandlersWithout
    <3>2. /\ Without(handlers[r], t) \in Seq(Thread) /\ Distinct(Without(handlers[r], t))
          /\ \A u : u \in ToSet(Without(handlers[r], t)) <=> u \in ToSet(handlers[r]) /\ u # t
          /\ handlers[r] = <<>> => Without(handlers[r], t) = <<>>
      BY <2>1, WithoutElements
    <3> QED
      BY <2>1, <3>1, <3>2
  <2>3. CASE r # awaiting[t]
    <3>1. HandlersWithout(t)[r] = handlers[r]
      BY <2>3 DEF HandlersWithout
    <3> QED
      BY <2>1, <2>3, <3>1
  <2> QED
    BY <2>2, <2>3
<1>3. DOMAIN HandlersWithout(t) = Receiver /\ HandlersWithout(t) = [r \in Receiver |-> HandlersWithout(t)[r]]
  BY DEF HandlersWithout
<1> QED
  BY <1>2, <1>3

LEMMA DeleteThreadKeeps ==
  ASSUME IInv, NEW t \in Thread, DeleteThread(t)
  PROVE  IInv'
<1>1. Agree(deliver, handlers, state, awaiting, receiver, submits, ack) /\ NoLostWakeup /\ Rest
  BY InvariantParts
<1>2. /\ state' = [state EXCEPT ![t] = "NONE"]
      /\ killer' = [c \in Context |-> IF c = killing[t] THEN None ELSE killer[c]]
      /\ killing' = [killing EXCEPT ![t] = None]
      /\ handlers' = HandlersWithout(t)
      /\ awaiting' = [awaiting EXCEPT ![t] = None]
      /\ cancelNext' = cancelNext \ {t}
      /\ forgotten' \subseteq forgotten \cup Thread
      /\ UNCHANGED <<receiver, submits, ack, killed, deliver, owed, halted>>
  BY DEF DeleteThread
<1>3. /\ handlers' \in [Receiver -> Seq(Thread)]
      /\ \A r \in Receiver : Distinct(handlers'[r])
      /\ \A r \in Receiver, u \in Thread : u \in ToSet(handlers'[r]) <=> u # t /\ awaiting[u] = r
      /\ \A r \in Receiver : handlers[r] = <<>> => handlers'[r] = <<>>
  BY <1>2, HandlersWithoutElements
<1>4. /\ state' \in [Thread -> ThreadState] /\ awaiting' \in [Thread -> Receiver \cup {None}]
      /\ \A u \in Thread : state'[u] = "AWAITS_SIGNAL" <=> awaiting'[u] # None
      /\ \A u \in Thread : u # t => state'[u] = state[u] /\ awaiting'[u] = awaiting[u]
      /\ awaiting'[t] = None
  BY <1>1, <1>2 DEF Agree, ThreadState
<1>5. \A r \in Receiver, u \in Thread : u \in ToSet(handlers'[r]) <=> awaiting'[u] = r
  BY <1>3, <1>4, SignalReceiverAssumption
<1>6. Agree(deliver', handlers', state', awaiting', receiver', submits', ack')
  BY <1>1, <1>2, <1>3, <1>4, <1>5 DEF Agree
<1>7. NoLostWakeup'
  BY <1>1, <1>2, <1>3 DEF NoLostWakeup
<1>8. FreshContexts'
  BY <1>1, <1>2 DEF Rest, FreshContexts
<1>9. KillersMatch'
  <2>1. SUFFICES ASSUME NEW c \in Context, killer'[c] # None
                 PROVE  /\ c \in (Alive \cap killed) \ ack
                        /\ state'[killer'[c]] = "AWAITS_SIGNAL_CONTEXT_KILL"
                        /\ killing'[killer'[c]] = c
    BY <1>2 DEF KillersMatch, Alive
  <2>2. killer'[c] = killer[c] /\ c # killing[t]
    BY <1>2, <2>1
  <2>3. /\ c \in (Alive \cap killed) \ ack
        /\ state[killer[c]] = "AWAITS_SIGNAL_CONTEXT_KILL"
        /\ killing[killer[c]] = c
        /\ killer[c] \in Thread
    BY <1>1, <2>1, <2>2 DEF Rest, KillersMatch
  <2>4. killer[c] # t
    BY <2>2, <2>3
  <2> QED
    BY <1>1, <1>2, <1>4, <2>2, <2>3, <2>4 DEF Rest
<1>10. Rest'
  BY <1>1, <1>2, <1>8, <1>9 DEF Rest
<1> QED
  BY <1>6, <1>7, <1>10, InvariantWhole

LEMMA AwaitCancelledKeeps ==
  ASSUME IInv, NEW t \in Thread, AwaitCancelled(t)
  PROVE  IInv'
<1>1. Agree(deliver, handlers, state, awaiting, receiver, submits, ack) /\ NoLostWakeup /\ Rest
  BY InvariantParts
<1>2. /\ cancelNext' \subseteq cancelNext
      /\ UNCHANGED <<state, awaiting, killing, receiver, submits, ack, killed, killer,
                     handlers, deliver, owed, forgotten, halted>>
  BY DEF AwaitCancelled
<1>3. Agree(deliver', handlers', state', awaiting', receiver', submits', ack')
  BY <1>1, <1>2
<1>4. NoLostWakeup'
  BY <1>1, <1>2 DEF NoLostWakeup
<1>5. Rest'
  BY <1>1, <1>2 DEF Rest, FreshContexts, KillersMatch, Alive
<1> QED
  BY <1>3, <1>4, <1>5, InvariantWhole

LEMMA CancelNextAwaitSignalKeeps ==
  ASSUME IInv, NEW t \in Thread, CancelNextAwaitSignal(t)
  PROVE  IInv'
<1>1. Agree(deliver, handlers, state, awaiting, receiver, submits, ack) /\ NoLostWakeup /\ Rest
  BY InvariantParts
<1>2. UNCHANGED <<killing, receiver, submits, ack, killed, killer, deliver, owed, forgotten, halted>>
  BY DEF CancelNextAwaitSignal
<1>3. FreshContexts'
  BY <1>1, <1>2 DEF Rest, FreshContexts
<1>4. CASE state[t] = "AWAITS_SIGNAL"
  <2>1. /\ state' = [state EXCEPT ![t] = "ACTIVE"]
        /\ handlers' = HandlersWithout(t)
        /\ awaiting' = [awaiting EXCEPT ![t] = None]
        /\ UNCHANGED cancelNext
    BY <1>4 DEF CancelNextAwaitSignal
  <2>2. /\ handlers' \in [Receiver -> Seq(Thread)]
        /\ \A r \in Receiver : Distinct(handlers'[r])
        /\ \A r \in Receiver, u \in Thread : u \in ToSet(handlers'[r]) <=> u # t /\ awaiting[u] = r
        /\ \A r \in Receiver : handlers[r] = <<>> => handlers'[r] = <<>>
    BY <2>1, HandlersWithoutElements
  <2>3. /\ state' \in [Thread -> ThreadState] /\ awaiting' \in [Thread -> Receiver \cup {None}]
        /\ \A u \in Thread : state'[u] = "AWAITS_SIGNAL" <=> awaiting'[u] # None
        /\ \A u \in Thread : u # t => state'[u] = state[u] /\ awaiting'[u] = awaiting[u]
        /\ awaiting'[t] = None
    BY <1>1, <2>1 DEF Agree, ThreadState
  <2>4. \A r \in Receiver, u \in Thread : u \in ToSet(handlers'[r]) <=> awaiting'[u] = r
    BY <2>2, <2>3, SignalReceiverAssumption
  <2>5. Agree(deliver', handlers', state', awaiting', receiver', submits', ack')
    BY <1>1, <1>2, <2>2, <2>3, <2>4 DEF Agree
  <2>6. NoLostWakeup'
    BY <1>1, <1>2, <2>2 DEF NoLostWakeup
  <2>7. KillersMatch'
    BY <1>1, <1>2, <1>4, <2>3 DEF Rest, KillersMatch, Alive
  <2>8. Rest'
    BY <1>1, <1>2, <1>3, <2>1, <2>7 DEF Rest
  <2> QED
    BY <2>5, <2>6, <2>8, InvariantWhole
<1>5. CASE state[t] # "AWAITS_SIGNAL"
  <2>1. cancelNext' = cancelNext \cup {t} /\ UNCHANGED <<state, handlers, awaiting>>
    BY <1>5 DEF CancelNextAwaitSignal
  <2>2. Agree(deliver', handlers', state', awaiting', receiver', submits', ack')
    BY <1>1, <1>2, <2>1
  <2>3. NoLostWakeup'
    BY <1>1, <1>2, <2>1 DEF NoLostWakeup
  <2>4. KillersMatch'
    BY <1>1, <1>2, <2>1 DEF Rest, KillersMatch, Alive
  <2>5. Rest'
    BY <1>1, <1>2, <1>3, <2>1, <2>4 DEF Rest
  <2> QED
    BY <2>2, <2>3, <2>5, InvariantWhole
<1> QED
  BY <1>4, <1>5

LEMMA StutterKeeps ==
  ASSUME IInv, UNCHANGED vars
  PROVE  IInv'
<1>1. Agree(deliver, handlers, state, awaiting, receiver, submits, ack) /\ NoLostWakeup /\ Rest
  BY InvariantParts
<1>2. UNCHANGED <<state, awaiting, killing, cancelNext, receiver, submits, ack, killed, killer,
                  handlers, deliver, owed, forgotten, halted>>
  BY DEF vars, threadVars
<1>3. Agree(deliver', handlers', state', awaiting', receiver', submits', ack')
  BY <1>1, <1>2
<1>4. NoLostWakeup' /\ Rest'
  BY <1>1, <1>2 DEF NoLostWakeup, Rest, FreshContexts, KillersMatch, Alive
<1> QED
  BY <1>3, <1>4, InvariantWhole

-----------------------------------------------------------------------------
(* Theorems *)

LEMMA NextKeeps ==
  ASSUME IInv, [Next]_vars
  PROVE  IInv'
<1>1. ASSUME NEW c \in Context, ContextStep(c)
      PROVE  IInv'
  BY <1>1, NewContextKeeps, SubmitKeeps, AckSignalKeeps, AckKilledKeeps, KillContextKeeps,
     DeleteContextKeeps DEF ContextStep
<1>2. ASSUME NEW t \in Thread, ThreadStep(t)
      PROVE  IInv'
  BY <1>2, NewThreadKeeps, DeleteThreadKeeps, AwaitCancelledKeeps, AwaitSignalKeeps,
     PendingSignalKeeps, CancelNextAwaitSignalKeeps DEF ThreadStep
<1>3. CASE UNCHANGED vars
  BY <1>3, StutterKeeps
<1> QED
  BY <1>1, <1>2, <1>3 DEF Next

\* The inductive invariant of signal delivery and context destruction holds for
\* any number of threads, contexts and receivers, any width of the submit
\* counter, and whether or not core deletes contexts whose kill is awaited.
THEOREM Invariance == Spec => []IInv
<1>1. Init => IInv
  BY InitHolds
<1>2. IInv /\ [Next]_vars => IInv'
  BY NextKeeps
<1> QED
  BY <1>1, <1>2, PTL DEF Spec

\* No wakeup is lost, a context is queued exactly while it is deliverable, and a
\* thread blocks for signals exactly while it is registered, always.
THEOREM QueuesStayConsistent == Spec => []QueuesConsistent
<1>1. IInv => QueuesConsistent
  BY DEF IInv
<1> QED
  BY <1>1, Invariance, PTL

\* No assertion on the state of a served thread or of a killer fails
\* (thread.cc:196,203,211,225).
THEOREM AssertionsHold == Spec => []NoAssertionFails
<1>1. IInv => NoAssertionFails
  BY DEF IInv
<1> QED
  BY <1>1, Invariance, PTL

\* Submits are neither lost nor handed out twice, up to the limit of the counter.
THEOREM SubmitsKept == Spec => []NoSubmitLost
<1>1. IInv => NoSubmitLost
  BY DEF IInv
<1> QED
  BY <1>1, Invariance, PTL

\* One step of the part that is about the threads that wait for a kill.
LEMMA KillingMatchesKept ==
  ASSUME IInv, KillingMatches, [Next]_vars
  PROVE  KillingMatches'
<1>1. Agree(deliver, handlers, state, awaiting, receiver, submits, ack) /\ NoLostWakeup /\ Rest
  BY InvariantParts
<1>2. /\ state \in [Thread -> ThreadState]
      /\ killing \in [Thread -> Context \cup {None}]
      /\ killer \in [Context -> Thread \cup {None}]
  BY <1>1 DEF Agree, Rest
<1>3. /\ \A t \in Thread : state[t] = "AWAITS_SIGNAL_CONTEXT_KILL" =>
           killing[t] # None /\ (t \in forgotten \/ killer[killing[t]] = t)
      /\ \A t \in Thread : killing[t] # None => killing[t] \in Context
  BY <1>2 DEF KillingMatches
<1>4. \A c \in Context : killer[c] # None => killing[killer[c]] = c
  BY <1>1 DEF Rest, KillersMatch
<1>5. ASSUME UNCHANGED <<killing, killer, forgotten>>,
             \A t \in Thread : state'[t] = "AWAITS_SIGNAL_CONTEXT_KILL" => state[t] = state'[t]
      PROVE  KillingMatches'
  BY <1>3, <1>5 DEF KillingMatches
<1>6. ASSUME NEW st, NEW r, NEW n, NEW d, NEW h, NEW aw, NEW sub, NEW ak, NEW ow,
             Hand(r, n, d, h, st, aw, sub, ak, ow),
             \A t \in Thread : st[t] = "AWAITS_SIGNAL_CONTEXT_KILL" => state[t] = st[t],
             UNCHANGED killVars
      PROVE  KillingMatches'
  <2>1. state' = [t \in Thread |-> IF t \in ToSet(SubSeq(h, 1, n)) THEN "ACTIVE" ELSE st[t]]
    BY <1>6 DEF Hand
  <2> QED
    BY <1>5, <1>6, <2>1 DEF killVars
<1>7. ASSUME NEW t \in Thread \cup {None}, NEW cs \in Context \cup {None},
             killing' \in [Thread -> Context \cup {None}],
             \A u \in Thread : u # t => killing'[u] = killing[u],
             \A u \in Thread : state'[u] = "AWAITS_SIGNAL_CONTEXT_KILL" => u # t /\ state[u] = state'[u],
             \A c \in Context : killer'[c] = IF c = cs THEN None ELSE killer[c],
             \A u \in Thread : u # t /\ u \in forgotten => u \in forgotten',
             \A u \in Thread : u # t /\ cs \in Context /\ killer[cs] = u => u \in forgotten'
      PROVE  KillingMatches'
  <2>1. SUFFICES ASSUME NEW u \in Thread, state'[u] = "AWAITS_SIGNAL_CONTEXT_KILL"
                 PROVE  killing'[u] # None /\ (u \in forgotten' \/ killer'[killing'[u]] = u)
    BY DEF KillingMatches
  <2>2. u # t /\ killing'[u] = killing[u] /\ killing[u] # None /\ killing[u] \in Context
    BY <2>1, <1>3, <1>7
  <2>3. u \in forgotten \/ killer[killing[u]] = u
    BY <2>1, <1>3, <1>7
  <2> QED
    BY <2>2, <2>3, <1>7
<1>8. ASSUME NEW c \in Context, ContextStep(c)
      PROVE  KillingMatches'
  <2>1. CASE \E r \in Receiver : NewContext(c, r)
    BY <2>1, <1>5 DEF NewContext, threadVars
  <2>2. CASE \E n \in Batch : Submit(c, n)
    BY <2>2, <1>6 DEF Submit, Deliverable
  <2>3. CASE AckSignal(c)
    BY <2>3, <1>6 DEF AckSignal, Deliverable
  <2>4. CASE AckKilled(c)
    <3>1. killer[c] \in Thread /\ killing[killer[c]] = c
      BY <2>4, <1>2, <1>4 DEF AckKilled
    <3> DEFINE t == killer[c]
    <3>2. /\ killing' \in [Thread -> Context \cup {None}]
          /\ \A u \in Thread : u # t => killing'[u] = killing[u]
          /\ \A u \in Thread : state'[u] = "AWAITS_SIGNAL_CONTEXT_KILL" => u # t /\ state[u] = state'[u]
          /\ \A b \in Context : killer'[b] = IF b = c THEN None ELSE killer[b]
          /\ forgotten' = forgotten
      BY <2>4, <1>2, <3>1 DEF AckKilled
    <3>3. /\ \A u \in Thread : u # t /\ c \in Context /\ killer[c] = u => u \in forgotten'
          /\ t \in Thread \cup {None}
      BY <1>2
    <3> HIDE DEF t
    <3> QED
      BY <1>7, <3>2, <3>3
  <2>5. CASE \E t \in Thread : KillContext(t, c)
    <3>1. PICK t \in Thread : KillContext(t, c)
      BY <2>5
    <3>2. c \notin killed /\ state[t] = "ACTIVE"
      BY <3>1 DEF KillContext
    <3>3. killer[c] = None
      BY <3>2, <1>1 DEF Rest, KillersMatch
    <3>4. forgotten' = forgotten
      BY <3>1 DEF KillContext
    <3>5. CASE UNCHANGED <<state, killing, killer>>
      BY <3>4, <3>5, <1>5
    <3>6. CASE /\ state' = [state EXCEPT ![t] = "AWAITS_SIGNAL_CONTEXT_KILL"]
               /\ killing' = [killing EXCEPT ![t] = c]
               /\ killer' = [killer EXCEPT ![c] = t]
      <4>1. SUFFICES ASSUME NEW u \in Thread, state'[u] = "AWAITS_SIGNAL_CONTEXT_KILL"
                     PROVE  killing'[u] # None /\ (u \in forgotten' \/ killer'[killing'[u]] = u)
        BY DEF KillingMatches
      <4>2. CASE u = t
        BY <4>2, <3>6, <1>2, SignalReceiverAssumption
      <4>3. CASE u # t
        <5>1. killing'[u] = killing[u] /\ state'[u] = state[u]
          BY <4>3, <1>2, <3>6
        <5>2. killing[u] # None /\ killing[u] \in Context /\ (u \in forgotten \/ killer[killing[u]] = u)
          BY <4>1, <5>1, <1>3
        <5>3. u \notin forgotten => killing[u] # c
          BY <3>3, <5>2, SignalReceiverAssumption
        <5> QED
          BY <5>1, <5>2, <5>3, <1>2, <3>4, <3>6
      <4> QED
        BY <4>2, <4>3
    <3> QED
      BY <3>1, <3>5, <3>6 DEF KillContext
  <2>6. CASE DeleteContext(c)
    <3> DEFINE t == killer[c]
    <3>1. /\ killing' \in [Thread -> Context \cup {None}]
          /\ \A u \in Thread : u # t => killing'[u] = killing[u]
          /\ \A u \in Thread : state'[u] = "AWAITS_SIGNAL_CONTEXT_KILL" => u # t /\ state[u] = state'[u]
          /\ \A b \in Context : killer'[b] = IF b = c THEN None ELSE killer[b]
          /\ forgotten' = forgotten
      BY <2>6, <1>2 DEF DeleteContext
    <3>2. /\ \A u \in Thread : u # t /\ c \in Context /\ killer[c] = u => u \in forgotten'
          /\ t \in Thread \cup {None}
      BY <1>2
    <3> HIDE DEF t
    <3> QED
      BY <1>7, <3>1, <3>2
  <2> QED
    BY <1>8, <2>1, <2>2, <2>3, <2>4, <2>5, <2>6 DEF ContextStep
<1>9. ASSUME NEW t \in Thread, ThreadStep(t)
      PROVE  KillingMatches'
  <2>1. CASE NewThread(t)
    BY <2>1, <1>2, <1>5 DEF NewThread
  <2>2. CASE DeleteThread(t)
    <3> DEFINE cs == killing[t]
    <3>1. /\ killing' \in [Thread -> Context \cup {None}]
          /\ \A u \in Thread : u # t => killing'[u] = killing[u]
          /\ \A u \in Thread : state'[u] = "AWAITS_SIGNAL_CONTEXT_KILL" => u # t /\ state[u] = state'[u]
          /\ \A b \in Context : killer'[b] = IF b = cs THEN None ELSE killer[b]
      BY <2>2, <1>2 DEF DeleteThread
    <3>2. /\ \A u \in Thread : u # t /\ u \in forgotten => u \in forgotten'
          /\ \A u \in Thread : u # t /\ cs \in Context /\ killer[cs] = u => u \in forgotten'
      BY <2>2, SignalReceiverAssumption DEF DeleteThread
    <3>3. cs \in Context \cup {None}
      BY <1>2
    <3> HIDE DEF cs
    <3> QED
      BY <1>7, <3>1, <3>2, <3>3
  <2>3. CASE AwaitCancelled(t)
    BY <2>3, <1>5 DEF AwaitCancelled
  <2>4. ASSUME NEW r \in Receiver, AwaitSignal(t, r)
        PROVE  KillingMatches'
    <3> DEFINE st == [state EXCEPT ![t] = "AWAITS_SIGNAL"]
    <3>1. \A u \in Thread : st[u] = "AWAITS_SIGNAL_CONTEXT_KILL" => state[u] = st[u]
      BY <1>2
    <3> HIDE DEF st
    <3> QED
      BY <2>4, <1>6, <3>1 DEF AwaitSignal, st
  <2>5. ASSUME NEW r \in Receiver, PendingSignal(t, r)
        PROVE  KillingMatches'
    <3> DEFINE served == Len(deliver[r]) > Len(handlers[r])
               st == IF served THEN [state EXCEPT ![t] = "AWAITS_SIGNAL"] ELSE state
               h  == IF served THEN Append(handlers[r], t) ELSE handlers[r]
    <3>1. \A u \in Thread : st[u] = "AWAITS_SIGNAL_CONTEXT_KILL" => state[u] = st[u]
      BY <1>2
    <3>2. /\ Hand(r, Pairs(deliver[r], h), deliver[r], h, st, awaiting, submits, ack, owed)
          /\ UNCHANGED killVars
      BY <2>5 DEF PendingSignal
    <3> HIDE DEF st, h, served
    <3> QED
      BY <1>6, <3>1, <3>2
  <2>6. CASE CancelNextAwaitSignal(t)
    BY <2>6, <1>2, <1>5 DEF CancelNextAwaitSignal
  <2> QED
    BY <1>9, <2>1, <2>2, <2>3, <2>4, <2>5, <2>6 DEF ThreadStep
<1>10. CASE UNCHANGED vars
  BY <1>10, <1>5 DEF vars, threadVars
<1> QED
  BY <1>8, <1>9, <1>10 DEF Next

\* Whoever waits for the kill of a context is known to it, and an outstanding
\* acknowledgement will end the wait, unless the killer object of another thread,
\* left over from a context that was deleted there, has removed it.
THEOREM KillWaitsAnswered == Spec => []KillWaitEnds
<1>1. Init => KillingMatches
  BY DEF Init, KillingMatches
<1>2. IInv /\ KillingMatches /\ [Next]_vars => KillingMatches'
  BY KillingMatchesKept
<1>3. IInv /\ KillingMatches => KillWaitEnds
  <2>1. SUFFICES ASSUME IInv, KillingMatches, NEW t \in Thread,
                        state[t] = "AWAITS_SIGNAL_CONTEXT_KILL", t \notin forgotten
                 PROVE  /\ killing[t] # None /\ killer[killing[t]] = t
                        /\ killing[t] \in (Alive \cap killed) \ ack
    BY DEF KillWaitEnds
  <2>2. killing[t] # None /\ killing[t] \in Context /\ killer[killing[t]] = t
    BY <2>1 DEF KillingMatches, IInv, QueuesConsistent, TypeOK
  <2> QED
    BY <2>1, <2>2, SignalReceiverAssumption DEF IInv, QueuesConsistent, KillersMatch
<1> QED
  BY <1>1, <1>2, <1>3, Invariance, PTL DEF Spec

=============================================================================

--------------------------- MODULE ThreadIpcProof ---------------------------
(* Proofs about ThreadIpc, for any set of threads and CPUs *)
EXTENDS ThreadIpc, SequenceTheorems, TLAPS

-----------------------------------------------------------------------------
(* The used shares of a thread are the least set that holds it and is closed *)
(* under helpers.                                                            *)

\* A thread is one of the users of its own share.
LEMMA UsedSharesSelf ==
  ASSUME NEW t \in Thread
  PROVE  t \in UsedShares(t)
BY DEF UsedShares

\* Whoever helps a user of the shares is among them.
LEMMA UsedSharesClosed ==
  ASSUME TypeOK, NEW t \in Thread, NEW v \in UsedShares(t), NEW h \in Helpers(v)
  PROVE  h \in UsedShares(t)
<1>1. v \in Thread /\ h \in Thread /\ Helping(h)
  BY DEF Helpers, ToSet, TypeOK, UsedShares
<1>2. SUFFICES ASSUME NEW S \in SUBSET {w \in Thread : Helping(w)},
                      \A w \in S \cup {t} : Helpers(w) \subseteq S
               PROVE  h \in S
  BY <1>1 DEF UsedShares
<1>3. v \in S \cup {t}
  BY <1>2 DEF UsedShares
<1> QED
  BY <1>2, <1>3

\* A set of threads that holds t and is closed under helpers holds the shares.
LEMMA UsedSharesLeast ==
  ASSUME TypeOK, NEW t \in Thread, NEW S \in SUBSET Thread, t \in S,
         \A v \in S : Helpers(v) \subseteq S
  PROVE  UsedShares(t) \subseteq S
<1> DEFINE H == {h \in S : Helping(h)}
<1>1. \A v \in H \cup {t} : Helpers(v) \subseteq H
  BY DEF Helpers
<1>2. H \in SUBSET {h \in Thread : Helping(h)}
  OBVIOUS
<1> QED
  BY <1>1, <1>2 DEF UsedShares

\* A thread that is queued at another one has called it.
LEMMA HelpersCalled ==
  ASSUME TypeOK, QueuesMatchSenders, NEW v \in Thread, NEW h \in Helpers(v)
  PROVE  h \in Thread /\ Helping(h) /\ outNode[h] = v
<1>1. h \in Thread
  BY DEF Helpers, ToSet, TypeOK
<1> QED
  BY <1>1 DEF Helpers, QueuesMatchSenders

\* The used shares of t are all ready or all not ready, all on its CPU; all but
\* that of t belong to helpers, of threads that use the shares of t as well.
LEMMA UsedSharesAlike ==
  ASSUME TypeOK, QueuesMatchSenders, SharesFollowHelping, CallsDescend,
         NEW t \in Thread, NEW u \in UsedShares(t)
  PROVE  /\ u \in Thread
         /\ u \in ready <=> t \in ready
         /\ cpu[u] = cpu[t]
         /\ u # t => Helping(u) /\ outNode[u] \in UsedShares(t)
<1> DEFINE S == {v \in UsedShares(t) :
                   /\ v \in ready <=> t \in ready
                   /\ cpu[v] = cpu[t]
                   /\ v # t => Helping(v) /\ outNode[v] \in UsedShares(t)}
<1>1. S \in SUBSET Thread
  BY DEF UsedShares
<1>2. t \in S
  BY UsedSharesSelf
<1>3. ASSUME NEW v \in S, NEW h \in Helpers(v)
      PROVE  h \in S
  <2>1. h \in Thread /\ Helping(h) /\ outNode[h] = v
    BY <1>1, HelpersCalled
  <2>2. h \in UsedShares(t)
    BY UsedSharesClosed
  <2>3. (h \in ready <=> v \in ready) /\ cpu[h] = cpu[v]
    BY <2>1 DEF SharesFollowHelping
  <2> QED
    BY <2>1, <2>2, <2>3
<1>4. UsedShares(t) \subseteq S
  <2>1. \A v \in S : Helpers(v) \subseteq S
    BY <1>3
  <2> HIDE DEF S
  <2> QED
    BY <1>1, <1>2, <2>1, UsedSharesLeast
<1> QED
  BY <1>4, <1>1

-----------------------------------------------------------------------------
(* Client queues *)

Distinct(q) == \A i, j \in DOMAIN q : q[i] = q[j] => i = j

\* Taking an element out of a sequence closes the gap.
LEMMA RemoveAtElements ==
  ASSUME NEW q \in Seq(Thread), NEW i \in 1 .. Len(q)
  PROVE  /\ RemoveAt(q, i) \in Seq(Thread)
         /\ Len(RemoveAt(q, i)) = Len(q) - 1
         /\ \A j \in 1 .. Len(q) - 1 :
               RemoveAt(q, i)[j] = IF j < i THEN q[j] ELSE q[j + 1]
<1> DEFINE a == SubSeq(q, 1, i - 1)
           b == SubSeq(q, i + 1, Len(q))
<1>1. a \in Seq(Thread) /\ Len(a) = i - 1 /\ \A j \in 1 .. i - 1 : a[j] = q[j]
  OBVIOUS
<1>2. b \in Seq(Thread) /\ Len(b) = Len(q) - i /\ \A j \in 1 .. Len(q) - i : b[j] = q[i + j]
  OBVIOUS
<1>3. RemoveAt(q, i) = a \o b
  BY DEF RemoveAt
<1> HIDE DEF a, b
<1>4. /\ a \o b \in Seq(Thread)
      /\ Len(a \o b) = Len(a) + Len(b)
      /\ \A j \in 1 .. Len(a) + Len(b) :
            (a \o b)[j] = IF j <= Len(a) THEN a[j] ELSE b[j - Len(a)]
  BY <1>1, <1>2, ConcatProperties
<1>5. Len(a) + Len(b) = Len(q) - 1
  BY <1>1, <1>2
<1>6. ASSUME NEW j \in 1 .. Len(q) - 1
      PROVE  (a \o b)[j] = IF j < i THEN q[j] ELSE q[j + 1]
  <2>1. CASE j < i
    BY <2>1, <1>1, <1>4, <1>5
  <2>2. CASE ~(j < i)
    <3>1. (a \o b)[j] = b[j - (i - 1)] /\ j - (i - 1) \in 1 .. Len(q) - i
      BY <2>2, <1>1, <1>2, <1>4, <1>5
    <3> QED
      BY <2>2, <3>1, <1>2
  <2> QED
    BY <2>1, <2>2
<1> QED
  BY <1>3, <1>4, <1>5, <1>6

\* Fifo::remove takes out the one element and keeps the rest in place.
LEMMA WithoutElements ==
  ASSUME NEW q \in Seq(Thread), Distinct(q), NEW t \in Thread
  PROVE  /\ Without(q, t) \in Seq(Thread)
         /\ Distinct(Without(q, t))
         /\ \A u : u \in ToSet(Without(q, t)) <=> u \in ToSet(q) /\ u # t
         /\ q # <<>> /\ Head(q) # t =>
               Without(q, t) # <<>> /\ Head(Without(q, t)) = Head(q)
<1>1. CASE t \notin ToSet(q)
  BY <1>1 DEF Without
<1>2. CASE t \in ToSet(q)
  <2> DEFINE i == CHOOSE k \in DOMAIN q : q[k] = t
             r == RemoveAt(q, i)
  <2>1. i \in 1 .. Len(q) /\ q[i] = t
    BY <1>2 DEF ToSet
  <2>2. Without(q, t) = r
    BY <1>2 DEF Without
  <2> HIDE DEF i
  <2>3. /\ r \in Seq(Thread)
        /\ Len(r) = Len(q) - 1
        /\ \A j \in 1 .. Len(q) - 1 : r[j] = IF j < i THEN q[j] ELSE q[j + 1]
    BY <2>1, RemoveAtElements
  <2> HIDE DEF r
  <2>4. Distinct(r)
    BY <2>1, <2>3 DEF Distinct
  <2>5. ASSUME NEW u, u \in ToSet(r)
        PROVE  u \in ToSet(q) /\ u # t
    BY <2>1, <2>3, <2>5 DEF Distinct, ToSet
  <2>6. ASSUME NEW u, u \in ToSet(q), u # t
        PROVE  u \in ToSet(r)
    <3>1. PICK k \in 1 .. Len(q) : q[k] = u
      BY <2>6 DEF ToSet
    <3>2. CASE k < i
      BY <3>1, <3>2, <2>1, <2>3 DEF ToSet
    <3>3. CASE k > i
      <4>1. k - 1 \in 1 .. Len(r) /\ r[k - 1] = u
        BY <3>1, <3>3, <2>1, <2>3
      <4> QED
        BY <4>1, <2>3 DEF ToSet
    <3> QED
      BY <3>1, <3>2, <3>3, <2>1, <2>6
  <2>7. ASSUME q # <<>>, Head(q) # t
        PROVE  r # <<>> /\ Head(r) = Head(q)
    <3>1. i # 1 /\ Len(q) > 1
      BY <2>1, <2>7
    <3> QED
      BY <3>1, <2>1, <2>3, <2>7
  <2> QED
    BY <2>2, <2>3, <2>4, <2>5, <2>6, <2>7
<1> QED
  BY <1>1, <1>2

\* Fifo::enqueue adds one element, at the end.
LEMMA EnqueuedElements ==
  ASSUME NEW q \in Seq(Thread), Distinct(q), NEW t \in Thread, t \notin ToSet(q)
  PROVE  /\ Enqueued(q, t) \in Seq(Thread)
         /\ Distinct(Enqueued(q, t))
         /\ \A u : u \in ToSet(Enqueued(q, t)) <=> u \in ToSet(q) \/ u = t
         /\ Enqueued(q, t) # <<>>
         /\ Head(Enqueued(q, t)) = IF q = <<>> THEN t ELSE Head(q)
<1> DEFINE r == Enqueued(q, t)
<1>1. /\ r \in Seq(Thread)
      /\ Len(r) = Len(q) + 1
      /\ \A j \in 1 .. Len(q) : r[j] = q[j]
      /\ r[Len(q) + 1] = t
  BY DEF Enqueued
<1> HIDE DEF r
<1>2. Distinct(r)
  BY <1>1 DEF Distinct, ToSet
<1>3. \A u : u \in ToSet(r) <=> u \in ToSet(q) \/ u = t
  BY <1>1 DEF ToSet
<1>4. r # <<>> /\ Head(r) = IF q = <<>> THEN t ELSE Head(q)
  BY <1>1
<1> QED
  BY <1>1, <1>2, <1>3, <1>4 DEF r

\* Fifo::dequeue takes out the first element.
LEMMA TailElements ==
  ASSUME NEW q \in Seq(Thread), Distinct(q), q # <<>>
  PROVE  /\ Tail(q) \in Seq(Thread)
         /\ Distinct(Tail(q))
         /\ \A u : u \in ToSet(Tail(q)) <=> u \in ToSet(q) /\ u # Head(q)
         /\ Head(q) \in Thread
         /\ Head(q) \in ToSet(q)
<1> DEFINE r == Tail(q)
<1>1. /\ r \in Seq(Thread)
      /\ Len(r) = Len(q) - 1
      /\ \A j \in 1 .. Len(q) - 1 : r[j] = q[j + 1]
      /\ Head(q) = q[1]
      /\ 1 \in 1 .. Len(q)
  OBVIOUS
<1> HIDE DEF r
<1>2. Distinct(r)
  BY <1>1 DEF Distinct
<1>3. ASSUME NEW u, u \in ToSet(r)
      PROVE  u \in ToSet(q) /\ u # Head(q)
  BY <1>1, <1>3 DEF ToSet, Distinct
<1>4. ASSUME NEW u, u \in ToSet(q), u # Head(q)
      PROVE  u \in ToSet(r)
  <2>1. PICK k \in 1 .. Len(q) : q[k] = u
    BY <1>4 DEF ToSet
  <2>2. k - 1 \in 1 .. Len(r) /\ r[k - 1] = u
    BY <2>1, <1>1, <1>4
  <2> QED
    BY <2>2, <1>1 DEF ToSet
<1>5. Head(q) \in Thread /\ Head(q) \in ToSet(q)
  BY <1>1 DEF ToSet
<1> QED
  BY <1>1, <1>2, <1>3, <1>4, <1>5 DEF r

\* The used shares of a thread belong to threads.
LEMMA UsedSharesThreads ==
  ASSUME NEW t \in Thread
  PROVE  UsedShares(t) \subseteq Thread
BY DEF UsedShares

-----------------------------------------------------------------------------
(* What the invariant says of a thread that runs, and of helpers *)

\* A thread that is scheduled can run, waits for nothing, and can block: its
\* shares are ready and belong to the CPU that executes it.
LEMMA ScheduledFacts ==
  ASSUME QueueInv, ShareInv, NEW t \in Thread, Scheduled(t)
  PROVE  /\ t \in ready /\ state[t] = "ACTIVE" /\ t \notin paused
         /\ ~Sending(t) /\ outState[t] = "READY" /\ outNode[t] = None
         /\ inState[t] # "WAIT" /\ ~Helping(t)
         /\ CanDeactivate(UsedShares(t), cpu[t])
<1>1. ~Helping(t) /\ t \in ready
  BY UsedSharesAlike DEF Scheduled, QueueInv, ShareInv
<1>2. state[t] = "ACTIVE" /\ t \notin paused
  BY <1>1 DEF ShareInv, SharesFollowHelping, Runs
<1>3. ~Sending(t) /\ inState[t] # "WAIT"
  BY <1>2 DEF ShareInv, BlockedForOneReason
<1>4. outNode[t] = None
  <2>1. outNode[t] \in Thread \cup {None}
    BY DEF QueueInv, TypeOK
  <2> QED
    BY <1>3, <2>1 DEF QueueInv, QueuesMatchSenders
<1>5. outState[t] = "READY"
  BY <1>3 DEF QueueInv, TypeOK, OutState, Sending
<1>6. CanDeactivate(UsedShares(t), cpu[t])
  BY <1>1, UsedSharesAlike DEF QueueInv, ShareInv, CanDeactivate
<1> QED
  BY <1>1, <1>2, <1>3, <1>4, <1>5, <1>6

\* A helper is among the used shares of t exactly if the thread it helps is.
LEMMA HelperUsedWith ==
  ASSUME QueueInv, ShareInv, NEW t \in Thread, NEW h \in Thread, Helping(h), h # t
  PROVE  outNode[h] \in Thread /\ (h \in UsedShares(t) <=> outNode[h] \in UsedShares(t))
<1>1. outNode[h] \in Thread
  BY DEF QueueInv, TypeOK, Helping
<1>2. h \in Helpers(outNode[h])
  BY <1>1 DEF QueueInv, QueuesMatchSenders, Helpers
<1>3. outNode[h] \in UsedShares(t) => h \in UsedShares(t)
  BY <1>2, UsedSharesClosed DEF QueueInv
<1>4. h \in UsedShares(t) => outNode[h] \in UsedShares(t)
  BY UsedSharesAlike DEF QueueInv, ShareInv
<1> QED
  BY <1>1, <1>3, <1>4

\* The used shares of t do not reach down to a thread that t may call.
LEMMA UsedSharesAbove ==
  ASSUME QueueInv, NEW t \in Thread, NEW u \in UsedShares(t)
  PROVE  Level[u] >= Level[t]
<1> DEFINE S == {v \in Thread : Level[v] >= Level[t]}
<1>1. \A v \in S : Helpers(v) \subseteq S
  <2> SUFFICES ASSUME NEW v \in S, NEW h \in Helpers(v) PROVE h \in S
    OBVIOUS
  <2>1. h \in Thread /\ outNode[h] = v
    BY HelpersCalled DEF QueueInv
  <2>2. Level[v] < Level[h]
    BY <2>1 DEF QueueInv, CallsDescend
  <2> QED
    BY <2>1, <2>2, ThreadIpcAssumption
<1>2. t \in S
  BY ThreadIpcAssumption
<1>3. S \in SUBSET Thread
  OBVIOUS
<1> HIDE DEF S
<1>4. UsedShares(t) \subseteq S
  BY <1>1, <1>2, <1>3, UsedSharesLeast DEF QueueInv
<1> QED
  BY <1>4 DEF S

\* A thread that helps is blocked in IPC.
LEMMA HelpersBlocked ==
  ASSUME ShareInv, NEW h \in Thread, Helping(h)
  PROVE  state[h] = "AWAITS_IPC" /\ Sending(h) /\ inState[h] # "WAIT"
BY DEF ShareInv, BlockedForOneReason, Helping, Sending

-----------------------------------------------------------------------------
(* The queues agree after every action, whatever the shares look like *)

\* A state without any call satisfies the invariant of the queues.
LEMMA NoCalls ==
  ASSUME TypeOK, outState = All("READY"), outNode = All(None), inQueue = All(<<>>),
         inState = All("READY"), request = All(None)
  PROVE  QueueInv
<1>1. \A t \in Thread : outNode[t] = None /\ ToSet(inQueue[t]) = {} /\ DOMAIN inQueue[t] = {}
  BY DEF All, ToSet
<1>2. QueuesMatchSenders /\ CallsDescend
  BY <1>1, ThreadIpcAssumption DEF QueuesMatchSenders, CallsDescend, Sending, All
<1>3. ServesHead
  BY DEF ServesHead, All
<1> QED
  BY <1>2, <1>3 DEF QueueInv

\* Initially there is no thread.
LEMMA InitIInv == Init => IInv
<1> SUFFICES ASSUME Init PROVE IInv
  OBVIOUS
<1>1. inQueue \in [Thread -> Seq(Thread)]
  BY DEF Init, All
<1>2. TypeOK
  BY <1>1 DEF Init, All, TypeOK, ThreadState, InState, OutState, Assertion
<1>3. QueueInv
  BY <1>2, NoCalls DEF Init
<1>4. ShareInv
  BY DEF Init, All, ShareInv, BlockedForOneReason, SharesFollowHelping, Sending, Helping, Runs
<1> QED
  BY <1>3, <1>4 DEF IInv, OtherAssertionsHold, Init

\* A failed assertion
LEMMA HaltQueues ==
  ASSUME QueueInv, NEW a \in Assertion, Halt(a)
  PROVE  QueueInv'
<1>1. inQueue' \in [Thread -> Seq(Thread)]
  BY DEF Halt, All
<1>2. TypeOK'
  BY <1>1 DEF Halt, All, QueueInv, TypeOK, ThreadState, InState, OutState
<1>3. \A t \in Thread : /\ outNode'[t] = None /\ ToSet(inQueue'[t]) = {} /\ DOMAIN inQueue'[t] = {}
                        /\ outState'[t] = "READY" /\ inState'[t] = "READY" /\ request'[t] = None
  BY DEF All, ToSet, Halt
<1>4. QueuesMatchSenders' /\ CallsDescend' /\ ServesHead'
  BY <1>3, ThreadIpcAssumption DEF QueuesMatchSenders, CallsDescend, Sending, ServesHead
<1> QED
  BY <1>2, <1>4 DEF QueueInv

\* Steps that leave the IPC nodes alone
LEMMA NodesUntouched ==
  ASSUME QueueInv, TypeOK', UNCHANGED nodeVars,
         \A s \in Thread : state[s] \notin {"NONE", "AWAITS_START"} =>
                              state'[s] \notin {"NONE", "AWAITS_START"}
  PROVE  QueueInv'
<1>1. QueuesMatchSenders'
  BY DEF QueueInv, QueuesMatchSenders, Sending, nodeVars
<1>2. ServesHead' /\ CallsDescend'
  BY DEF QueueInv, ServesHead, CallsDescend, nodeVars
<1> QED
  BY <1>1, <1>2 DEF QueueInv

\* What core and exceptions do to threads without touching their nodes
LEMMA ThreadQueues ==
  ASSUME QueueInv, NEW t \in Thread,
         \/ NewThread(t) \/ \E c \in Cpu : StartThread(t, c)
         \/ PauseThread(t) \/ ResumeThread(t) \/ RestartThread(t) \/ RestartOther(t)
         \/ StopThread(t) \/ StopInactive(t) \/ Die(t)
  PROVE  QueueInv'
<1>1. UsedShares(t) \subseteq Thread
  BY UsedSharesThreads
<1>2. \A holds : Verdict(holds) \in Assertion
  BY DEF Verdict, Assertion
<1>3. CASE NewThread(t)
  <2>1. TypeOK'
    BY <1>3 DEF NewThread, QueueInv, TypeOK, ThreadState, nodeVars
  <2> QED
    BY <1>3, <2>1, NodesUntouched DEF NewThread, QueueInv, TypeOK
<1>4. CASE \E c \in Cpu : StartThread(t, c)
  <2>1. TypeOK'
    BY <1>1, <1>2, <1>4 DEF StartThread, SetShares, BecomeActive, QueueInv, TypeOK, ThreadState, nodeVars
  <2> QED
    BY <1>4, <2>1, NodesUntouched DEF StartThread, QueueInv, TypeOK
<1>5. CASE PauseThread(t)
  <2>1. CASE \E u \in (IF Runs(t) THEN UsedShares(t) ELSE {}) : cpu[u] # PrimaryCpu
    BY <1>5, <2>1, HaltQueues DEF PauseThread, Assertion
  <2>2. CASE ~\E u \in (IF Runs(t) THEN UsedShares(t) ELSE {}) : cpu[u] # PrimaryCpu
    <3>1. TypeOK'
      BY <1>2, <1>5, <2>2 DEF PauseThread, SetShares, QueueInv, TypeOK, nodeVars
    <3> QED
      BY <1>5, <2>2, <3>1, NodesUntouched DEF PauseThread, QueueInv, TypeOK
  <2> QED
    BY <2>1, <2>2
<1>6. CASE ResumeThread(t)
  <2>1. TypeOK'
    BY <1>1, <1>2, <1>6 DEF ResumeThread, SetShares, QueueInv, TypeOK, nodeVars
  <2> QED
    BY <1>6, <2>1, NodesUntouched DEF ResumeThread, QueueInv, TypeOK
<1>7. CASE RestartThread(t)
  <2>1. TypeOK'
    BY <1>1, <1>2, <1>7 DEF RestartThread, SetShares, BecomeActive, QueueInv, TypeOK, ThreadState, nodeVars
  <2> QED
    BY <1>7, <2>1, NodesUntouched DEF RestartThread, QueueInv, TypeOK
<1>8. CASE RestartOther(t) \/ StopInactive(t)
  BY <1>8, HaltQueues DEF RestartOther, StopInactive, Assertion
<1>9. CASE StopThread(t) \/ Die(t)
  <2>1. PICK s \in {"AWAITS_RESTART", "DEAD"} :
          BecomeInactive(t, s) /\ UNCHANGED <<paused, cpu, nodeVars, unmasked>>
    BY <1>9 DEF StopThread, Die
  <2>2. TypeOK'
    BY <1>2, <2>1 DEF BecomeInactive, SetShares, QueueInv, TypeOK, ThreadState, nodeVars
  <2> QED
    BY <2>1, <2>2, NodesUntouched DEF BecomeInactive, QueueInv, TypeOK
<1> QED
  BY <1>3, <1>4, <1>5, <1>6, <1>7, <1>8, <1>9

\* _call_send_request_msg: the caller joins one queue, if its node is ready, and
\* its server receives the request if it waits.
LEMMA SendRequestQueues ==
  ASSUME QueueInv, NEW t \in Thread, NEW d \in Thread, SendRequest(t, d)
  PROVE  QueueInv'
<1> DEFINE sends == outState[t] = "READY" /\ inState[t] # "WAIT"
           wakes == sends /\ inState[d] = "WAIT"
           on    == IF wakes THEN BecomeActive(d) ELSE {}
<1>1. /\ state[d] \notin {"NONE", "AWAITS_START"} /\ Level[d] < Level[t]
      /\ halted' \in Assertion
      /\ inQueue' = [inQueue EXCEPT ![d] = IF sends THEN Enqueued(@, t) ELSE @]
      /\ inState' = [inState EXCEPT ![d] = IF wakes THEN "REPLY" ELSE @]
      /\ request' = [request EXCEPT ![d] = IF wakes THEN t ELSE @]
      /\ outNode' = [outNode EXCEPT ![t] = IF sends THEN d ELSE @]
      /\ outState' = [outState EXCEPT ![t] = IF ~sends THEN @
                                            ELSE IF cpu[d] = cpu[t] THEN "SEND_HELPING" ELSE "SEND"]
      /\ state' = [state EXCEPT ![t] = "AWAITS_IPC", ![d] = IF wakes THEN "ACTIVE" ELSE @]
      /\ ready' \subseteq ready \cup on
      /\ paused' = paused /\ cpu' = cpu /\ unmasked' = unmasked
  BY DEF SendRequest, SetShares, Verdict, Assertion
<1>2. on \subseteq Thread
  BY UsedSharesThreads DEF BecomeActive
<1> HIDE DEF on
<1>3. d # t
  BY <1>1, ThreadIpcAssumption
<1>4. sends => outNode[t] = None /\ t \notin ToSet(inQueue[d])
  <2>1. outNode[t] \in Thread \cup {None}
    BY DEF QueueInv, TypeOK
  <2>2. sends => ~Sending(t)
    BY DEF Sending
  <2>3. sends => \A s \in Thread : outNode[t] # s
    BY <2>2 DEF QueueInv, QueuesMatchSenders
  <2> HIDE DEF sends
  <2> QED
    BY <2>1, <2>3 DEF QueueInv, QueuesMatchSenders
<1>5. Distinct(inQueue[d]) /\ inQueue[d] \in Seq(Thread)
  BY DEF QueueInv, TypeOK, QueuesMatchSenders, Distinct
<1>6. sends => /\ Enqueued(inQueue[d], t) \in Seq(Thread)
               /\ Distinct(Enqueued(inQueue[d], t))
               /\ \A u : u \in ToSet(Enqueued(inQueue[d], t)) <=> u \in ToSet(inQueue[d]) \/ u = t
               /\ Enqueued(inQueue[d], t) # <<>>
               /\ Head(Enqueued(inQueue[d], t)) = IF inQueue[d] = <<>> THEN t ELSE Head(inQueue[d])
  BY <1>4, <1>5, EnqueuedElements
<1>7. TypeOK'
  BY <1>1, <1>2, <1>6 DEF QueueInv, TypeOK, ThreadState, InState, OutState
<1>8. QueuesMatchSenders'
  <2> SUFFICES ASSUME NEW u \in Thread, NEW s \in Thread
               PROVE  /\ u \in ToSet(inQueue'[s]) <=> outNode'[u] = s
                      /\ outNode'[u] = s => Sending(u)' /\ state'[s] \notin {"NONE", "AWAITS_START"}
                      /\ Sending(u)' => outNode'[u] # None
                      /\ \A i, j \in DOMAIN inQueue'[s] : inQueue'[s][i] = inQueue'[s][j] => i = j
    BY DEF QueuesMatchSenders
  <2>1. u \in ToSet(inQueue'[s]) <=> outNode'[u] = s
    <3>1. outNode'[u] = IF u = t /\ sends THEN d ELSE outNode[u]
      BY <1>1 DEF QueueInv, TypeOK
    <3>2. u \in ToSet(inQueue[s]) <=> outNode[u] = s
      BY DEF QueueInv, QueuesMatchSenders
    <3>3. u \in ToSet(inQueue'[s]) <=> u \in ToSet(inQueue[s]) \/ (u = t /\ s = d /\ sends)
      BY <1>1, <1>6 DEF QueueInv, TypeOK
    <3> QED
      BY <3>1, <3>2, <3>3, <1>4, ThreadIpcAssumption
  <2>2. outNode'[u] = s => Sending(u)' /\ state'[s] \notin {"NONE", "AWAITS_START"}
    <3>1. CASE u = t /\ sends
      BY <3>1, <1>1, <1>3 DEF QueueInv, TypeOK, Sending
    <3>2. CASE ~(u = t /\ sends)
      BY <3>2, <1>1, <1>3 DEF QueueInv, TypeOK, QueuesMatchSenders, Sending
    <3> QED
      BY <3>1, <3>2
  <2>3. Sending(u)' => outNode'[u] # None
    BY <1>1, ThreadIpcAssumption DEF QueueInv, TypeOK, QueuesMatchSenders, Sending
  <2>4. \A i, j \in DOMAIN inQueue'[s] : inQueue'[s][i] = inQueue'[s][j] => i = j
    BY <1>1, <1>6 DEF QueueInv, TypeOK, QueuesMatchSenders, Distinct
  <2> QED
    BY <2>1, <2>2, <2>3, <2>4
<1>9. ServesHead'
  BY <1>1, <1>6 DEF QueueInv, TypeOK, ServesHead
<1>10. CallsDescend'
  BY <1>1 DEF QueueInv, TypeOK, CallsDescend
<1> QED
  BY <1>7, <1>8, <1>9, <1>10 DEF QueueInv

\* _call_await_request_msg: receive from the first client in the queue, wait
\* without any client, or die if a reply is due.
LEMMA AwaitRequestQueues ==
  ASSUME QueueInv, NEW t \in Thread, AwaitRequest(t)
  PROVE  QueueInv'
<1>1. \A holds : Verdict(holds) \in Assertion
  BY DEF Verdict, Assertion
<1>2. CASE inState[t] # "READY"
  <2>1. BecomeInactive(t, "DEAD") /\ UNCHANGED <<paused, cpu, nodeVars, unmasked>>
    BY <1>2 DEF AwaitRequest, nodeVars
  <2>2. TypeOK'
    BY <1>1, <2>1 DEF BecomeInactive, SetShares, QueueInv, TypeOK, ThreadState, nodeVars
  <2> QED
    BY <2>1, <2>2, NodesUntouched DEF BecomeInactive, QueueInv, TypeOK
<1>3. CASE inState[t] = "READY"
  <2> DEFINE waits == inQueue[t] = <<>>
  <2>1. /\ inState' = [inState EXCEPT ![t] = IF waits THEN "WAIT" ELSE "REPLY"]
        /\ request' = [request EXCEPT ![t] = IF waits THEN None ELSE Head(inQueue[t])]
        /\ state' = [state EXCEPT ![t] = IF waits THEN "AWAITS_IPC" ELSE @]
        /\ halted' \in Assertion
        /\ ready' \subseteq ready
        /\ paused' = paused /\ cpu' = cpu /\ inQueue' = inQueue
        /\ outState' = outState /\ outNode' = outNode /\ unmasked' = unmasked
    BY <1>1, <1>3 DEF AwaitRequest, Waits, WaitState, Received, SetShares
  <2>2. inQueue[t] \in Seq(Thread) /\ (~waits => Head(inQueue[t]) \in Thread)
    BY DEF QueueInv, TypeOK
  <2>3. TypeOK'
    BY <2>1, <2>2 DEF QueueInv, TypeOK, ThreadState, InState
  <2>4. QueuesMatchSenders' /\ CallsDescend'
    BY <2>1, ThreadIpcAssumption DEF QueueInv, TypeOK, QueuesMatchSenders, CallsDescend, Sending
  <2>5. ServesHead'
    BY <2>1 DEF QueueInv, TypeOK, ServesHead
  <2> QED
    BY <2>3, <2>4, <2>5 DEF QueueInv
<1> QED
  BY <1>2, <1>3

\* _call_send_reply_msg: the client at the head of the queue, the one whose
\* request was received, continues; the server receives the next request.
LEMMA SendReplyQueues ==
  ASSUME QueueInv, NEW t \in Thread, NEW await \in BOOLEAN, SendReply(t, await)
  PROVE  QueueInv'
<1> DEFINE replies == inState[t] = "REPLY"
           c       == Head(inQueue[t])
           rest    == IF replies THEN Tail(inQueue[t]) ELSE inQueue[t]
           on      == IF replies THEN EndCall(c) ELSE {}
           blocks  == await /\ rest = <<>>
           Ends(u) == replies /\ u = c
<1>1. /\ halted' \in Assertion /\ unmasked' \in BOOLEAN
      /\ inState' = [inState EXCEPT ![t] =
                       IF await THEN IF rest = <<>> THEN "WAIT" ELSE "REPLY" ELSE "READY"]
      /\ request' = [request EXCEPT ![t] =
                       IF await THEN IF rest = <<>> THEN None ELSE Head(rest) ELSE None]
      /\ inQueue' = [inQueue EXCEPT ![t] = rest]
      /\ outNode' = [u \in Thread |-> IF Ends(u) THEN None ELSE outNode[u]]
      /\ outState' = [u \in Thread |-> IF Ends(u) THEN "READY" ELSE outState[u]]
      /\ state' = [u \in Thread |-> IF Ends(u) THEN "ACTIVE"
                                   ELSE IF blocks /\ u = t THEN "AWAITS_IPC" ELSE state[u]]
      /\ ready' \subseteq ready \cup on
      /\ paused' = paused /\ cpu' = cpu
  BY DEF SendReply, SetShares, Waits, WaitState, Received, Verdict, Assertion
<1>2. inQueue[t] \in Seq(Thread) /\ Distinct(inQueue[t])
  BY DEF QueueInv, TypeOK, QueuesMatchSenders, Distinct
<1>3. /\ rest \in Seq(Thread) /\ Distinct(rest)
      /\ \A u : u \in ToSet(rest) <=> u \in ToSet(inQueue[t]) /\ ~Ends(u)
      /\ replies => c \in Thread /\ c \in ToSet(inQueue[t])
      /\ rest # <<>> => Head(rest) \in Thread
  <2>1. CASE replies
    BY <2>1, <1>2, TailElements DEF QueueInv, ServesHead
  <2>2. CASE ~replies
    BY <2>2, <1>2
  <2> QED
    BY <2>1, <2>2
<1>4. replies => outNode[c] = t
  BY <1>3 DEF QueueInv, QueuesMatchSenders
<1> HIDE DEF rest, c, replies
<1>5. on \subseteq Thread
  BY <1>3, UsedSharesThreads DEF EndCall
<1> HIDE DEF on
<1>6. TypeOK'
  BY <1>1, <1>3, <1>5 DEF QueueInv, TypeOK, ThreadState, InState, OutState
<1>7. QueuesMatchSenders'
  <2> SUFFICES ASSUME NEW u \in Thread, NEW s \in Thread
               PROVE  /\ u \in ToSet(inQueue'[s]) <=> outNode'[u] = s
                      /\ outNode'[u] = s => Sending(u)' /\ state'[s] \notin {"NONE", "AWAITS_START"}
                      /\ Sending(u)' => outNode'[u] # None
                      /\ \A i, j \in DOMAIN inQueue'[s] : inQueue'[s][i] = inQueue'[s][j] => i = j
    BY DEF QueuesMatchSenders
  <2>1. u \in ToSet(inQueue'[s]) <=> outNode'[u] = s
    <3>1. u \in ToSet(inQueue[s]) <=> outNode[u] = s
      BY DEF QueueInv, QueuesMatchSenders
    <3>2. u \in ToSet(inQueue'[s]) <=> u \in ToSet(inQueue[s]) /\ ~(Ends(u) /\ s = t)
      BY <1>1, <1>3 DEF QueueInv, TypeOK
    <3> QED
      BY <3>1, <3>2, <1>1, <1>4, ThreadIpcAssumption
  <2>2. outNode'[u] = s => Sending(u)' /\ state'[s] \notin {"NONE", "AWAITS_START"}
    BY <1>1, ThreadIpcAssumption DEF QueueInv, QueuesMatchSenders, Sending
  <2>3. Sending(u)' => outNode'[u] # None
    BY <1>1 DEF QueueInv, QueuesMatchSenders, Sending
  <2>4. \A i, j \in DOMAIN inQueue'[s] : inQueue'[s][i] = inQueue'[s][j] => i = j
    BY <1>1, <1>3 DEF QueueInv, TypeOK, QueuesMatchSenders, Distinct
  <2> QED
    BY <2>1, <2>2, <2>3, <2>4
<1>8. ServesHead'
  BY <1>1, <1>3 DEF QueueInv, TypeOK, ServesHead
<1>9. CallsDescend'
  BY <1>1, ThreadIpcAssumption DEF QueueInv, CallsDescend
<1> QED
  BY <1>6, <1>7, <1>8, <1>9 DEF QueueInv

\* The clients of a thread are those that called it, and all of them are sending.
LEMMA ClientsCalled ==
  ASSUME QueueInv, NEW t \in Thread
  PROVE  /\ \A c : c \in ToSet(inQueue[t]) <=> c \in Thread /\ outNode[c] = t
         /\ \A c \in ToSet(inQueue[t]) : Sending(c) /\ c # t
         /\ {c \in ToSet(inQueue[t]) : Sending(c)} = ToSet(inQueue[t])
<1>1. \A c : c \in ToSet(inQueue[t]) <=> c \in Thread /\ outNode[c] = t
  <2>1. ToSet(inQueue[t]) \subseteq Thread
    BY DEF ToSet, QueueInv, TypeOK
  <2> QED
    BY <2>1 DEF QueueInv, QueuesMatchSenders
<1>2. \A c \in ToSet(inQueue[t]) : Sending(c) /\ c # t
  BY <1>1, ThreadIpcAssumption DEF QueueInv, QueuesMatchSenders, CallsDescend
<1> QED
  BY <1>1, <1>2

\* _call_delete_thread: the clients of the thread continue, its own request is
\* withdrawn from the queue of the server it called.
LEMMA DeleteThreadQueues ==
  ASSUME QueueInv, NEW t \in Thread, DeleteThread(t)
  PROVE  QueueInv'
<1> DEFINE clients == ToSet(inQueue[t])
           on      == UNION {EndCall(c) : c \in clients}
<1>1. /\ \A c : c \in clients <=> c \in Thread /\ outNode[c] = t
      /\ {c \in clients : Sending(c)} = clients
  BY ClientsCalled
<1>2. /\ halted' \in Assertion /\ unmasked' \in BOOLEAN
      /\ inState' = [s \in Thread |-> IF s = t THEN "READY"
                                     ELSE IF Withdrawn(t, s) THEN "REPLY_NO_SENDER"
                                     ELSE inState[s]]
      /\ request' = [s \in Thread |-> IF s = t \/ Withdrawn(t, s) THEN None ELSE request[s]]
      /\ inQueue' = [s \in Thread |-> IF s = t THEN <<>>
                                     ELSE IF s = outNode[t] THEN Without(inQueue[s], t)
                                     ELSE inQueue[s]]
      /\ outNode' = [c \in Thread |-> IF c = t \/ c \in clients THEN None ELSE outNode[c]]
      /\ outState' = [c \in Thread |-> IF c = t \/ c \in clients THEN "READY" ELSE outState[c]]
      /\ state' = [c \in Thread |-> IF c = t THEN "NONE"
                                   ELSE IF c \in clients THEN "ACTIVE" ELSE state[c]]
      /\ ready' \subseteq ready \cup on
      /\ paused' = paused \ {t}
      /\ cpu' = [cpu EXCEPT ![t] = None]
  BY <1>1 DEF DeleteThread, FreeInState, SetShares, Verdict, Assertion
<1> HIDE DEF clients
<1>3. on \subseteq Thread
  BY <1>1, UsedSharesThreads DEF EndCall
<1> HIDE DEF on
<1>4. ASSUME NEW s \in Thread
      PROVE  /\ inQueue'[s] \in Seq(Thread) /\ Distinct(inQueue'[s])
             /\ \A u : u \in ToSet(inQueue'[s]) <=> u \in ToSet(inQueue[s]) /\ s # t /\ u # t
             /\ s # t /\ inQueue[s] # <<>> /\ Head(inQueue[s]) # t =>
                   inQueue'[s] # <<>> /\ Head(inQueue'[s]) = Head(inQueue[s])
  <2>1. inQueue[s] \in Seq(Thread) /\ Distinct(inQueue[s])
    BY DEF QueueInv, TypeOK, QueuesMatchSenders, Distinct
  <2>2. CASE s = t
    BY <2>2, <1>2 DEF ToSet, Distinct
  <2>3. CASE s # t /\ s = outNode[t]
    BY <2>1, <2>3, <1>2, WithoutElements
  <2>4. CASE s # t /\ s # outNode[t]
    BY <2>1, <2>4, <1>2 DEF QueueInv, QueuesMatchSenders
  <2> QED
    BY <2>2, <2>3, <2>4
<1>5. TypeOK'
  <2>1. inQueue' \in [Thread -> Seq(Thread)]
    BY <1>2, <1>4
  <2> QED
    BY <2>1, <1>2, <1>3 DEF QueueInv, TypeOK, ThreadState, InState, OutState
<1>6. QueuesMatchSenders'
  <2> SUFFICES ASSUME NEW u \in Thread, NEW s \in Thread
               PROVE  /\ u \in ToSet(inQueue'[s]) <=> outNode'[u] = s
                      /\ outNode'[u] = s => Sending(u)' /\ state'[s] \notin {"NONE", "AWAITS_START"}
                      /\ Sending(u)' => outNode'[u] # None
                      /\ \A i, j \in DOMAIN inQueue'[s] : inQueue'[s][i] = inQueue'[s][j] => i = j
    BY DEF QueuesMatchSenders
  <2>1. u \in ToSet(inQueue'[s]) <=> outNode'[u] = s
    <3>1. u \in ToSet(inQueue[s]) <=> outNode[u] = s
      BY DEF QueueInv, QueuesMatchSenders
    <3> QED
      BY <3>1, <1>1, <1>2, <1>4, ThreadIpcAssumption
  <2>2. outNode'[u] = s => Sending(u)' /\ state'[s] \notin {"NONE", "AWAITS_START"}
    BY <1>1, <1>2, ThreadIpcAssumption DEF QueueInv, QueuesMatchSenders, Sending
  <2>3. Sending(u)' => outNode'[u] # None
    BY <1>2 DEF QueueInv, QueuesMatchSenders, Sending
  <2>4. \A i, j \in DOMAIN inQueue'[s] : inQueue'[s][i] = inQueue'[s][j] => i = j
    BY <1>4 DEF Distinct
  <2> QED
    BY <2>1, <2>2, <2>3, <2>4
<1>7. ServesHead'
  <2> SUFFICES ASSUME NEW s \in Thread
               PROVE  /\ inState'[s] = "REPLY" => inQueue'[s] # <<>> /\ request'[s] = Head(inQueue'[s])
                      /\ inState'[s] # "REPLY" => request'[s] = None
                      /\ inState'[s] = "WAIT" => inQueue'[s] = <<>>
    BY DEF ServesHead
  <2>1. CASE s = t \/ Withdrawn(t, s)
    BY <2>1, <1>2
  <2>2. CASE s # t /\ ~Withdrawn(t, s)
    <3>1. inState'[s] = inState[s] /\ request'[s] = request[s]
      BY <2>2, <1>2
    <3>2. inState[s] = "REPLY" => inQueue[s] # <<>> /\ request[s] = Head(inQueue[s])
      BY DEF QueueInv, ServesHead
    <3>3. inState[s] = "REPLY" /\ outNode[t] = s => Head(inQueue[s]) # t
      BY <2>2 DEF Withdrawn
    <3>4. outNode[t] # s => inQueue'[s] = inQueue[s]
      BY <2>2, <1>2
    <3>5. inState[s] = "WAIT" => outNode[t] # s
      BY DEF QueueInv, ServesHead, QueuesMatchSenders, ToSet
    <3> QED
      BY <2>2, <3>1, <3>2, <3>3, <3>4, <3>5, <1>4 DEF QueueInv, ServesHead
  <2> QED
    BY <2>1, <2>2
<1>8. CallsDescend'
  BY <1>2, ThreadIpcAssumption DEF QueueInv, CallsDescend
<1> QED
  BY <1>5, <1>6, <1>7, <1>8 DEF QueueInv

-----------------------------------------------------------------------------
(* Threads, nodes and shares agree after every action that neither fails an *)
(* assertion nor ends the call of a paused thread.                           *)

\* call_id_new_thread
LEMMA NewThreadShares ==
  ASSUME QueueInv, ShareInv, NEW t \in Thread, NewThread(t)
  PROVE  halted' = "none" /\ ShareInv'
<1> USE DEF NewThread, nodeVars
<1>1. BlockedForOneReason'
  BY DEF QueueInv, ShareInv, TypeOK, BlockedForOneReason, Sending
<1>2. SharesFollowHelping'
  BY DEF QueueInv, ShareInv, TypeOK, SharesFollowHelping, Helping, Runs
<1> QED
  BY <1>1, <1>2 DEF ShareInv

\* A helper and the thread it helps keep their shares alike when all used
\* shares of a thread that does not help become ready or unready.
LEMMA SharesAlike ==
  ASSUME QueueInv, ShareInv, NEW t \in Thread, ~Helping(t),
         NEW on, NEW off, on \in {{}, UsedShares(t)}, off \in {{}, UsedShares(t)},
         SetShares(on, off), NEW h \in Thread, Helping(h)
  PROVE  h \in ready' <=> outNode[h] \in ready'
BY HelperUsedWith DEF ShareInv, SharesFollowHelping, SetShares

\* _become_active, _become_inactive and pause: a thread that is not blocked in
\* IPC gains or loses all of its shares.
LEMMA ThreadShares ==
  ASSUME QueueInv, ShareInv, NEW t \in Thread, ~Helping(t), UNCHANGED nodeVars,
         NEW on, NEW off, on \in {{}, UsedShares(t)}, off \in {{}, UsedShares(t)},
         SetShares(on, off),
         \A u \in Thread : u # t => state'[u] = state[u] /\ (u \in paused' <=> u \in paused),
         \A h \in Thread : Helping(h) => cpu'[h] = cpu'[outNode[h]],
         state'[t] = "AWAITS_IPC" <=> state[t] = "AWAITS_IPC",
         t \in ready' <=> Runs(t)'
  PROVE  ShareInv'
<1>1. BlockedForOneReason'
  BY DEF ShareInv, BlockedForOneReason, Sending, nodeVars
<1>2. \A h \in Thread : Helping(h) => (h \in ready' <=> outNode[h] \in ready')
  BY SharesAlike
<1>3. \A u \in UsedShares(t) : u \in Thread /\ (u = t \/ Helping(u))
  BY UsedSharesAlike DEF QueueInv, ShareInv
<1>4. \A h \in Thread : Helping(h)' <=> Helping(h)
  BY DEF Helping, nodeVars
<1>5. ASSUME NEW u \in Thread
      PROVE  /\ Runs(u)' => u \in ready'
             /\ u \in ready' => Runs(u)' \/ Helping(u)
  <2>1. CASE u = t
    BY <2>1
  <2>2. CASE u # t
    <3>1. Runs(u)' <=> Runs(u)
      BY <2>2 DEF Runs
    <3>2. Helping(u) => ~Runs(u)
      BY HelpersBlocked DEF Runs
    <3> QED
      BY <2>2, <3>1, <3>2, <1>3 DEF ShareInv, SharesFollowHelping, SetShares
  <2> QED
    BY <2>1, <2>2
<1>6. SharesFollowHelping'
  <2> SUFFICES ASSUME NEW u \in Thread
               PROVE  /\ Runs(u)' => u \in ready'
                      /\ Helping(u)' => (u \in ready' <=> outNode'[u] \in ready') /\ cpu'[u] = cpu'[outNode'[u]]
                      /\ u \in ready' => Runs(u)' \/ Helping(u)'
    BY DEF SharesFollowHelping
  <2>1. outNode' = outNode
    BY DEF nodeVars
  <2> QED
    BY <2>1, <1>2, <1>4, <1>5
<1> QED
  BY <1>1, <1>6 DEF ShareInv

\* What the shares of a thread that awaits no reply look like
LEMMA OwnShares ==
  ASSUME QueueInv, ShareInv, NEW t \in Thread, ~Helping(t)
  PROVE  /\ t \in ready <=> Runs(t)
         /\ ~Runs(t) => CanActivate(UsedShares(t))
         /\ Runs(t) => CanDeactivate(UsedShares(t), cpu[t])
         /\ t \in UsedShares(t)
<1>1. t \in ready <=> Runs(t)
  BY DEF ShareInv, SharesFollowHelping
<1> QED
  BY <1>1, UsedSharesAlike, UsedSharesSelf DEF QueueInv, ShareInv, CanActivate, CanDeactivate

\* _call_start_thread: nobody has called the thread yet, so that its own share
\* is the only one and its new CPU concerns no helper.
LEMMA StartThreadShares ==
  ASSUME QueueInv, ShareInv, NEW t \in Thread, NEW c \in Cpu, StartThread(t, c)
  PROVE  halted' = "none" /\ ShareInv'
<1> USE DEF StartThread, nodeVars
<1>1. ~Helping(t) /\ ~Runs(t)
  BY HelpersBlocked DEF Runs
<1>2. halted' = "none"
  BY <1>1, OwnShares DEF BecomeActive, CanActivate, Verdict
<1>3. ASSUME NEW h \in Thread, Helping(h)
      PROVE  cpu'[h] = cpu'[outNode[h]]
  <2>1. h # t /\ outNode[h] \in Thread /\ outNode[h] # t
    BY <1>1, <1>3 DEF QueueInv, TypeOK, QueuesMatchSenders, Helping
  <2> QED
    BY <2>1, <1>3 DEF QueueInv, ShareInv, TypeOK, SharesFollowHelping
<1>4. t \in ready' <=> Runs(t)'
  BY <1>1, OwnShares DEF QueueInv, TypeOK, BecomeActive, SetShares, Runs
<1>5. ShareInv'
  <2>1. BecomeActive(t) \in {{}, UsedShares(t)} /\ SetShares(BecomeActive(t), {})
    BY DEF BecomeActive
  <2>2. \A u \in Thread : u # t => state'[u] = state[u]
    BY DEF QueueInv, TypeOK
  <2>3. state'[t] = "ACTIVE" /\ state[t] = "AWAITS_START"
    BY DEF QueueInv, TypeOK
  <2> HIDE DEF StartThread
  <2>4. UNCHANGED nodeVars /\ paused' = paused
    BY DEF StartThread
  <2> QED
    BY <1>1, <1>3, <1>4, <2>1, <2>2, <2>3, <2>4, ThreadShares
<1> QED
  BY <1>2, <1>5

\* _call_pause_thread: an active thread loses its shares, one that is blocked
\* keeps them as they are.
LEMMA PauseThreadShares ==
  ASSUME QueueInv, ShareInv, NEW t \in Thread, PauseThread(t)
  PROVE  halted' # "other" /\ (halted' = "none" => ShareInv')
<1> DEFINE off == IF Runs(t) THEN UsedShares(t) ELSE {}
<1>1. CASE \E u \in off : cpu[u] # PrimaryCpu
  BY <1>1 DEF PauseThread, Halt
<1>2. CASE ~\E u \in off : cpu[u] # PrimaryCpu
  <2>1. /\ halted' = Verdict(CanDeactivate(off, PrimaryCpu))
        /\ paused' = paused \cup {t} /\ SetShares({}, off)
        /\ state' = state /\ cpu' = cpu /\ UNCHANGED nodeVars
    BY <1>2 DEF PauseThread
  <2>2. Runs(t) => ~Helping(t)
    BY HelpersBlocked DEF Runs
  <2>3. halted' = "none"
    BY <1>2, <2>1, <2>2, OwnShares DEF CanDeactivate, Verdict
  <2>4. CASE Helping(t)
    <3>1. ready' = ready
      BY <2>1, <2>2, <2>4 DEF SetShares
    <3>2. BlockedForOneReason'
      BY <2>1 DEF ShareInv, BlockedForOneReason, Sending, nodeVars
    <3>3. SharesFollowHelping'
      BY <2>1, <2>2, <2>4, <3>1 DEF ShareInv, SharesFollowHelping, Helping, Runs, nodeVars
    <3> QED
      BY <2>3, <3>2, <3>3 DEF ShareInv
  <2>5. CASE ~Helping(t)
    <3>1. t \notin ready' /\ ~Runs(t)'
      BY <2>1, <2>5, OwnShares DEF SetShares, Runs
    <3>2. off \in {{}, UsedShares(t)}
      OBVIOUS
    <3>3. \A h \in Thread : Helping(h) => cpu[h] = cpu[outNode[h]]
      BY DEF ShareInv, SharesFollowHelping
    <3>4. \A u \in Thread : u # t => state'[u] = state[u] /\ (u \in paused' <=> u \in paused)
      BY <2>1
    <3> HIDE DEF off
    <3>5. ShareInv'
      BY <2>1, <2>5, <3>1, <3>2, <3>3, <3>4, ThreadShares
    <3> QED
      BY <2>3, <3>5
  <2> QED
    BY <2>4, <2>5
<1> QED
  BY <1>1, <1>2

\* _call_resume_thread
LEMMA ResumeThreadShares ==
  ASSUME QueueInv, ShareInv, NEW t \in Thread, ResumeThread(t)
  PROVE  halted' = "none" /\ ShareInv'
<1> DEFINE on == IF state[t] = "ACTIVE" THEN UsedShares(t) ELSE {}
<1>1. /\ halted' = Verdict(CanActivate(on))
      /\ t \in paused /\ paused' = paused \ {t} /\ SetShares(on, {})
      /\ state' = state /\ cpu' = cpu /\ UNCHANGED nodeVars
  BY DEF ResumeThread
<1>2. state[t] = "ACTIVE" => ~Helping(t)
  BY HelpersBlocked
<1>3. ~Runs(t)
  BY <1>1 DEF Runs
<1>4. halted' = "none"
  BY <1>1, <1>2, <1>3, OwnShares DEF CanActivate, Verdict
<1>5. CASE Helping(t)
  <2>1. ready' = ready
    BY <1>1, <1>2, <1>5 DEF SetShares
  <2>2. BlockedForOneReason'
    BY <1>1 DEF ShareInv, BlockedForOneReason, Sending, nodeVars
  <2>3. SharesFollowHelping'
    BY <1>1, <1>2, <1>5, <2>1 DEF ShareInv, SharesFollowHelping, Helping, Runs, nodeVars
  <2> QED
    BY <1>4, <2>2, <2>3 DEF ShareInv
<1>6. CASE ~Helping(t)
  <2>1. t \in ready' <=> Runs(t)'
    BY <1>1, <1>3, <1>6, OwnShares DEF SetShares, Runs
  <2>2. on \in {{}, UsedShares(t)}
    OBVIOUS
  <2>3. \A h \in Thread : Helping(h) => cpu[h] = cpu[outNode[h]]
    BY DEF ShareInv, SharesFollowHelping
  <2>4. \A u \in Thread : u # t => state'[u] = state[u] /\ (u \in paused' <=> u \in paused)
    BY <1>1
  <2> HIDE DEF on
  <2>5. ShareInv'
    BY <1>1, <1>6, <2>1, <2>2, <2>3, <2>4, ThreadShares
  <2> QED
    BY <1>4, <2>5
<1> QED
  BY <1>5, <1>6

\* Thread::_become_inactive of the executing thread to a state in which it
\* awaits no IPC: _call_stop_thread, exceptions, _die.
LEMMA BecomeInactiveShares ==
  ASSUME QueueInv, ShareInv, NEW t \in Thread, Scheduled(t), NEW s \in {"AWAITS_RESTART", "DEAD"},
         BecomeInactive(t, s), UNCHANGED <<paused, cpu, nodeVars>>
  PROVE  halted' = "none" /\ ShareInv'
<1>1. ~Helping(t) /\ Runs(t)
  BY ScheduledFacts DEF Runs
<1>2. /\ halted' = Verdict(CanDeactivate(UsedShares(t), cpu[t]))
      /\ state' = [state EXCEPT ![t] = s] /\ SetShares({}, UsedShares(t))
  BY <1>1 DEF BecomeInactive
<1>3. halted' = "none"
  BY <1>1, <1>2, OwnShares DEF Verdict
<1>4. /\ \A u \in Thread : u # t => state'[u] = state[u]
      /\ state'[t] = s /\ state[t] = "ACTIVE"
  BY <1>1, <1>2 DEF QueueInv, TypeOK, Runs
<1>5. t \notin ready' /\ ~Runs(t)'
  BY <1>1, <1>2, <1>4, OwnShares DEF SetShares, Runs
<1>6. \A h \in Thread : Helping(h) => cpu[h] = cpu[outNode[h]]
  BY DEF ShareInv, SharesFollowHelping
<1>7. ShareInv'
  BY <1>1, <1>2, <1>4, <1>5, <1>6, ThreadShares
<1> QED
  BY <1>3, <1>7

\* Thread::_restart: the helpers of the thread become ready again with it.
LEMMA RestartThreadShares ==
  ASSUME QueueInv, ShareInv, NEW t \in Thread, RestartThread(t)
  PROVE  halted' = "none" /\ ShareInv'
<1>1. ~Helping(t) /\ ~Runs(t) /\ state[t] = "AWAITS_RESTART"
  BY HelpersBlocked DEF Runs, RestartThread
<1>2. /\ halted' = Verdict(CanActivate(BecomeActive(t)))
      /\ state' = [state EXCEPT ![t] = "ACTIVE"] /\ SetShares(BecomeActive(t), {})
      /\ paused' = paused /\ cpu' = cpu /\ UNCHANGED nodeVars
  BY DEF RestartThread
<1>3. halted' = "none"
  BY <1>1, <1>2, OwnShares DEF BecomeActive, CanActivate, Verdict
<1>4. /\ \A u \in Thread : u # t => state'[u] = state[u]
      /\ state'[t] = "ACTIVE"
  BY <1>2 DEF QueueInv, TypeOK
<1>5. t \in ready' <=> Runs(t)'
  BY <1>1, <1>2, <1>4, OwnShares DEF BecomeActive, SetShares, Runs
<1>6. \A h \in Thread : Helping(h) => cpu[h] = cpu[outNode[h]]
  BY DEF ShareInv, SharesFollowHelping
<1>7. BecomeActive(t) \in {{}, UsedShares(t)}
  BY DEF BecomeActive
<1>8. ShareInv'
  BY <1>1, <1>2, <1>4, <1>5, <1>6, <1>7, ThreadShares
<1> QED
  BY <1>3, <1>8

\* _call_send_request_msg: the caller's shares stay ready if and only if it
\* helps a server whose share is.
LEMMA SendRequestShares ==
  ASSUME QueueInv, ShareInv, NEW t \in Thread, NEW d \in Thread, SendRequest(t, d)
  PROVE  halted' = "none" /\ ShareInv'
<1> DEFINE help  == cpu[d] = cpu[t]
           wakes == inState[d] = "WAIT"
           on    == IF wakes THEN BecomeActive(d) ELSE {}
           off   == Block(t, d, on)
<1>1. /\ t \in ready /\ state[t] = "ACTIVE" /\ t \notin paused
      /\ ~Sending(t) /\ outState[t] = "READY" /\ outNode[t] = None
      /\ inState[t] # "WAIT" /\ ~Helping(t)
      /\ CanDeactivate(UsedShares(t), cpu[t])
  BY ScheduledFacts DEF SendRequest
<1>2. /\ state[d] \notin {"NONE", "AWAITS_START"} /\ Level[d] < Level[t]
      /\ halted' = Verdict(/\ wakes => state[d] = "AWAITS_IPC"
                           /\ CanActivate(on)
                           /\ CanDeactivate(off, cpu[t]))
      /\ inState' = [inState EXCEPT ![d] = IF wakes THEN "REPLY" ELSE @]
      /\ outNode' = [outNode EXCEPT ![t] = d]
      /\ outState' = [outState EXCEPT ![t] = IF help THEN "SEND_HELPING" ELSE "SEND"]
      /\ state' = [state EXCEPT ![t] = "AWAITS_IPC", ![d] = IF wakes THEN "ACTIVE" ELSE @]
      /\ ready' = (ready \cup on) \ off
      /\ paused' = paused /\ cpu' = cpu
  BY <1>1 DEF SendRequest, SetShares
<1>3. d # t
  BY <1>2, ThreadIpcAssumption
<1>4. wakes => /\ state[d] = "AWAITS_IPC" /\ inQueue[d] = <<>> /\ ~Sending(d)
               /\ ~Helping(d) /\ d \notin ready
  BY DEF QueueInv, ServesHead, ShareInv, BlockedForOneReason, SharesFollowHelping, Sending, Helping, Runs
<1>5. on = IF wakes /\ d \notin paused THEN {d} ELSE {}
  <2>1. wakes => UsedShares(d) \subseteq {d}
    <3> SUFFICES ASSUME wakes PROVE UsedShares(d) \subseteq {d}
      OBVIOUS
    <3>1. Helpers(d) = {}
      BY <1>4 DEF Helpers, ToSet
    <3>2. {d} \in SUBSET Thread /\ d \in {d} /\ \A v \in {d} : Helpers(v) \subseteq {d}
      BY <3>1
    <3> QED
      BY <3>2, UsedSharesLeast DEF QueueInv
  <2> QED
    BY <2>1, UsedSharesSelf DEF BecomeActive
<1>6. off = IF help /\ (d \in ready \/ d \in on) THEN {} ELSE UsedShares(t)
  BY DEF Block
<1> HIDE DEF on, off
<1>7. \A u \in UsedShares(t) : u \in Thread /\ u # d /\ (u = t \/ Helping(u))
  BY <1>2, UsedSharesAlike, UsedSharesAbove, ThreadIpcAssumption DEF QueueInv, ShareInv
<1>8. halted' = "none"
  BY <1>1, <1>2, <1>4, <1>5, <1>6 DEF Verdict, CanActivate, CanDeactivate
<1>9. BlockedForOneReason'
  BY <1>1, <1>2, <1>3, <1>4 DEF QueueInv, TypeOK, ShareInv, BlockedForOneReason, Sending
<1>10. SharesFollowHelping'
  <2> SUFFICES ASSUME NEW u \in Thread
               PROVE  /\ Runs(u)' => u \in ready'
                      /\ Helping(u)' => (u \in ready' <=> outNode'[u] \in ready') /\ cpu[u] = cpu[outNode'[u]]
                      /\ u \in ready' => Runs(u)' \/ Helping(u)'
    BY <1>2 DEF SharesFollowHelping
  <2>1. Helping(u) => state[u] = "AWAITS_IPC"
    BY HelpersBlocked
  <2>2. CASE u = t
    BY <2>2, <1>1, <1>2, <1>3, <1>5, <1>6, <1>7, UsedSharesSelf, ThreadIpcAssumption
       DEF QueueInv, TypeOK, Helping, Runs
  <2>3. CASE u # t
    <3>1. Helping(u)' <=> Helping(u)
      BY <2>3, <1>2 DEF QueueInv, TypeOK, Helping
    <3>2. outNode'[u] = outNode[u]
      BY <2>3, <1>2 DEF QueueInv, TypeOK
    <3>3. Helping(u) => u # d \/ ~wakes
      BY <1>4
    <3>4. Helping(u) => outNode[u] # d \/ ~wakes
      BY <1>4 DEF QueueInv, QueuesMatchSenders, ToSet
    <3>5. Helping(u) => (u \in UsedShares(t) <=> outNode[u] \in UsedShares(t))
      BY <2>3, HelperUsedWith
    <3>6. Helping(u) => (u \in ready' <=> outNode[u] \in ready') /\ cpu[u] = cpu[outNode[u]]
      BY <3>3, <3>4, <3>5, <1>2, <1>5, <1>6 DEF ShareInv, SharesFollowHelping
    <3>7. Runs(u)' => u \in ready'
      BY <2>1, <2>3, <1>2, <1>5, <1>6, <1>7 DEF QueueInv, TypeOK, ShareInv, SharesFollowHelping, Runs
    <3>8. u \in ready' => Runs(u)' \/ Helping(u)
      BY <2>3, <1>2, <1>4, <1>5 DEF QueueInv, TypeOK, ShareInv, SharesFollowHelping, Runs
    <3> QED
      BY <3>1, <3>2, <3>6, <3>7, <3>8
  <2> QED
    BY <2>2, <2>3
<1> QED
  BY <1>8, <1>9, <1>10 DEF ShareInv

\* _call_await_request_msg
LEMMA AwaitRequestShares ==
  ASSUME QueueInv, ShareInv, NEW t \in Thread, AwaitRequest(t)
  PROVE  halted' = "none" /\ ShareInv'
<1>1. /\ t \in ready /\ state[t] = "ACTIVE" /\ t \notin paused
      /\ ~Sending(t) /\ outState[t] = "READY" /\ outNode[t] = None
      /\ inState[t] # "WAIT" /\ ~Helping(t)
  BY ScheduledFacts DEF AwaitRequest
<1>2. CASE inState[t] # "READY"
  <2>1. Scheduled(t) /\ BecomeInactive(t, "DEAD") /\ UNCHANGED <<paused, cpu, nodeVars>>
    BY <1>2 DEF AwaitRequest, nodeVars
  <2> QED
    BY <2>1, BecomeInactiveShares
<1>3. CASE inState[t] = "READY"
  <2> DEFINE waits == inQueue[t] = <<>>
             off   == IF waits THEN {t} ELSE {}
  <2>1. /\ inState' = [inState EXCEPT ![t] = IF waits THEN "WAIT" ELSE "REPLY"]
        /\ state' = [state EXCEPT ![t] = IF waits THEN "AWAITS_IPC" ELSE @]
        /\ halted' = Verdict(CanDeactivate(off, cpu[t]))
        /\ ready' = ready \ off
        /\ paused' = paused /\ cpu' = cpu
        /\ outState' = outState /\ outNode' = outNode
    BY <1>1, <1>3 DEF AwaitRequest, Waits, WaitState, SetShares, Runs
  <2>2. halted' = "none"
    BY <1>1, <2>1 DEF Verdict, CanDeactivate
  <2>3. BlockedForOneReason'
    BY <1>1, <2>1 DEF QueueInv, TypeOK, ShareInv, BlockedForOneReason, Sending
  <2>4. waits => \A h \in Thread : outNode[h] # t
    BY DEF QueueInv, QueuesMatchSenders, ToSet
  <2>5. SharesFollowHelping'
    BY <1>1, <2>1, <2>4 DEF QueueInv, TypeOK, ShareInv, SharesFollowHelping, Helping, Runs
  <2> QED
    BY <2>2, <2>3, <2>5 DEF ShareInv
<1> QED
  BY <1>2, <1>3

\* _call_send_reply_msg
LEMMA SendReplyShares ==
  ASSUME QueueInv, ShareInv, NEW t \in Thread, NEW await \in BOOLEAN, SendReply(t, await),
         ~unmasked'
  PROVE  halted' = "none" /\ ShareInv'
<1> DEFINE replies == inState[t] = "REPLY"
           c       == Head(inQueue[t])
           rest    == IF replies THEN Tail(inQueue[t]) ELSE inQueue[t]
           on      == IF replies THEN EndCall(c) ELSE {}
           blocks  == await /\ rest = <<>>
           off     == IF blocks THEN {t} ELSE {}
           Ends(u) == replies /\ u = c
<1>1. /\ t \in ready /\ state[t] = "ACTIVE" /\ t \notin paused
      /\ ~Sending(t) /\ outState[t] = "READY" /\ outNode[t] = None
      /\ inState[t] # "WAIT" /\ ~Helping(t)
  BY ScheduledFacts DEF SendReply
<1>2. /\ halted' = Verdict(/\ replies => state[c] = "AWAITS_IPC"
                           /\ CanActivate(on)
                           /\ CanDeactivate(off, cpu[t]))
      /\ inState' = [inState EXCEPT ![t] =
                       IF await THEN IF rest = <<>> THEN "WAIT" ELSE "REPLY" ELSE "READY"]
      /\ outNode' = [u \in Thread |-> IF Ends(u) THEN None ELSE outNode[u]]
      /\ outState' = [u \in Thread |-> IF Ends(u) THEN "READY" ELSE outState[u]]
      /\ state' = [u \in Thread |-> IF Ends(u) THEN "ACTIVE"
                                   ELSE IF blocks /\ u = t THEN "AWAITS_IPC" ELSE state[u]]
      /\ ready' = (ready \cup on) \ off
      /\ paused' = paused /\ cpu' = cpu
  BY <1>1 DEF SendReply, SetShares, Waits, WaitState, Runs
<1>3. replies => c \notin paused
  BY DEF SendReply
<1>4. inQueue[t] \in Seq(Thread) /\ Distinct(inQueue[t])
  BY DEF QueueInv, TypeOK, QueuesMatchSenders, Distinct
<1>5. /\ \A u : u \in ToSet(rest) <=> u \in ToSet(inQueue[t]) /\ ~Ends(u)
      /\ replies => c \in Thread /\ c \in ToSet(inQueue[t])
  <2>1. CASE replies
    BY <2>1, <1>4, TailElements DEF QueueInv, ServesHead
  <2>2. CASE ~replies
    BY <2>2
  <2> QED
    BY <2>1, <2>2
<1>6. replies => outNode[c] = t /\ Sending(c) /\ c # t
  BY <1>5, ClientsCalled
<1>7. replies => state[c] = "AWAITS_IPC" /\ inState[c] # "WAIT"
  BY <1>5, <1>6 DEF ShareInv, BlockedForOneReason
<1> HIDE DEF rest, c, replies
<1>8. \A u \in on : u \in Thread /\ u \notin ready /\ u \in UsedShares(c) /\ replies /\ c \notin ready
                 /\ (u = c \/ Helping(u))
  BY <1>5, UsedSharesAlike DEF QueueInv, ShareInv, EndCall
<1>9. replies => c \in ready \cup on
  BY <1>5, UsedSharesSelf DEF EndCall
<1>10. halted' = "none"
  BY <1>1, <1>2, <1>7, <1>8 DEF Verdict, CanActivate, CanDeactivate
<1>11. BlockedForOneReason'
  BY <1>1, <1>2, <1>6, <1>7 DEF QueueInv, TypeOK, ShareInv, BlockedForOneReason, Sending
<1>12. SharesFollowHelping'
  <2> SUFFICES ASSUME NEW u \in Thread
               PROVE  /\ Runs(u)' => u \in ready'
                      /\ Helping(u)' => (u \in ready' <=> outNode'[u] \in ready') /\ cpu[u] = cpu[outNode'[u]]
                      /\ u \in ready' => Runs(u)' \/ Helping(u)'
    BY <1>2 DEF SharesFollowHelping
  <2>1. CASE Ends(u)
    BY <2>1, <1>2, <1>3, <1>6, <1>9 DEF Helping, Runs
  <2>2. CASE ~Ends(u)
    <3>1. Helping(u)' <=> Helping(u)
      BY <2>2, <1>2 DEF Helping
    <3>2. outNode'[u] = outNode[u]
      BY <2>2, <1>2
    <3>3. Helping(u) => u # t /\ (blocks => outNode[u] # t)
      <4>1. outNode[u] = t => u \in ToSet(rest)
        BY <2>2, <1>5 DEF QueueInv, QueuesMatchSenders
      <4> QED
        BY <4>1, <1>1 DEF ToSet
    <3>4. Helping(u) /\ replies => (u \in UsedShares(c) <=> outNode[u] \in UsedShares(c))
      BY <2>2, <1>5, HelperUsedWith
    <3>5. Helping(u) => (u \in ready' <=> outNode[u] \in ready') /\ cpu[u] = cpu[outNode[u]]
      BY <3>3, <3>4, <1>2 DEF ShareInv, SharesFollowHelping, EndCall
    <3>6. Runs(u)' => u \in ready'
      BY <2>2, <1>1, <1>2 DEF ShareInv, SharesFollowHelping, Runs
    <3>7. u \in ready' => Runs(u)' \/ Helping(u)
      BY <2>2, <1>1, <1>2, <1>8 DEF ShareInv, SharesFollowHelping, Runs
    <3> QED
      BY <3>1, <3>2, <3>5, <3>6, <3>7
  <2> QED
    BY <2>1, <2>2
<1> QED
  BY <1>10, <1>11, <1>12 DEF ShareInv

\* _call_delete_thread
LEMMA DeleteThreadShares ==
  ASSUME QueueInv, ShareInv, NEW t \in Thread, DeleteThread(t), ~unmasked'
  PROVE  halted' = "none" /\ ShareInv'
<1> DEFINE clients == ToSet(inQueue[t])
           on      == UNION {EndCall(c) : c \in clients}
<1>1. /\ \A c : c \in clients <=> c \in Thread /\ outNode[c] = t
      /\ \A c \in clients : Sending(c) /\ c # t
      /\ {c \in clients : Sending(c)} = clients
  BY ClientsCalled
<1>2. \A c \in clients : state[c] = "AWAITS_IPC" /\ inState[c] # "WAIT" /\ c \notin paused
  <2>1. clients \cap paused = {}
    BY <1>1 DEF DeleteThread
  <2> QED
    BY <1>1, <2>1 DEF ShareInv, BlockedForOneReason
<1>3. /\ halted' = Verdict(CanActivate(on) /\ \A c \in clients : state[c] = "AWAITS_IPC")
      /\ inState' = [s \in Thread |-> IF s = t THEN "READY"
                                     ELSE IF Withdrawn(t, s) THEN "REPLY_NO_SENDER"
                                     ELSE inState[s]]
      /\ outNode' = [c \in Thread |-> IF c = t \/ c \in clients THEN None ELSE outNode[c]]
      /\ outState' = [c \in Thread |-> IF c = t \/ c \in clients THEN "READY" ELSE outState[c]]
      /\ state' = [c \in Thread |-> IF c = t THEN "NONE"
                                   ELSE IF c \in clients THEN "ACTIVE" ELSE state[c]]
      /\ ready' = (ready \cup on) \ {t}
      /\ paused' = paused \ {t}
      /\ cpu' = [cpu EXCEPT ![t] = None]
  BY <1>1 DEF DeleteThread, FreeInState, SetShares
<1> HIDE DEF clients
<1>4. \A u \in on : u \in Thread /\ u \notin ready /\ (u \in clients \/ Helping(u))
  BY <1>1, UsedSharesAlike DEF QueueInv, ShareInv, EndCall
<1>5. clients \subseteq ready \cup on
  BY <1>1, UsedSharesSelf DEF EndCall
<1>6. halted' = "none"
  BY <1>2, <1>3, <1>4 DEF Verdict, CanActivate
<1>7. BlockedForOneReason'
  <2> SUFFICES ASSUME NEW u \in Thread
               PROVE  /\ inState'[u] = "WAIT" => ~Sending(u)'
                      /\ state'[u] = "AWAITS_IPC" <=> Sending(u)' \/ inState'[u] = "WAIT"
    BY DEF BlockedForOneReason
  <2>1. Withdrawn(t, u) => inState[u] = "REPLY"
    BY DEF Withdrawn
  <2> QED
    BY <2>1, <1>2, <1>3 DEF ShareInv, BlockedForOneReason, Sending
<1>8. SharesFollowHelping'
  <2> SUFFICES ASSUME NEW u \in Thread
               PROVE  /\ Runs(u)' => u \in ready'
                      /\ Helping(u)' => (u \in ready' <=> outNode'[u] \in ready') /\ cpu'[u] = cpu'[outNode'[u]]
                      /\ u \in ready' => Runs(u)' \/ Helping(u)'
    BY DEF SharesFollowHelping
  <2>1. CASE u = t
    BY <2>1, <1>3 DEF Helping, Runs
  <2>2. CASE u # t /\ u \in clients
    BY <2>2, <1>2, <1>3, <1>5 DEF Helping, Runs
  <2>3. CASE u # t /\ u \notin clients
    <3>1. Helping(u)' <=> Helping(u)
      BY <2>3, <1>3 DEF Helping
    <3>2. outNode'[u] = outNode[u] /\ state'[u] = state[u]
      BY <2>3, <1>3
    <3>3. Helping(u) => outNode[u] # t
      BY <2>3, <1>1
    <3>4. ASSUME Helping(u), NEW c \in clients
          PROVE  outNode[u] \in Thread /\ (u \in UsedShares(c) <=> outNode[u] \in UsedShares(c))
      BY <2>3, <3>4, <1>1, HelperUsedWith
    <3>5. Helping(u) => (u \in on <=> outNode[u] \in on)
      BY <3>4 DEF EndCall
    <3>6. Helping(u) => (u \in ready' <=> outNode[u] \in ready') /\ cpu'[u] = cpu'[outNode[u]]
      <4>1. Helping(u) => outNode[u] \in Thread
        BY DEF QueueInv, TypeOK, Helping
      <4> HIDE DEF on
      <4> QED
        BY <2>3, <3>3, <3>5, <4>1, <1>3 DEF QueueInv, TypeOK, ShareInv, SharesFollowHelping
    <3>7. Runs(u)' => u \in ready'
      BY <2>3, <3>2, <1>3 DEF ShareInv, SharesFollowHelping, Runs
    <3>8. u \in ready' => Runs(u)' \/ Helping(u)
      BY <2>3, <3>2, <1>3, <1>4 DEF ShareInv, SharesFollowHelping, Runs
    <3> QED
      BY <3>1, <3>2, <3>6, <3>7, <3>8
  <2> QED
    BY <2>1, <2>2, <2>3
<1> QED
  BY <1>6, <1>7, <1>8 DEF ShareInv

-----------------------------------------------------------------------------
(* Results *)

\* Every step of the kernel keeps the queues in agreement.
LEMMA NextQueues ==
  ASSUME QueueInv, [Next]_vars
  PROVE  QueueInv'
<1>1. CASE UNCHANGED vars
  <2>1. TypeOK'
    BY <1>1 DEF vars, nodeVars, QueueInv, TypeOK
  <2> QED
    BY <1>1, <2>1, NodesUntouched DEF vars
<1>2. ASSUME NEW t \in Thread, CoreStep(t) \/ ThreadStep(t)
      PROVE  QueueInv'
  BY <1>2, ThreadQueues, DeleteThreadQueues, SendRequestQueues, AwaitRequestQueues, SendReplyQueues
     DEF CoreStep, ThreadStep
<1> QED
  BY <1>1, <1>2 DEF Next, Spin

\* Every step of the kernel that starts from agreement keeps it, or fails one
\* of the two assertions, or ends the call of a paused thread.
LEMMA NextShares ==
  ASSUME QueueInv, ShareInv, ~unmasked', NEW t \in Thread, CoreStep(t) \/ ThreadStep(t)
  PROVE  halted' # "other" /\ (halted' = "none" => ShareInv')
<1>1. CASE NewThread(t)
  BY <1>1, NewThreadShares
<1>2. CASE \E c \in Cpu : StartThread(t, c)
  BY <1>2, StartThreadShares
<1>3. CASE PauseThread(t)
  BY <1>3, PauseThreadShares
<1>4. CASE ResumeThread(t)
  BY <1>4, ResumeThreadShares
<1>5. CASE DeleteThread(t)
  BY <1>5, DeleteThreadShares
<1>6. CASE StopThread(t)
  BY <1>6, BecomeInactiveShares DEF StopThread
<1>7. CASE StopInactive(t)
  BY <1>7, ScheduledFacts DEF StopInactive
<1>8. CASE Die(t)
  BY <1>8, BecomeInactiveShares DEF Die
<1>9. CASE RestartThread(t)
  BY <1>9, RestartThreadShares
<1>10. CASE RestartOther(t)
  BY <1>10 DEF RestartOther, Halt
<1>11. CASE \E d \in Thread : SendRequest(t, d)
  BY <1>11, SendRequestShares
<1>12. CASE AwaitRequest(t)
  BY <1>12, AwaitRequestShares
<1>13. CASE \E await \in BOOLEAN : SendReply(t, await)
  BY <1>13, SendReplyShares
<1> QED
  BY <1>1, <1>2, <1>3, <1>4, <1>5, <1>6, <1>7, <1>8, <1>9, <1>10, <1>11, <1>12, <1>13
     DEF CoreStep, ThreadStep

\* No action starts after a failed assertion, and the history stays.
LEMMA StepsRun ==
  ASSUME NEW t \in Thread, CoreStep(t) \/ ThreadStep(t)
  PROVE  halted = "none" /\ (unmasked => unmasked')
<1>1. CASE DeleteThread(t)
  BY <1>1 DEF DeleteThread
<1>2. CASE \E await \in BOOLEAN : SendReply(t, await)
  <2>1. PICK await \in BOOLEAN : SendReply(t, await)
    BY <1>2
  <2>2. halted = "none" /\ unmasked' = (unmasked \/ (inState[t] = "REPLY" /\ Head(inQueue[t]) \in paused))
    BY <2>1 DEF SendReply
  <2> QED
    BY <2>2
<1>3. CASE /\ ~DeleteThread(t)
           /\ ~\E await \in BOOLEAN : SendReply(t, await)
  <2>1. halted = "none" /\ unmasked' = unmasked
    BY <1>3 DEF CoreStep, ThreadStep, NewThread, StartThread, PauseThread, Halt, ResumeThread,
       StopThread, StopInactive, Die, RestartThread, RestartOther, SendRequest, AwaitRequest
  <2> QED
    BY <2>1
<1> QED
  BY <1>1, <1>2, <1>3

\* The inductive invariant holds in every behaviour: queues agree always, and
\* threads and shares until a call of a paused thread ends or an assertion fails.
THEOREM Invariance == Spec => []IInv
<1>1. Init => IInv
  BY InitIInv
<1>2. IInv /\ [Next]_vars => IInv'
  <2> SUFFICES ASSUME IInv, [Next]_vars PROVE IInv'
    OBVIOUS
  <2>1. QueueInv'
    BY NextQueues DEF IInv
  <2>2. CASE UNCHANGED vars
    BY <2>1, <2>2 DEF IInv, Intact, OtherAssertionsHold, ShareInv, SharesFollowHelping,
       BlockedForOneReason, Sending, Helping, Runs, vars, nodeVars
  <2>3. ASSUME NEW t \in Thread, CoreStep(t) \/ ThreadStep(t)
        PROVE  IInv'
    <3>1. halted = "none" /\ (unmasked => unmasked')
      BY <2>3, StepsRun
    <3>2. CASE unmasked'
      BY <2>1, <3>2 DEF IInv, Intact, OtherAssertionsHold
    <3>3. CASE ~unmasked'
      <4>1. QueueInv /\ ShareInv
        BY <3>1, <3>3 DEF IInv, Intact
      <4> QED
        BY <2>1, <2>3, <3>3, <4>1, NextShares DEF IInv, Intact, OtherAssertionsHold
    <3> QED
      BY <3>2, <3>3
  <2> QED
    BY <2>2, <2>3 DEF Next, Spin
<1> QED
  BY <1>1, <1>2, PTL DEF Spec

\* For any threads, CPUs and call hierarchy: types are kept, queues and callers
\* agree, a server answers the client whose request it received, and no assertion
\* but the two that callers can provoke is the first to fail; until a call of a
\* paused thread ends, only threads that can run are scheduled, and none that can
\* run is forgotten.
THEOREM Safety ==
  Spec => [](/\ TypeOK /\ QueuesMatchSenders /\ ServesHead
             /\ OtherAssertionsHold /\ ScheduledRunnable
             /\ Intact => SharesFollowHelping /\ BlockedForOneReason)
<1>1. IInv => ScheduledRunnable
  BY ScheduledFacts DEF ScheduledRunnable, IInv, Runs
<1>2. IInv => /\ TypeOK /\ QueuesMatchSenders /\ ServesHead /\ OtherAssertionsHold
              /\ Intact => SharesFollowHelping /\ BlockedForOneReason
  BY DEF IInv, QueueInv, ShareInv
<1>3. Spec => []IInv
  BY Invariance
<1> QED
  BY <1>1, <1>2, <1>3, PTL

\* A call ends by the reply to it or by a deletion, in no other way.
THEOREM CallsEndProperly == Spec => CallEndsByReplyOrDeletion
<1>1. ASSUME QueueInv, [Next]_vars
      PROVE  [CallEndStep]_vars
  <2> SUFFICES ASSUME NEW t \in Thread, CoreStep(t) \/ ThreadStep(t),
                      NEW c \in Thread, NEW s \in Thread, outNode[c] = s, outNode'[c] # s
               PROVE  \/ state'[s] = "NONE" \/ state'[c] = "NONE"
                      \/ request[s] = c /\ inState[s] = "REPLY" /\ Scheduled(s)
    BY <1>1 DEF Next, Spin, CallEndStep
  <2>1. CASE DeleteThread(t)
    <3>1. outNode' = [u \in Thread |-> IF u = t \/ u \in ToSet(inQueue[t]) THEN None ELSE outNode[u]]
      BY <2>1 DEF DeleteThread
    <3>2. c = t \/ s = t
      BY <3>1, <1>1 DEF QueueInv, QueuesMatchSenders
    <3>3. state'[t] = "NONE"
      BY <2>1 DEF DeleteThread
    <3> QED
      BY <3>2, <3>3
  <2>2. CASE \E await \in BOOLEAN : SendReply(t, await)
    <3>1. Scheduled(t) /\ inState[t] = "REPLY" /\ c = Head(inQueue[t])
      BY <2>2 DEF SendReply
    <3>2. inQueue[t] # <<>> /\ request[t] = c
      BY <1>1, <3>1 DEF QueueInv, ServesHead
    <3>3. c \in ToSet(inQueue[t])
      BY <1>1, <3>1, <3>2 DEF QueueInv, TypeOK, ToSet
    <3>4. s = t
      BY <1>1, <3>3 DEF QueueInv, QueuesMatchSenders
    <3> QED
      BY <3>1, <3>2, <3>4
  <2>3. CASE \E d \in Thread : SendRequest(t, d)
    <3>1. c = t /\ outState[t] = "READY"
      BY <1>1, <2>3 DEF SendRequest, QueueInv, TypeOK
    <3> QED
      BY <1>1, <3>1 DEF QueueInv, QueuesMatchSenders, Sending
  <2>4. CASE \E a \in Assertion : Halt(a)
    BY <2>4 DEF Halt, All
  <2> QED
    BY <2>1, <2>2, <2>3, <2>4 DEF CoreStep, ThreadStep, NewThread, StartThread, PauseThread, ResumeThread,
       StopThread, StopInactive, Die, RestartThread, RestartOther, AwaitRequest, nodeVars, Assertion
<1>2. Spec => []QueueInv
  <2>1. IInv => QueueInv
    BY DEF IInv
  <2> QED
    BY <2>1, Invariance, PTL
<1> QED
  BY <1>1, <1>2, PTL DEF Spec, CallEndsByReplyOrDeletion

\* A queue keeps its order when the first or any other element leaves it, and
\* when one joins it.
LEMMA QueueOrder ==
  ASSUME NEW q \in Seq(Thread), Distinct(q), NEW t \in Thread
  PROVE  /\ KeepsOrder(q, q)
         /\ KeepsOrder(q, <<>>)
         /\ t \notin ToSet(q) => KeepsOrder(q, Enqueued(q, t))
         /\ KeepsOrder(q, Without(q, t))
         /\ q # <<>> => KeepsOrder(q, Tail(q))
<1>1. KeepsOrder(q, q) /\ KeepsOrder(q, <<>>)
  BY DEF KeepsOrder, Distinct
<1>2. ASSUME t \notin ToSet(q)
      PROVE  KeepsOrder(q, Enqueued(q, t))
  <2> DEFINE r == Append(q, t)
  <2>1. Len(r) = Len(q) + 1 /\ r[Len(q) + 1] = t /\ \A j \in 1 .. Len(q) : r[j] = q[j]
    OBVIOUS
  <2>2. r \in Seq(Thread) /\ \A j \in DOMAIN q : q[j] # t
    BY <1>2 DEF ToSet
  <2> HIDE DEF r
  <2>3. ASSUME NEW i \in DOMAIN q, NEW k \in DOMAIN r, NEW l \in DOMAIN r, r[l] = q[i], k < l
        PROVE  \E h \in DOMAIN q : h < i /\ q[h] = r[k]
    <3>1. l \in 1 .. Len(q) /\ k \in 1 .. Len(q)
      BY <2>1, <2>2, <2>3
    <3>2. l = i
      BY <3>1, <2>1, <2>3 DEF Distinct
    <3> QED
      BY <3>1, <3>2, <2>1, <2>3
  <2> QED
    BY <2>3 DEF KeepsOrder, Enqueued, r
<1>3. ASSUME t \in ToSet(q)
      PROVE  KeepsOrder(q, Without(q, t))
  <2> DEFINE n == CHOOSE k \in DOMAIN q : q[k] = t
             r == RemoveAt(q, n)
             pos(m) == IF m < n THEN m ELSE m + 1
  <2>1. n \in 1 .. Len(q) /\ q[n] = t
    BY <1>3 DEF ToSet
  <2>2. Without(q, t) = r
    BY <1>3 DEF Without
  <2> HIDE DEF n
  <2>3. /\ r \in Seq(Thread)
        /\ Len(r) = Len(q) - 1
        /\ \A j \in 1 .. Len(q) - 1 : r[j] = IF j < n THEN q[j] ELSE q[j + 1]
    BY <2>1, RemoveAtElements
  <2> HIDE DEF r
  <2>4. \A m \in DOMAIN r : pos(m) \in DOMAIN q /\ r[m] = q[pos(m)]
    BY <2>1, <2>3
  <2>5. ASSUME NEW i \in DOMAIN q, NEW k \in DOMAIN r, NEW l \in DOMAIN r, r[l] = q[i], k < l
        PROVE  \E h \in DOMAIN q : h < i /\ q[h] = r[k]
    <3>1. pos(l) = i
      BY <2>4, <2>5 DEF Distinct
    <3>2. pos(k) < pos(l)
      BY <2>1, <2>3, <2>5
    <3> HIDE DEF pos
    <3> QED
      BY <3>1, <3>2, <2>4
  <2> QED
    BY <2>2, <2>5 DEF KeepsOrder
<1>4. ASSUME q # <<>>
      PROVE  KeepsOrder(q, Tail(q))
  <2> DEFINE r == Tail(q)
  <2>1. r \in Seq(Thread) /\ Len(r) = Len(q) - 1 /\ \A j \in 1 .. Len(q) - 1 : r[j] = q[j + 1]
    BY <1>4
  <2> HIDE DEF r
  <2>2. ASSUME NEW i \in DOMAIN q, NEW k \in DOMAIN r, NEW l \in DOMAIN r, r[l] = q[i], k < l
        PROVE  \E h \in DOMAIN q : h < i /\ q[h] = r[k]
    <3>1. l + 1 = i /\ k + 1 \in DOMAIN q
      BY <2>1, <2>2 DEF Distinct
    <3> QED
      BY <3>1, <2>1, <2>2
  <2> QED
    BY <2>2 DEF KeepsOrder, r
<1> QED
  BY <1>1, <1>2, <1>3, <1>4 DEF Without

\* No client overtakes another one in the queue of a server.
THEOREM ClientsKeepOrder == Spec => NoOvertaking
<1>1. ASSUME QueueInv, [Next]_vars
      PROVE  [OrderStep]_vars
  <2> SUFFICES ASSUME NEW t \in Thread, CoreStep(t) \/ ThreadStep(t), NEW s \in Thread
               PROVE  KeepsOrder(inQueue[s], inQueue'[s])
    BY <1>1 DEF Next, Spin, OrderStep
  <2>1. inQueue[s] \in Seq(Thread) /\ Distinct(inQueue[s])
    BY <1>1 DEF QueueInv, TypeOK, QueuesMatchSenders, Distinct
  <2>2. CASE DeleteThread(t)
    BY <2>1, <2>2, QueueOrder DEF DeleteThread
  <2>3. CASE \E await \in BOOLEAN : SendReply(t, await)
    <3>1. inQueue'[s] = IF s = t /\ inState[t] = "REPLY" THEN Tail(inQueue[s]) ELSE inQueue[s]
      BY <1>1, <2>3 DEF SendReply, QueueInv, TypeOK
    <3>2. inState[s] = "REPLY" => inQueue[s] # <<>>
      BY <1>1 DEF QueueInv, ServesHead
    <3> QED
      BY <2>1, <3>1, <3>2, QueueOrder
  <2>4. CASE \E d \in Thread : SendRequest(t, d)
    <3>1. \/ inQueue'[s] = inQueue[s]
          \/ inQueue'[s] = Enqueued(inQueue[s], t) /\ outState[t] = "READY"
      BY <1>1, <2>4 DEF SendRequest, QueueInv, TypeOK
    <3>2. outState[t] = "READY" => t \notin ToSet(inQueue[s])
      BY <1>1 DEF QueueInv, QueuesMatchSenders, Sending
    <3> QED
      BY <2>1, <3>1, <3>2, QueueOrder
  <2>5. CASE \E a \in Assertion : Halt(a)
    BY <2>1, <2>5, QueueOrder DEF Halt, All
  <2> QED
    BY <2>1, <2>2, <2>3, <2>4, <2>5, QueueOrder DEF CoreStep, ThreadStep, NewThread, StartThread,
       PauseThread, ResumeThread, StopThread, StopInactive, Die, RestartThread, RestartOther,
       AwaitRequest, nodeVars, Assertion
<1>2. Spec => []QueueInv
  <2>1. IInv => QueueInv
    BY DEF IInv
  <2> QED
    BY <2>1, Invariance, PTL
<1> QED
  BY <1>1, <1>2, PTL DEF Spec, NoOvertaking

=============================================================================

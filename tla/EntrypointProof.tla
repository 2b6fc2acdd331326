--------------------------- MODULE EntrypointProof ---------------------------
(* Proofs about Entrypoint, for any sets of signal contexts, any nesting of   *)
(* waits and any bound of the kernel's counter above 1.                       *)
EXTENDS Entrypoint, QueueTheorems, FiniteSetTheorems, WellFoundedInduction

-----------------------------------------------------------------------------
(* The inductive invariant *)

Place == ProxyPlace \cup EpPlace

LibTypeOK ==
  /\ utcb \in [Thread -> [context : Context \cup {None}, num : 0 .. MaxNum]]
  /\ curr \in [Context -> 0 .. MaxNum]
  /\ sum \in [Context -> 0 .. MaxNum]
  /\ blockMutex \in Thread \cup {None}
  /\ delivers \in BOOLEAN
  /\ victim \in User \cup {None}
  /\ pc \in [Thread -> Place]
  /\ pc[Proxy] \in ProxyPlace /\ pc[Ep] \in EpPlace

\* The kernel's contexts: one is queued exactly if it can be delivered, and it
\* is fresh if it does not exist.
KernelInv ==
  /\ Kernel!TypeOK
  /\ ~halted
  /\ cancelNext = {}
  /\ owed = submits
  /\ Distinct(deliver[Rec])
  /\ \A c \in Context :
       c \in ToSet(deliver[Rec]) <=> receiver[c] = Rec /\ c \in ack /\ submits[c] > 0
  /\ \A c \in Context : receiver[c] = None => submits[c] = 0 /\ c \in ack \ killed
  /\ \A c \in Context : killer[c] # None => c \in killed

\* At most one thread waits at the receiver, and only while nothing can be delivered.
HandlerInv ==
  /\ \A t \in Thread : state[t] \in {"ACTIVE", "AWAITS_SIGNAL", "AWAITS_SIGNAL_CONTEXT_KILL"}
  /\ \A t \in Thread : state[t] = "AWAITS_SIGNAL" <=> awaiting[t] # None
  /\ \A t \in Thread : state[t] = "AWAITS_SIGNAL" <=> handlers[Rec] = <<t>>
  /\ handlers[Rec] # <<>> => deliver[Rec] = <<>> /\ \E t \in Thread : handlers[Rec] = <<t>>

\* A thread is blocked only where it called the kernel.
BlockInv ==
  /\ \A t \in Thread : state[t] = "AWAITS_SIGNAL" => pc[t] = "woken"
  /\ \A t \in Thread : state[t] = "AWAITS_SIGNAL_CONTEXT_KILL" => t = Ep /\ pc[t] = "free"

\* _block_for_signal_mutex is held from before block_for_signal until after it.
MutexInv ==
  /\ \A t \in Thread : blockMutex = t <=> pc[t] \in {"await", "woken", "update", "ack"}
  /\ blockMutex = Proxy => delivers

\* The context that is being dissolved
VictimInv ==
  /\ victim # None <=> pc[Ep] \in {"kill", "free", "destroy"}
  /\ killed = IF pc[Ep] = "free" THEN {victim} ELSE {}
  /\ \A c \in Context : killer[c] # None <=> c = victim /\ state[Ep] = "AWAITS_SIGNAL_CONTEXT_KILL"
  /\ \A c \in Context : killer[c] \in {None, Ep}
  /\ pc[Ep] \in {"kill", "free"} => receiver[victim] # None
  /\ pc[Ep] = "destroy" => receiver[victim] = None

\* Thread t has a signal from the kernel that it has not acknowledged.
Holding(t) ==
  \/ pc[t] \in {"update", "ack", "pollUpdate", "pollAck"}
  \/ pc[t] = "woken" /\ state[t] = "ACTIVE"

Holds(t, c) == Holding(t) /\ utcb[t].context = c

\* The unacknowledged contexts are those of the signals in the hands of the
\* threads, and one that is killed is waited for as long as a thread has it.
HoldInv ==
  /\ \A t \in Thread :
       Holding(t) =>
         /\ utcb[t].context \in Context /\ utcb[t].num >= 1
         /\ utcb[t].context \notin ack /\ receiver[utcb[t].context] # None
         /\ utcb[t].context \in killed => killer[utcb[t].context] # None
  /\ Holding(Proxy) /\ Holding(Ep) => utcb[Proxy].context # utcb[Ep].context
  /\ \A c \in Context \ (ack \cup killed) : \E t \in Thread : Holds(t, c)

\* Whatever the library refers to exists, up to the context that is being
\* dissolved. Of a context that does not exist, _pending and _curr_signal are left.
AliveInv ==
  /\ ring \in Seq(Context) /\ Distinct(ring)
  /\ \A c \in Context : c \in ToSet(ring) <=> receiver[c] # None
  /\ deferred \in Seq(Context) /\ Distinct(deferred)
  /\ \A c \in Context : c \in ToSet(deferred) => receiver[c] # None \/ c = victim
  /\ pending \subseteq Context
  /\ \A i \in DOMAIN stack :
       stack[i].kind # "item" /\ stack[i].context # None =>
         receiver[stack[i].context] # None \/ stack[i].context = victim
  /\ receiver[DeferredHandler] # None

\* What the entrypoint executes, by its place in the code
StackInv ==
  /\ stack \in Seq(Frame)
  /\ pc[Ep] = "idle" <=> stack = <<>>
  /\ \A i \in DOMAIN stack : stack[i].kind \in {"signal", "rpc"} <=> i = 1
  /\ \A i \in DOMAIN stack : stack[i].kind = "item" => i = 2 /\ stack[1].kind = "signal"
  /\ pc[Ep] = "drain" => Len(stack) = 1 /\ stack[1].kind = "signal"
  /\ pc[Ep] \in {"scan", "poll", "pollUpdate", "pollAck"} => Top.kind \in {"signal", "wait", "try"}
  /\ pc[Ep] \in {"waitBlock", "await", "woken", "update", "ack"} => Top.kind = "wait"
  /\ pc[Proxy] = "inCall" <=> stack # <<>> /\ stack[1].kind = "signal"

\* The signals that the library has to return, unless a context has been managed
\* that looked pending
SignalInv ==
  /\ \A c \in Context : receiver[c] = None => sum[c] = 0
  /\ reused \/ \A c \in pending : receiver[c] # None /\ c # victim => curr[c] >= 1
  /\ reused \/ \A c \in Context :
       c # victim /\ sum[c] > 0 => c \in pending \/ \E t \in Thread : Holds(t, c) /\ pc[t] # "ack"

\* The entrypoint has been called by the proxy and has not come to pending_signal yet.
Draining ==
  /\ pc[Proxy] = "inCall"
  /\ pc[Ep] = "drain" \/ (Len(stack) > 1 /\ stack[2].kind = "item")

\* The proxy or the entrypoint is about to look for a pending signal.
ProxyLooks == pc[Proxy] = "ack" \/ (pc[Proxy] = "call" /\ delivers) \/ Draining
EpLooks == pc[Ep] \in {"ack", "scan"}

\* There are no more signals pending than searches for one are under way.
Marks == {c \in pending : receiver[c] # None /\ c # victim}
PendingInv ==
  \/ reused
  \/ /\ Marks # {} => ProxyLooks \/ EpLooks
     /\ \A x, y \in Marks : x = y \/ (ProxyLooks /\ EpLooks)
     /\ \A x, y, z \in Marks : x = y \/ y = z \/ x = z

\* The entrypoint waits for I/O; the proxy has a signal for the entrypoint.
Waits == \E i \in DOMAIN stack : stack[i].kind \in WaitKind
Comes ==
  \/ pc[Proxy] \in {"update", "ack", "call"}
  \/ pc[Proxy] = "woken" /\ state[Proxy] = "ACTIVE"
  \/ Draining

\* There is somebody who will have the deferred signals handled, or they are left
\* by dispatch_pending_io_signal, and the search for a pending signal starts
\* without deferred signals.
DeferredInv ==
  /\ deferred # <<>> => Waits \/ Comes \/ submits[DeferredHandler] > 0 \/ polled
  /\ /\ pc[Ep] \in {"scan", "poll", "pollUpdate", "pollAck"}
     /\ Top.kind = "signal"
     => deferred = <<>>

IInv ==
  /\ LibTypeOK /\ KernelInv /\ HandlerInv /\ BlockInv /\ MutexInv /\ VictimInv
  /\ HoldInv /\ AliveInv /\ StackInv /\ SignalInv /\ PendingInv

-----------------------------------------------------------------------------
(* Operators of the model *)

\* Taking an element out of a queue takes out nothing else.
LEMMA WithoutElements ==
  ASSUME NEW S, NEW q \in Seq(S), Distinct(q), NEW e
  PROVE  /\ Without(q, e) \in Seq(S)
         /\ Distinct(Without(q, e))
         /\ \A u : u \in ToSet(Without(q, e)) <=> u \in ToSet(q) /\ u # e
<1>1. CASE e \in ToSet(q)
  BY <1>1, RemovedElements DEF Without
<1>2. CASE e \notin ToSet(q)
  BY <1>2 DEF Without
<1> QED
  BY <1>1, <1>2

\* Context_ring::head: turning the ring keeps its contexts.
LEMMA TurnedElements ==
  ASSUME ring \in Seq(Context), Distinct(ring), NEW i \in 1 .. Len(ring)
  PROVE  /\ Turned(i) \in Seq(Context)
         /\ Distinct(Turned(i))
         /\ \A u : u \in ToSet(Turned(i)) <=> u \in ToSet(ring)
<1> DEFINE a == SubSeq(ring, i + 1, Len(ring))
           b == SubSeq(ring, 1, i)
           r == Turned(i)
<1>1. /\ a \in Seq(Context) /\ b \in Seq(Context)
      /\ Len(a) = Len(ring) - i /\ Len(b) = i
      /\ \A j \in 1 .. Len(ring) - i : a[j] = ring[i + j]
      /\ \A j \in 1 .. i : b[j] = ring[j]
  OBVIOUS
<1>2. /\ r \in Seq(Context)
      /\ Len(r) = Len(ring)
      /\ \A j \in 1 .. Len(r) : r[j] = IF j <= Len(a) THEN a[j] ELSE b[j - Len(a)]
  BY <1>1, ConcatProperties DEF Turned
<1> HIDE DEF a, b, r
<1> DEFINE n == Len(ring)
           at(j) == IF j <= n - i THEN i + j ELSE j - (n - i)
<1>3. n \in Nat /\ DOMAIN r = 1 .. n /\ DOMAIN ring = 1 .. n
  BY <1>2
<1>4. \A j \in 1 .. n : r[j] = ring[at(j)] /\ at(j) \in 1 .. n
  <2> TAKE j \in 1 .. n
  <2>0. n \in Nat /\ i \in 1 .. n /\ j \in 1 .. n /\ Len(r) = n /\ Len(a) = n - i
    BY <1>1, <1>2, <1>3
  <2>1. CASE j <= n - i
    <3>1. j \in 1 .. n - i /\ at(j) = i + j /\ i + j \in 1 .. n
      BY <2>0, <2>1
    <3>2. r[j] = a[j] /\ a[j] = ring[i + j]
      BY <3>1, <2>0, <2>1, <1>1, <1>2
    <3> QED
      BY <3>1, <3>2
  <2>2. CASE ~(j <= n - i)
    <3>1. j - (n - i) \in 1 .. i /\ at(j) = j - (n - i) /\ j - (n - i) \in 1 .. n
      BY <2>0, <2>2
    <3>2. r[j] = b[j - (n - i)]
      BY <2>0, <2>2, <1>2
    <3>3. b[j - (n - i)] = ring[j - (n - i)]
      BY <3>1, <1>1
    <3> QED
      BY <3>1, <3>2, <3>3
  <2> QED
    BY <2>1, <2>2
<1>5. \A j, k \in 1 .. n : at(j) = at(k) => j = k
  BY <1>3
<1>6. \A m \in 1 .. n : \E j \in 1 .. n : at(j) = m
  <2> TAKE m \in 1 .. n
  <2>1. CASE m > i
    <3>1. m - i \in 1 .. n /\ at(m - i) = m
      BY <2>1, <1>3
    <3> QED
      BY <3>1
  <2>2. CASE ~(m > i)
    <3>1. m + (n - i) \in 1 .. n /\ at(m + (n - i)) = m
      BY <2>2, <1>3
    <3> QED
      BY <3>1
  <2> QED
    BY <2>1, <2>2
<1> HIDE DEF n, at
<1>7. Distinct(r)
  BY <1>3, <1>4, <1>5 DEF Distinct
<1>8. \A u : u \in ToSet(r) <=> u \in ToSet(ring)
  <2> TAKE u
  <2>1. ASSUME u \in ToSet(r) PROVE u \in ToSet(ring)
    BY <2>1, <1>3, <1>4 DEF ToSet
  <2>2. ASSUME NEW m \in 1 .. n, u = ring[m] PROVE u \in ToSet(r)
    <3>1. PICK j \in 1 .. n : at(j) = m
      BY <1>6
    <3>2. u = r[j]
      BY <3>1, <2>2, <1>4
    <3> QED
      BY <3>2, <1>3 DEF ToSet
  <2>3. ASSUME u \in ToSet(ring) PROVE \E m \in 1 .. n : u = ring[m]
    BY <2>3, <1>3 DEF ToSet
  <2> QED
    BY <2>1, <2>2, <2>3
<1> QED
  BY <1>2, <1>7, <1>8 DEF r

\* The search for a pending context finds the first in the ring.
LEMMA ScanFinds ==
  ASSUME ring \in Seq(Context), pending \cap ToSet(ring) # {}
  PROVE  LET i == SelectInSeq(ring, LAMBDA c : c \in pending) IN
         i \in 1 .. Len(ring) /\ ring[i] \in pending
<1> DEFINE I == {i \in 1 .. Len(ring) : ring[i] \in pending}
<1>1. I # {} /\ I \subseteq Nat
  BY DEF ToSet
<1>2. \E x \in I : \A y \in I : x <= y
  <2> DEFINE R == OpToRel(<, Nat)
  <2>1. IsWellFoundedOn(R, Nat)
    BY NatLessThanWellFounded
  <2>2. \A x, y \in Nat : <<y, x>> \in R <=> y < x
    BY DEF OpToRel
  <2> HIDE DEF R, I
  <2>3. PICK x \in I : \A y \in I : ~(<<y, x>> \in R)
    BY <1>1, <2>1, WFMin
  <2>4. \A y \in I : ~(y < x) /\ y \in Nat /\ x \in Nat
    BY <1>1, <2>2, <2>3
  <2> QED
    BY <2>4
<1>3. Min(I) \in I
  BY <1>2 DEF Min
<1>4. SelectInSeq(ring, LAMBDA c : c \in pending) = Min(I)
  BY <1>1 DEF SelectInSeq
<1> QED
  BY <1>3, <1>4

-----------------------------------------------------------------------------
(* The kernel with one receiver and at most one thread that waits there *)

LEMMA KernelToSet == \A s : Kernel!ToSet(s) = ToSet(s)
BY DEF Kernel!ToSet, ToSet

LEMMA KernelRemoveAt == \A s, i : Kernel!RemoveAt(s, i) = RemoveAt(s, i)
BY DEF Kernel!RemoveAt, RemoveAt

\* What Signal_receiver::_listen leaves behind if it hands out nothing.
HandsNothing(d, h, st, aw, sub, ak, ow) ==
  /\ halted' = FALSE
  /\ deliver' \in [Receiver -> Seq(Context)] /\ deliver'[Rec] = d
  /\ handlers' \in [Receiver -> Seq(Thread)] /\ handlers'[Rec] = h
  /\ state' = st /\ awaiting' = aw /\ submits' = sub /\ ack' = ak /\ owed' = ow

LEMMA HandZero ==
  ASSUME deliver \in [Receiver -> Seq(Context)], handlers \in [Receiver -> Seq(Thread)],
         NEW d \in Seq(Context), NEW h \in Seq(Thread),
         NEW st \in [Thread -> Kernel!ThreadState],
         NEW aw \in [Thread -> Receiver \cup {None}],
         NEW sub \in [Context -> 0 .. MaxSubmits], NEW ak,
         NEW ow \in [Context -> Nat],
         Kernel!Hand(Rec, 0, d, h, st, aw, sub, ak, ow)
  PROVE  HandsNothing(d, h, st, aw, sub, ak, ow)
<1>1. SubSeq(h, 1, 0) = <<>> /\ SubSeq(d, 1, 0) = <<>>
  OBVIOUS
<1>2. ToSet(SubSeq(h, 1, 0)) = {} /\ ToSet(SubSeq(d, 1, 0)) = {}
  BY <1>1 DEF ToSet
<1>3. SubSeq(h, 0 + 1, Len(h)) = h /\ SubSeq(d, 0 + 1, Len(d)) = d
  OBVIOUS
<1>4. Rec \in Receiver
  BY DEF Receiver
<1>5. /\ halted' = FALSE
      /\ deliver' = [deliver EXCEPT ![Rec] = d]
      /\ handlers' = [handlers EXCEPT ![Rec] = h]
      /\ ack' = ak
  BY <1>2, <1>3, KernelToSet DEF Kernel!Hand, Kernel!Delivered
<1>6. state' = [t \in Thread |-> st[t]] /\ awaiting' = [t \in Thread |-> aw[t]]
  BY <1>2, KernelToSet DEF Kernel!Hand
<1>7. submits' = [c \in Context |-> sub[c]] /\ owed' = [c \in Context |-> ow[c]]
  BY <1>2, KernelToSet DEF Kernel!Hand
<1> QED
  BY <1>4, <1>5, <1>6, <1>7 DEF HandsNothing

\* What it leaves behind if it hands context c to the only handler t.
HandsOver(t, c, d, st, aw, sub, ak, ow) ==
  /\ halted' = (st[t] # "AWAITS_SIGNAL")
  /\ deliver' \in [Receiver -> Seq(Context)] /\ deliver'[Rec] = d
  /\ handlers' \in [Receiver -> Seq(Thread)] /\ handlers'[Rec] = <<>>
  /\ state' = [st EXCEPT ![t] = "ACTIVE"]
  /\ awaiting' = [aw EXCEPT ![t] = None]
  /\ submits' = [sub EXCEPT ![c] = 0]
  /\ ack' = ak \ {c}
  /\ owed' = [ow EXCEPT ![c] = @ - sub[c]]

LEMMA HandOne ==
  ASSUME deliver \in [Receiver -> Seq(Context)], handlers \in [Receiver -> Seq(Thread)],
         NEW d \in Seq(Context), d # <<>>, NEW t \in Thread,
         NEW st \in [Thread -> Kernel!ThreadState],
         NEW aw \in [Thread -> Receiver \cup {None}],
         NEW sub \in [Context -> 0 .. MaxSubmits], NEW ak,
         NEW ow \in [Context -> Nat],
         Kernel!Hand(Rec, 1, d, <<t>>, st, aw, sub, ak, ow)
  PROVE  HandsOver(t, Head(d), Tail(d), st, aw, sub, ak, ow)
<1> DEFINE c == Head(d)
           h == <<t>>
<1>1. /\ DOMAIN SubSeq(h, 1, 1) = 1 .. 1 /\ SubSeq(h, 1, 1)[1] = t
      /\ DOMAIN SubSeq(d, 1, 1) = 1 .. 1 /\ SubSeq(d, 1, 1)[1] = c
  OBVIOUS
<1>2. ToSet(SubSeq(h, 1, 1)) = {t} /\ ToSet(SubSeq(d, 1, 1)) = {c}
  BY <1>1 DEF ToSet
<1>3. SubSeq(h, 1 + 1, Len(h)) = <<>> /\ SubSeq(d, 1 + 1, Len(d)) = Tail(d)
  OBVIOUS
<1>4. Rec \in Receiver /\ c \in Context /\ Tail(d) \in Seq(Context)
  BY DEF Receiver
<1>5. /\ halted' = (st[t] # "AWAITS_SIGNAL")
      /\ deliver' = [deliver EXCEPT ![Rec] = Tail(d)]
      /\ handlers' = [handlers EXCEPT ![Rec] = <<>>]
      /\ ack' = ak \ {c}
  BY <1>2, <1>3, KernelToSet DEF Kernel!Hand, Kernel!Delivered
<1>6. /\ state' = [u \in Thread |-> IF u = t THEN "ACTIVE" ELSE st[u]]
      /\ awaiting' = [u \in Thread |-> IF u = t THEN None ELSE aw[u]]
  BY <1>2, KernelToSet DEF Kernel!Hand
<1>7. /\ submits' = [b \in Context |-> IF b = c THEN 0 ELSE sub[b]]
      /\ owed' = [b \in Context |-> IF b = c THEN ow[b] - sub[b] ELSE ow[b]]
  BY <1>2, KernelToSet DEF Kernel!Hand, Kernel!DataNum
<1> HIDE DEF c
<1>8. /\ state' = [st EXCEPT ![t] = "ACTIVE"] /\ awaiting' = [aw EXCEPT ![t] = None]
      /\ submits' = [sub EXCEPT ![c] = 0] /\ owed' = [ow EXCEPT ![c] = @ - sub[c]]
  BY <1>4, <1>6, <1>7
<1> QED
  BY <1>4, <1>5, <1>8 DEF HandsOver, c

\* The types that the invariant gives to the kernel's state
LEMMA KernelTypes ==
  ASSUME KernelInv
  PROVE  /\ Rec \in Receiver /\ Receiver = {Rec} /\ None # Rec
         /\ state \in [Thread -> Kernel!ThreadState]
         /\ awaiting \in [Thread -> Receiver \cup {None}]
         /\ killing \in [Thread -> Context \cup {None}]
         /\ receiver \in [Context -> Receiver \cup {None}]
         /\ \A c \in Context : receiver[c] # None <=> receiver[c] = Rec
         /\ submits \in [Context -> 0 .. MaxSubmits] /\ owed = submits
         /\ submits \in [Context -> Nat]
         /\ ack \subseteq Context /\ killed \subseteq Context
         /\ killer \in [Context -> Thread \cup {None}]
         /\ handlers \in [Receiver -> Seq(Thread)] /\ handlers[Rec] \in Seq(Thread)
         /\ deliver \in [Receiver -> Seq(Context)] /\ deliver[Rec] \in Seq(Context)
         /\ ~halted /\ cancelNext = {}
<1>1. Rec \in Receiver /\ Receiver = {Rec} /\ None # Rec
  BY EntrypointAssumption DEF Receiver
<1>2. MaxSubmits \in Nat
  BY EntrypointAssumption
<1>3. Kernel!TypeOK /\ ~halted /\ cancelNext = {} /\ owed = submits
  BY DEF KernelInv
<1>4. submits \in [Context -> 0 .. MaxSubmits]
  BY <1>3 DEF Kernel!TypeOK
<1>5. submits \in [Context -> Nat]
  BY <1>2, <1>4
<1>6. receiver \in [Context -> Receiver \cup {None}]
  BY <1>3 DEF Kernel!TypeOK
<1>7. \A c \in Context : receiver[c] # None <=> receiver[c] = Rec
  BY <1>1, <1>6
<1>8. handlers \in [Receiver -> Seq(Thread)] /\ deliver \in [Receiver -> Seq(Context)]
  BY <1>3 DEF Kernel!TypeOK
<1>9. handlers[Rec] \in Seq(Thread) /\ deliver[Rec] \in Seq(Context)
  BY <1>1, <1>8
<1> QED
  BY <1>1, <1>3, <1>4, <1>5, <1>6, <1>7, <1>8, <1>9 DEF Kernel!TypeOK

KillSame == UNCHANGED <<killing, cancelNext, receiver, killed, killer>>

\* The queue of deliverable contexts d fits the submits and acknowledgements.
QueueFits(d, sub, ak) ==
  /\ d \in Seq(Context) /\ Distinct(d)
  /\ sub \in [Context -> 0 .. MaxSubmits] /\ ak \subseteq Context
  /\ \A c \in Context : c \in ToSet(d) <=> receiver[c] = Rec /\ c \in ak /\ sub[c] > 0
  /\ \A c \in Context : receiver[c] = None => sub[c] = 0 /\ c \in ak \ killed

\* A kernel call that hands out nothing and leaves the threads alone
LEMMA NothingKeeps ==
  ASSUME KernelInv, HandlerInv, NEW d, NEW sub, NEW ak, QueueFits(d, sub, ak),
         handlers[Rec] # <<>> => d = <<>>,
         HandsNothing(d, handlers[Rec], state, awaiting, sub, ak, sub), KillSame
  PROVE  /\ KernelInv' /\ HandlerInv'
         /\ UNCHANGED <<state, awaiting>> /\ handlers'[Rec] = handlers[Rec]
         /\ submits' = sub /\ ack' = ak
<1>1. sub \in [Context -> Nat]
  BY EntrypointAssumption DEF QueueFits
<1>2. Kernel!TypeOK'
  BY <1>1, KernelTypes DEF Kernel!TypeOK, QueueFits, HandsNothing, KillSame
<1>3. KernelInv'
  BY <1>2, KernelTypes DEF KernelInv, QueueFits, HandsNothing, KillSame
<1>4. HandlerInv'
  BY DEF HandlerInv, HandsNothing
<1> QED
  BY <1>3, <1>4 DEF HandsNothing

\* Context c is handed to the thread t.
HandedTo(t, c) ==
  /\ state' = [state EXCEPT ![t] = "ACTIVE"]
  /\ awaiting' = [awaiting EXCEPT ![t] = None]
  /\ handlers'[Rec] = <<>>
  /\ submits' = [submits EXCEPT ![c] = 0]
  /\ ack' = ack \ {c}

\* A kernel call that hands the first deliverable context to the only handler
LEMMA OverKeeps ==
  ASSUME KernelInv, HandlerInv, NEW d, NEW sub, NEW ak, NEW t \in Thread, NEW st, NEW aw, NEW c,
         QueueFits(d, sub, ak), d # <<>>, c = Head(d),
         st \in [Thread -> Kernel!ThreadState], st[t] = "AWAITS_SIGNAL",
         aw \in [Thread -> Receiver \cup {None}],
         \A u \in Thread : u # t => st[u] = state[u] /\ aw[u] = awaiting[u] /\ state[u] # "AWAITS_SIGNAL",
         \A b \in Context : b # c => sub[b] = submits[b],
         ak \ {c} = ack \ {c},
         HandsOver(t, c, Tail(d), st, aw, sub, ak, sub), KillSame
  PROVE  KernelInv' /\ HandlerInv' /\ HandedTo(t, c)
<1>1. sub \in [Context -> Nat] /\ d \in Seq(Context) /\ Distinct(d)
  BY EntrypointAssumption DEF QueueFits
<1>2. /\ c \in Context /\ c \in ToSet(d)
      /\ Tail(d) \in Seq(Context) /\ Distinct(Tail(d))
      /\ \A u : u \in ToSet(Tail(d)) <=> u \in ToSet(d) /\ u # c
  BY <1>1, TailElements
<1>3. /\ state' = [state EXCEPT ![t] = "ACTIVE"]
      /\ awaiting' = [awaiting EXCEPT ![t] = None]
  <2>1. state \in [Thread -> Kernel!ThreadState] /\ awaiting \in [Thread -> Receiver \cup {None}]
    BY KernelTypes
  <2>2. state' = [st EXCEPT ![t] = "ACTIVE"] /\ awaiting' = [aw EXCEPT ![t] = None]
    BY DEF HandsOver
  <2> QED
    BY <2>1, <2>2
<1>4. submits' = [submits EXCEPT ![c] = 0] /\ owed' = submits' /\ ack' = ack \ {c}
  <2>1. submits \in [Context -> Nat]
    BY KernelTypes
  <2>2. submits' = [sub EXCEPT ![c] = 0] /\ owed' = [sub EXCEPT ![c] = @ - sub[c]] /\ ack' = ak \ {c}
    BY DEF HandsOver
  <2>3. sub[c] \in Nat /\ sub[c] - sub[c] = 0
    BY <1>1, <1>2
  <2>4. submits' = [submits EXCEPT ![c] = 0]
    BY <2>1, <2>2, <1>1, <1>2
  <2>5. owed' = [sub EXCEPT ![c] = 0]
    BY <2>2, <2>3
  <2> QED
    BY <2>2, <2>4, <2>5
<1>5. /\ submits' \in [Context -> 0 .. MaxSubmits] /\ submits' \in [Context -> Nat]
      /\ submits'[c] = 0
      /\ \A b \in Context : b # c => submits'[b] = sub[b]
  BY <1>2, <1>4, KernelTypes, EntrypointAssumption
<1>6. "ACTIVE" \in Kernel!ThreadState
  BY DEF Kernel!ThreadState
<1>7. Kernel!TypeOK'
  <2>1. state' \in [Thread -> Kernel!ThreadState] /\ awaiting' \in [Thread -> Receiver \cup {None}]
    BY <1>3, <1>6, KernelTypes
  <2>2. submits' \in [Context -> 0 .. MaxSubmits] /\ owed' \in [Context -> Nat] /\ ack' \subseteq Context
    BY <1>4, <1>5, KernelTypes
  <2>3. /\ handlers' \in [Receiver -> Seq(Thread)] /\ deliver' \in [Receiver -> Seq(Context)]
        /\ halted' \in BOOLEAN
    BY DEF HandsOver
  <2>4. /\ killing' \in [Thread -> Context \cup {None}] /\ cancelNext' \subseteq Thread
        /\ receiver' \in [Context -> Receiver \cup {None}] /\ killed' \subseteq Context
        /\ killer' \in [Context -> Thread \cup {None}]
    BY KernelTypes DEF KillSame
  <2> QED
    BY <2>1, <2>2, <2>3, <2>4 DEF Kernel!TypeOK
<1>8. \A b \in Context :
        b \in ToSet(deliver'[Rec]) <=> receiver'[b] = Rec /\ b \in ack' /\ submits'[b] > 0
  BY <1>1, <1>2, <1>4, <1>5 DEF QueueFits, HandsOver, KillSame
<1>9. \A b \in Context : receiver'[b] = None => submits'[b] = 0 /\ b \in ack' \ killed'
  BY <1>2, <1>4, <1>5, KernelTypes DEF QueueFits, KillSame
<1>10. KernelInv'
  BY <1>2, <1>4, <1>7, <1>8, <1>9 DEF KernelInv, HandsOver, KillSame
<1>11. HandlerInv'
  <2>1. handlers'[Rec] = <<>> /\ \A u : <<u>> # <<>>
    BY DEF HandsOver
  <2>2. \A u \in Thread : state'[u] \in {"ACTIVE", "AWAITS_SIGNAL_CONTEXT_KILL"}
    BY <1>3, KernelTypes DEF HandlerInv
  <2>3. \A u \in Thread : awaiting'[u] = None
    BY <1>3, KernelTypes DEF HandlerInv
  <2> QED
    BY <2>1, <2>2, <2>3 DEF HandlerInv
<1> QED
  BY <1>3, <1>4, <1>10, <1>11 DEF HandedTo, HandsOver

\* Signal_context::_deliverable of a context c with the submits sub and the
\* acknowledgements ak: the context is handed to the handler, if there is one.
LEMMA DeliverableEffect ==
  ASSUME KernelInv, HandlerInv, NEW c \in Context, receiver[c] # None, c \notin killed,
         NEW sub \in [Context -> 0 .. MaxSubmits], sub[c] >= submits[c],
         \A b \in Context : b # c => sub[b] = submits[b],
         NEW ak, ak = ack \/ ak = ack \cup {c},
         Kernel!Deliverable(c, c \in ak, sub, ak, sub), KillSame
  PROVE  /\ KernelInv' /\ HandlerInv'
         /\ \/ /\ UNCHANGED <<state, awaiting>> /\ handlers'[Rec] = handlers[Rec]
               /\ submits' = sub /\ ack' = ak
            \/ \E t \in Thread :
                 handlers[Rec] = <<t>> /\ c \in ak /\ sub[c] > 0 /\ HandedTo(t, c)
<1>1. receiver[c] = Rec /\ submits[c] \in Nat /\ sub[c] \in Nat
  BY KernelTypes, EntrypointAssumption
<1>2. /\ sub \in [Context -> Nat] /\ ak \subseteq Context
      /\ \A b \in Context : b # c => (b \in ak <=> b \in ack)
      /\ ak \ {c} = ack \ {c}
  BY KernelTypes, EntrypointAssumption
<1>3. /\ \A b \in Context : b \in ToSet(deliver[Rec]) <=> receiver[b] = Rec /\ b \in ack /\ submits[b] > 0
      /\ \A b \in Context : receiver[b] = None => submits[b] = 0 /\ b \in ack \ killed
      /\ Distinct(deliver[Rec])
  BY DEF KernelInv
<1>4. handlers[Rec] # <<>> => deliver[Rec] = <<>>
  BY DEF HandlerInv
<1>5. CASE ~(c \in ak /\ sub[c] > 0)
  <2>1. Kernel!Hand(Rec, 0, deliver[Rec], handlers[Rec], state, awaiting, sub, ak, sub)
    BY <1>1, <1>5 DEF Kernel!Deliverable
  <2>2. HandsNothing(deliver[Rec], handlers[Rec], state, awaiting, sub, ak, sub)
    BY <2>1, <1>2, KernelTypes, HandZero
  <2>3. c \notin ToSet(deliver[Rec])
    BY <1>1, <1>3, <1>5
  <2>4. QueueFits(deliver[Rec], sub, ak)
    BY <1>1, <1>2, <1>3, <1>5, <2>3, KernelTypes DEF QueueFits
  <2> QED
    BY <1>4, <2>2, <2>4, NothingKeeps
<1>6. CASE c \in ak /\ sub[c] > 0 /\ handlers[Rec] = <<>>
  <2> DEFINE d == Kernel!Added(deliver[Rec], c)
  <2>1. /\ d \in Seq(Context) /\ Distinct(d)
        /\ \A u : u \in ToSet(d) <=> u \in ToSet(deliver[Rec]) \/ u = c
    <3>1. deliver[Rec] \in Seq(Context)
      BY KernelTypes
    <3>2. CASE c \in ToSet(deliver[Rec])
      BY <1>3, <3>1, <3>2, KernelToSet DEF Kernel!Added
    <3>3. CASE c \notin ToSet(deliver[Rec])
      BY <1>3, <3>1, <3>3, KernelToSet, AppendedElements DEF Kernel!Added
    <3> QED
      BY <3>2, <3>3
  <2>2. Kernel!Hand(Rec, Kernel!Pairs(d, <<>>), d, <<>>, state, awaiting, sub, ak, sub)
    BY <1>1, <1>6 DEF Kernel!Deliverable
  <2> HIDE DEF d
  <2>3. Kernel!Pairs(d, <<>>) = 0 /\ <<>> \in Seq(Thread)
    BY <2>1 DEF Kernel!Pairs
  <2>4. HandsNothing(d, <<>>, state, awaiting, sub, ak, sub)
    BY <2>1, <2>2, <2>3, <1>2, KernelTypes, HandZero
  <2>5. QueueFits(d, sub, ak)
    BY <2>1, <1>1, <1>2, <1>3, <1>6, KernelTypes DEF QueueFits
  <2> QED
    BY <1>6, <2>4, <2>5, NothingKeeps
<1>7. CASE c \in ak /\ sub[c] > 0 /\ handlers[Rec] # <<>>
  <2>1. PICK t \in Thread : handlers[Rec] = <<t>> /\ deliver[Rec] = <<>> /\ state[t] = "AWAITS_SIGNAL"
    BY <1>7 DEF HandlerInv
  <2>2. \A u \in Thread : u # t => state[u] # "AWAITS_SIGNAL"
    BY <2>1 DEF HandlerInv
  <2> DEFINE d == <<c>>
  <2>3. Kernel!Added(deliver[Rec], c) = d
    <3>1. c \notin ToSet(deliver[Rec]) /\ Append(<<>>, c) = <<c>>
      BY <2>1 DEF ToSet
    <3> QED
      BY <2>1, <3>1, KernelToSet DEF Kernel!Added
  <2>4. /\ d \in Seq(Context) /\ d # <<>> /\ Len(d) = 1 /\ Head(d) = c /\ Distinct(d)
        /\ \A u : u \in ToSet(d) <=> u = c
    BY DEF ToSet, Distinct
  <2>5. Kernel!Pairs(d, <<t>>) = 1
    BY <2>4 DEF Kernel!Pairs
  <2>6. Kernel!Hand(Rec, Kernel!Pairs(d, <<t>>), d, <<t>>, state, awaiting, sub, ak, sub)
    BY <1>1, <1>7, <2>1, <2>3 DEF Kernel!Deliverable
  <2>7. \A b \in Context : ~(receiver[b] = Rec /\ b \in ack /\ submits[b] > 0)
    BY <2>1, <1>3 DEF ToSet
  <2> HIDE DEF d
  <2>8. QueueFits(d, sub, ak)
    BY <2>4, <2>7, <1>1, <1>2, <1>3, <1>7, KernelTypes DEF QueueFits
  <2>9. HandsOver(t, c, Tail(d), state, awaiting, sub, ak, sub)
    BY <2>4, <2>5, <2>6, <1>2, KernelTypes, HandOne
  <2>10. \A u \in Thread : u # t =>
           state[u] = state[u] /\ awaiting[u] = awaiting[u] /\ state[u] # "AWAITS_SIGNAL"
    BY <2>2
  <2>11. /\ state \in [Thread -> Kernel!ThreadState] /\ awaiting \in [Thread -> Receiver \cup {None}]
         /\ c = Head(d) /\ d # <<>>
    BY <2>4, KernelTypes
  <2>12. KernelInv' /\ HandlerInv' /\ HandedTo(t, c)
    BY <2>1, <2>8, <2>9, <2>10, <2>11, <1>2, OverKeeps
  <2> QED
    BY <2>1, <2>12, <1>7
<1> QED
  BY <1>5, <1>6, <1>7

\* What a submit of context c does
SubmitOutcome(c) ==
  \/ /\ UNCHANGED <<state, awaiting, ack>> /\ handlers'[Rec] = handlers[Rec]
     /\ submits' = [submits EXCEPT ![c] = @ + 1]
  \/ \E t \in Thread : handlers[Rec] = <<t>> /\ c \in ack /\ HandedTo(t, c)

LEMMA SubmitEffect ==
  ASSUME KernelInv, HandlerInv, NEW c \in Context, Kernel!Submit(c, 1)
  PROVE  /\ KernelInv' /\ HandlerInv' /\ KillSame
         /\ receiver[c] # None /\ c \notin killed
         /\ SubmitOutcome(c)
<1> DEFINE sub == [submits EXCEPT ![c] = @ + 1]
<1>1. /\ receiver[c] # None /\ c \notin killed /\ submits[c] + 1 < MaxSubmits /\ KillSame
      /\ Kernel!Deliverable(c, c \in ack, sub, ack, [owed EXCEPT ![c] = @ + 1])
  BY DEF Kernel!Submit, Kernel!CanSubmit, Kernel!Alive, Kernel!killVars, KillSame
<1>2. submits[c] \in Nat /\ MaxSubmits \in Nat
  BY KernelTypes, EntrypointAssumption
<1>3. /\ sub \in [Context -> 0 .. MaxSubmits] /\ sub[c] >= submits[c]
      /\ \A b \in Context : b # c => sub[b] = submits[b]
  BY <1>1, <1>2, KernelTypes
<1>4. sub = [owed EXCEPT ![c] = @ + 1]
  BY KernelTypes
<1>5. Kernel!Deliverable(c, c \in ack, sub, ack, sub)
  BY <1>1, <1>4
<1> HIDE DEF sub
<1>6. /\ KernelInv' /\ HandlerInv'
      /\ \/ /\ UNCHANGED <<state, awaiting>> /\ handlers'[Rec] = handlers[Rec]
            /\ submits' = sub /\ ack' = ack
         \/ \E t \in Thread :
              handlers[Rec] = <<t>> /\ c \in ack /\ sub[c] > 0 /\ HandedTo(t, c)
  BY <1>1, <1>3, <1>5, DeliverableEffect
<1> QED
  BY <1>1, <1>6 DEF SubmitOutcome, sub

\* What an acknowledgement of context c does
AckOutcome(c) ==
  \/ /\ UNCHANGED <<state, awaiting, submits>> /\ handlers'[Rec] = handlers[Rec]
     /\ ack' = ack \cup {c}
  \/ \E t \in Thread : handlers[Rec] = <<t>> /\ submits[c] > 0 /\ HandedTo(t, c)

LEMMA AckEffect ==
  ASSUME KernelInv, HandlerInv, NEW c \in Context, Kernel!AckSignal(c)
  PROVE  /\ KernelInv' /\ HandlerInv' /\ KillSame
         /\ receiver[c] # None /\ c \notin killed /\ c \notin ack
         /\ AckOutcome(c)
<1> DEFINE ak == ack \cup {c}
<1>1. /\ receiver[c] # None /\ c \notin killed /\ c \notin ack /\ KillSame
      /\ Kernel!Deliverable(c, TRUE, submits, ak, owed)
  BY DEF Kernel!AckSignal, Kernel!Alive, Kernel!killVars, KillSame
<1>2. /\ submits \in [Context -> 0 .. MaxSubmits] /\ submits[c] >= submits[c]
      /\ \A b \in Context : b # c => submits[b] = submits[b]
  BY KernelTypes
<1>3. (c \in ak) = TRUE
  OBVIOUS
<1>4. Kernel!Deliverable(c, c \in ak, submits, ak, submits)
  BY <1>1, <1>3, KernelTypes
<1>5. ak = ack \/ ak = ack \cup {c}
  OBVIOUS
<1> HIDE DEF ak
<1>6. /\ KernelInv' /\ HandlerInv'
      /\ \/ /\ UNCHANGED <<state, awaiting>> /\ handlers'[Rec] = handlers[Rec]
            /\ submits' = submits /\ ack' = ak
         \/ \E t \in Thread :
              handlers[Rec] = <<t>> /\ c \in ak /\ submits[c] > 0 /\ HandedTo(t, c)
  BY <1>1, <1>2, <1>4, <1>5, DeliverableEffect
<1> QED
  BY <1>1, <1>6 DEF AckOutcome, ak

\* A context that can be delivered is handed to thread t.
Obtains(t) ==
  \E c \in Context :
    receiver[c] # None /\ c \in ack /\ submits[c] > 0 /\ HandedTo(t, c)

\* What the queue promises of its first context
LEMMA FirstDeliverable ==
  ASSUME KernelInv, deliver[Rec] # <<>>
  PROVE  LET c == Head(deliver[Rec]) IN
         c \in Context /\ receiver[c] # None /\ c \in ack /\ submits[c] > 0
<1>1. deliver[Rec] \in Seq(Context) /\ Distinct(deliver[Rec])
  BY KernelTypes DEF KernelInv
<1>2. Head(deliver[Rec]) \in Context /\ Head(deliver[Rec]) \in ToSet(deliver[Rec])
  BY <1>1, TailElements
<1> QED
  BY <1>2, KernelTypes DEF KernelInv

\* The queue of deliverable contexts fits the state of the contexts.
LEMMA DeliverFits ==
  ASSUME KernelInv
  PROVE  QueueFits(deliver[Rec], submits, ack)
BY KernelTypes DEF QueueFits, KernelInv

\* The only handler t that registers itself is served if there is something to deliver.
LEMMA RegisterEffect ==
  ASSUME KernelInv, HandlerInv, NEW t \in Thread, handlers[Rec] = <<>>, deliver[Rec] # <<>>,
         NEW st, NEW aw, st \in [Thread -> Kernel!ThreadState], st[t] = "AWAITS_SIGNAL",
         \A u \in Thread : u # t => st[u] = state[u],
         aw \in [Thread -> Receiver \cup {None}], \A u \in Thread : u # t => aw[u] = awaiting[u],
         Kernel!Hand(Rec, 1, deliver[Rec], <<t>>, st, aw, submits, ack, owed), KillSame
  PROVE  KernelInv' /\ HandlerInv' /\ Obtains(t)
<1> DEFINE c == Head(deliver[Rec])
           d == deliver[Rec]
<1>1. c \in Context /\ receiver[c] # None /\ c \in ack /\ submits[c] > 0
  BY FirstDeliverable
<1>2. QueueFits(d, submits, ack)
  BY DeliverFits
<1>3. \A u \in Thread : state[u] # "AWAITS_SIGNAL"
  <2>1. \A u : <<u>> # <<>>
    OBVIOUS
  <2> QED
    BY <2>1 DEF HandlerInv
<1>4. HandsOver(t, c, Tail(d), st, aw, submits, ack, owed)
  BY KernelTypes, HandOne
<1>5. HandsOver(t, c, Tail(d), st, aw, submits, ack, submits)
  BY <1>4, KernelTypes
<1>6. \A u \in Thread : u # t => st[u] = state[u] /\ aw[u] = awaiting[u] /\ state[u] # "AWAITS_SIGNAL"
  BY <1>3
<1> DEFINE sub == submits
           ak  == ack
<1>7. /\ QueueFits(d, sub, ak) /\ d # <<>> /\ c = Head(d) /\ ak \ {c} = ack \ {c}
      /\ \A b \in Context : b # c => sub[b] = submits[b]
      /\ HandsOver(t, c, Tail(d), st, aw, sub, ak, sub)
  BY <1>2, <1>5
<1> HIDE DEF c, d, sub, ak
<1>8. KernelInv' /\ HandlerInv' /\ HandedTo(t, c)
  BY <1>6, <1>7, OverKeeps
<1> QED
  BY <1>1, <1>8 DEF Obtains

LEMMA AwaitEffect ==
  ASSUME KernelInv, HandlerInv, NEW t \in Thread, handlers[Rec] = <<>>,
         Kernel!AwaitSignal(t, Rec)
  PROVE  /\ KernelInv' /\ HandlerInv' /\ KillSame /\ state[t] = "ACTIVE"
         /\ \/ /\ state' = [state EXCEPT ![t] = "AWAITS_SIGNAL"]
               /\ handlers'[Rec] = <<t>> /\ UNCHANGED <<submits, ack>>
            \/ Obtains(t)
<1> DEFINE d  == deliver[Rec]
           st == [state EXCEPT ![t] = "AWAITS_SIGNAL"]
           aw == [awaiting EXCEPT ![t] = Rec]
<1>1. Append(<<>>, t) = <<t>> /\ <<t>> \in Seq(Thread) /\ Len(<<t>>) = 1 /\ <<t>> # <<>>
  OBVIOUS
<1>2. /\ state[t] = "ACTIVE" /\ KillSame
      /\ Kernel!Hand(Rec, Kernel!Pairs(d, <<t>>), d, <<t>>, st, aw, submits, ack, owed)
  BY <1>1 DEF Kernel!AwaitSignal, Kernel!killVars, KillSame
<1>3. "AWAITS_SIGNAL" \in Kernel!ThreadState
  BY DEF Kernel!ThreadState
<1>4. /\ st \in [Thread -> Kernel!ThreadState]
      /\ aw \in [Thread -> Receiver \cup {None}]
      /\ st[t] = "AWAITS_SIGNAL" /\ aw[t] = Rec
      /\ \A u \in Thread : u # t => st[u] = state[u] /\ aw[u] = awaiting[u]
  BY <1>3, KernelTypes
<1>5. d \in Seq(Context)
  BY KernelTypes
<1>6. \A u \in Thread : state[u] # "AWAITS_SIGNAL" /\ awaiting[u] = None
  <2>1. \A u : <<u>> # <<>>
    OBVIOUS
  <2> QED
    BY <2>1 DEF HandlerInv
<1>7. CASE d = <<>>
  <2>1. Kernel!Pairs(d, <<t>>) = 0
    BY <1>7 DEF Kernel!Pairs
  <2> HIDE DEF st, aw, d
  <2>2. HandsNothing(d, <<t>>, st, aw, submits, ack, owed)
    BY <1>1, <1>2, <1>4, <1>5, <2>1, KernelTypes, HandZero
  <2>3. Kernel!TypeOK'
    BY <1>1, <1>2, <1>4, <2>2, KernelTypes DEF Kernel!TypeOK, HandsNothing, KillSame
  <2>4. KernelInv'
    BY <1>2, <2>2, <2>3, KernelTypes DEF KernelInv, HandsNothing, KillSame, d
  <2>5. HandlerInv'
    <3>1. state' = st /\ awaiting' = aw /\ handlers'[Rec] = <<t>> /\ deliver'[Rec] = <<>>
      BY <2>2, <1>7 DEF HandsNothing
    <3>2. \A u, v : <<u>> = <<v>> <=> u = v
      OBVIOUS
    <3>3. \A u \in Thread : st[u] \in {"ACTIVE", "AWAITS_SIGNAL", "AWAITS_SIGNAL_CONTEXT_KILL"}
      BY <1>4 DEF HandlerInv
    <3>4. \A u \in Thread : st[u] = "AWAITS_SIGNAL" <=> u = t
      BY <1>4, <1>6
    <3>5. \A u \in Thread : aw[u] # None <=> u = t
      BY <1>4, <1>6, KernelTypes
    <3> QED
      BY <3>1, <3>2, <3>3, <3>4, <3>5 DEF HandlerInv
  <2> QED
    BY <1>2, <2>2, <2>4, <2>5 DEF HandsNothing, st
<1>8. CASE d # <<>>
  <2>1. Kernel!Pairs(d, <<t>>) = 1
    <3>1. Len(d) \in Nat /\ Len(d) # 0
      BY <1>5, <1>8
    <3> QED
      BY <1>1, <3>1 DEF Kernel!Pairs
  <2>2. Kernel!Hand(Rec, 1, d, <<t>>, st, aw, submits, ack, owed)
    BY <1>2, <2>1
  <2> HIDE DEF st, aw
  <2>4. KernelInv' /\ HandlerInv' /\ Obtains(t)
    BY <1>2, <1>4, <1>8, <2>2, RegisterEffect
  <2> QED
    BY <1>2, <2>4
<1> QED
  BY <1>7, <1>8

\* The poll by pending_signal never blocks.
LEMMA PollEffect ==
  ASSUME KernelInv, HandlerInv, NEW t \in Thread, Kernel!PendingSignal(t, Rec)
  PROVE  /\ KernelInv' /\ HandlerInv' /\ KillSame /\ state[t] = "ACTIVE"
         /\ \/ /\ UNCHANGED <<state, awaiting, submits, ack>>
               /\ handlers'[Rec] = handlers[Rec]
            \/ Obtains(t)
<1> DEFINE d  == deliver[Rec]
           hs == handlers[Rec]
           st == [state EXCEPT ![t] = "AWAITS_SIGNAL"]
<1>1. d \in Seq(Context) /\ hs \in Seq(Thread) /\ Len(d) \in Nat /\ Len(hs) \in Nat
  BY KernelTypes
<1>2. state[t] = "ACTIVE" /\ awaiting[t] = None /\ KillSame
  BY DEF Kernel!PendingSignal, Kernel!killVars, KillSame
<1>3. CASE ~(Len(d) > Len(hs))
  <2>1. Kernel!Hand(Rec, Kernel!Pairs(d, hs), d, hs, state, awaiting, submits, ack, owed)
    BY <1>3 DEF Kernel!PendingSignal
  <2>2. d = <<>>
    <3>1. CASE hs = <<>>
      BY <1>1, <1>3, <3>1
    <3>2. CASE hs # <<>>
      BY <3>2 DEF HandlerInv
    <3> QED
      BY <3>1, <3>2
  <2>3. Kernel!Pairs(d, hs) = 0
    BY <1>1, <2>2 DEF Kernel!Pairs
  <2>4. HandsNothing(d, hs, state, awaiting, submits, ack, owed)
    BY <1>1, <2>1, <2>3, KernelTypes, HandZero
  <2>5. HandsNothing(d, hs, state, awaiting, submits, ack, submits)
    BY <2>4, KernelTypes
  <2>6. QueueFits(d, submits, ack)
    BY DeliverFits
  <2> QED
    BY <1>2, <2>2, <2>5, <2>6, NothingKeeps
<1>4. CASE Len(d) > Len(hs)
  <2>1. d # <<>> /\ hs = <<>>
    <3>1. d # <<>>
      BY <1>1, <1>4
    <3> QED
      BY <3>1 DEF HandlerInv
  <2>2. Append(hs, t) = <<t>> /\ Len(<<t>>) = 1
    BY <2>1
  <2>3. Kernel!Hand(Rec, Kernel!Pairs(d, <<t>>), d, <<t>>, st, awaiting, submits, ack, owed)
    BY <1>4, <2>2 DEF Kernel!PendingSignal
  <2>4. Kernel!Pairs(d, <<t>>) = 1
    <3>1. Len(d) # 0
      BY <1>1, <2>1
    <3> QED
      BY <1>1, <2>2, <3>1 DEF Kernel!Pairs
  <2>5. "AWAITS_SIGNAL" \in Kernel!ThreadState
    BY DEF Kernel!ThreadState
  <2>6. /\ st \in [Thread -> Kernel!ThreadState] /\ st[t] = "AWAITS_SIGNAL"
        /\ \A u \in Thread : u # t => st[u] = state[u]
    BY <2>5, KernelTypes
  <2> DEFINE aw == awaiting
  <2>7. /\ aw \in [Thread -> Receiver \cup {None}]
        /\ \A u \in Thread : u # t => aw[u] = awaiting[u]
        /\ Kernel!Hand(Rec, 1, d, <<t>>, st, aw, submits, ack, owed)
    BY <2>3, <2>4, KernelTypes
  <2> HIDE DEF st, aw
  <2>8. KernelInv' /\ HandlerInv' /\ Obtains(t)
    BY <1>2, <2>1, <2>6, <2>7, RegisterEffect
  <2> QED
    BY <1>2, <2>8
<1> QED
  BY <1>3, <1>4

\* The killer of a context goes on when the context is acknowledged.
LEMMA AckKilledEffect ==
  ASSUME KernelInv, HandlerInv, NEW c \in Context,
         killer[c] # None => state[killer[c]] = "AWAITS_SIGNAL_CONTEXT_KILL",
         Kernel!AckKilled(c)
  PROVE  /\ KernelInv' /\ HandlerInv'
         /\ c \in killed /\ killer[c] # None
         /\ state' = [state EXCEPT ![killer[c]] = "ACTIVE"]
         /\ killer' = [killer EXCEPT ![c] = None]
         /\ UNCHANGED <<receiver, submits, ack, killed>> /\ handlers'[Rec] = handlers[Rec]
<1>1. /\ c \in killed /\ killer[c] # None
      /\ halted' = (state[killer[c]] # "AWAITS_SIGNAL_CONTEXT_KILL")
      /\ killing' = [killing EXCEPT ![killer[c]] = None]
      /\ state' = [state EXCEPT ![killer[c]] = "ACTIVE"]
      /\ killer' = [killer EXCEPT ![c] = None]
      /\ UNCHANGED <<awaiting, cancelNext, receiver, submits, ack, killed, handlers, deliver, owed>>
  BY DEF Kernel!AckKilled
<1>2. killer[c] \in Thread
  BY <1>1, KernelTypes
<1>3. "ACTIVE" \in Kernel!ThreadState
  BY DEF Kernel!ThreadState
<1>4. Kernel!TypeOK'
  BY <1>1, <1>2, <1>3, KernelTypes DEF Kernel!TypeOK
<1>5. KernelInv'
  BY <1>1, <1>4, KernelTypes DEF KernelInv
<1>6. HandlerInv'
  BY <1>1, <1>2, KernelTypes DEF HandlerInv
<1> QED
  BY <1>1, <1>5, <1>6

LEMMA KillEffect ==
  ASSUME KernelInv, HandlerInv, NEW t \in Thread, NEW c \in Context, Kernel!KillContext(t, c)
  PROVE  /\ KernelInv' /\ HandlerInv'
         /\ state[t] = "ACTIVE"
         /\ killed' = killed \cup {c}
         /\ UNCHANGED <<receiver, submits, ack>> /\ handlers'[Rec] = handlers[Rec]
         /\ c \in ack => UNCHANGED <<state, killer>>
         /\ c \notin ack => /\ state' = [state EXCEPT ![t] = "AWAITS_SIGNAL_CONTEXT_KILL"]
                            /\ killer' = [killer EXCEPT ![c] = t]
<1>1. /\ state[t] = "ACTIVE" /\ receiver[c] # None
      /\ killed' = killed \cup {c}
      /\ UNCHANGED <<awaiting, cancelNext, receiver, submits, ack, handlers, deliver, owed, halted>>
      /\ c \in ack => UNCHANGED <<state, killing, killer>>
      /\ c \notin ack => /\ state' = [state EXCEPT ![t] = "AWAITS_SIGNAL_CONTEXT_KILL"]
                         /\ killing' = [killing EXCEPT ![t] = c]
                         /\ killer' = [killer EXCEPT ![c] = t]
  BY DEF Kernel!KillContext, Kernel!KillsDirectly, Kernel!Alive
<1>2. "AWAITS_SIGNAL_CONTEXT_KILL" \in Kernel!ThreadState
  BY DEF Kernel!ThreadState
<1>3. Kernel!TypeOK'
  <2>1. state' \in [Thread -> Kernel!ThreadState]
    BY <1>1, <1>2, KernelTypes
  <2>2. killing' \in [Thread -> Context \cup {None}] /\ killer' \in [Context -> Thread \cup {None}]
    <3>1. killing \in [Thread -> Context \cup {None}] /\ killer \in [Context -> Thread \cup {None}]
      BY KernelTypes
    <3>2. CASE c \in ack
      BY <1>1, <3>1, <3>2
    <3>3. CASE c \notin ack
      BY <1>1, <3>1, <3>3
    <3> QED
      BY <3>2, <3>3
  <2>3. halted' \in BOOLEAN /\ cancelNext' \subseteq Thread /\ killed' \subseteq Context
    BY <1>1 DEF KernelInv, Kernel!TypeOK
  <2> QED
    BY <1>1, <2>1, <2>2, <2>3, KernelTypes DEF Kernel!TypeOK
<1>4. KernelInv'
  BY <1>1, <1>3, KernelTypes DEF KernelInv
<1>5. HandlerInv'
  BY <1>1, KernelTypes DEF HandlerInv
<1> QED
  BY <1>1, <1>4, <1>5

LEMMA DeleteEffect ==
  ASSUME KernelInv, HandlerInv, NEW c \in Context, killer[c] = None, Kernel!DeleteContext(c)
  PROVE  /\ KernelInv' /\ HandlerInv'
         /\ receiver[c] # None
         /\ receiver' = [receiver EXCEPT ![c] = None]
         /\ submits' = [submits EXCEPT ![c] = 0]
         /\ ack' = ack \cup {c} /\ killed' = killed \ {c}
         /\ UNCHANGED <<state, killer>> /\ handlers'[Rec] = handlers[Rec]
<1>1. /\ receiver[c] # None /\ killer[c] = None /\ halted' = FALSE
      /\ state' = [u \in Thread |-> IF u = killer[c] THEN "ACTIVE" ELSE state[u]]
      /\ deliver' = [deliver EXCEPT ![receiver[c]] = Kernel!Without(@, c)]
      /\ receiver' = [receiver EXCEPT ![c] = None]
      /\ submits' = [submits EXCEPT ![c] = 0]
      /\ owed' = [owed EXCEPT ![c] = 0]
      /\ ack' = ack \cup {c}
      /\ killed' = killed \ {c}
      /\ killer' = [killer EXCEPT ![c] = None]
      /\ UNCHANGED <<awaiting, killing, cancelNext, handlers>>
  BY DEF Kernel!DeleteContext, Kernel!Alive
<1>2. state' = state
  BY <1>1, KernelTypes, EntrypointAssumption
<1>3. /\ owed' = submits' /\ killer' = killer
      /\ submits' \in [Context -> 0 .. MaxSubmits] /\ owed' \in [Context -> Nat]
      /\ submits'[c] = 0 /\ \A b \in Context : b # c => submits'[b] = submits[b]
  BY <1>1, KernelTypes, EntrypointAssumption
<1>4. /\ deliver' \in [Receiver -> Seq(Context)] /\ Distinct(deliver'[Rec])
      /\ \A u : u \in ToSet(deliver'[Rec]) <=> u \in ToSet(deliver[Rec]) /\ u # c
  <2>1. deliver[Rec] \in Seq(Context) /\ Distinct(deliver[Rec])
    BY KernelTypes DEF KernelInv
  <2>2. Kernel!Without(deliver[Rec], c) = Without(deliver[Rec], c)
    BY KernelToSet, KernelRemoveAt DEF Kernel!Without, Without
  <2>3. deliver' = [deliver EXCEPT ![Rec] = Without(deliver[Rec], c)]
    BY <1>1, <2>2, KernelTypes
  <2>4. deliver'[Rec] = Without(deliver[Rec], c)
    BY <2>3, KernelTypes
  <2> QED
    BY <2>1, <2>3, <2>4, WithoutElements, KernelTypes
<1>5. Kernel!TypeOK'
  <2>1. receiver' \in [Context -> Receiver \cup {None}]
    BY <1>1, KernelTypes
  <2>2. ack' \subseteq Context /\ killed' \subseteq Context
    BY <1>1, KernelTypes
  <2>3. halted' \in BOOLEAN /\ cancelNext' \subseteq Thread
    BY <1>1, KernelTypes
  <2> QED
    BY <1>1, <1>2, <1>3, <1>4, <2>1, <2>2, <2>3, KernelTypes DEF Kernel!TypeOK
<1>6. KernelInv'
  BY <1>1, <1>2, <1>3, <1>4, <1>5, KernelTypes DEF KernelInv
<1>7. HandlerInv'
  <2>1. deliver[Rec] = <<>> => deliver'[Rec] = <<>>
    <3>1. deliver[Rec] = <<>> => Kernel!Without(deliver[Rec], c) = <<>>
      BY DEF Kernel!Without, Kernel!ToSet
    <3> QED
      BY <1>1, <3>1, KernelTypes
  <2> QED
    BY <1>1, <1>2, <2>1 DEF HandlerInv
<1> QED
  BY <1>1, <1>2, <1>3, <1>6, <1>7

LEMMA NewEffect ==
  ASSUME KernelInv, HandlerInv, NEW c \in Context, Kernel!NewContext(c, Rec)
  PROVE  /\ KernelInv' /\ HandlerInv'
         /\ receiver[c] = None
         /\ receiver' = [receiver EXCEPT ![c] = Rec]
         /\ UNCHANGED <<state, submits, ack, killed, killer, handlers>>
<1>1. /\ receiver[c] = None
      /\ receiver' = [receiver EXCEPT ![c] = Rec]
      /\ UNCHANGED <<state, awaiting, killing, cancelNext, submits, ack, killed, killer,
                     handlers, deliver, owed, halted>>
  BY DEF Kernel!NewContext, Kernel!Alive, Kernel!threadVars
<1>2. Kernel!TypeOK'
  BY <1>1, KernelTypes DEF Kernel!TypeOK, KernelInv
<1>3. submits[c] = 0
  BY <1>1 DEF KernelInv
<1>4. KernelInv'
  BY <1>1, <1>2, <1>3, KernelTypes DEF KernelInv
<1>5. HandlerInv'
  BY <1>1 DEF HandlerInv
<1> QED
  BY <1>1, <1>4, <1>5

-----------------------------------------------------------------------------
(* The kernel as seen by the library *)

LEMMA CappedType ==
  /\ \A n \in Nat : Capped(n) \in 0 .. MaxNum
  /\ \A n \in Nat : n > 0 => Capped(n) \in 1 .. MaxNum
BY EntrypointAssumption DEF Capped

LEMMA HandedOne ==
  ASSUME KernelInv, NEW t \in Thread, NEW c \in Context, HandedTo(t, c), receiver' = receiver,
         receiver[c] # None, c \in ack \/ submits[c] > 0
  PROVE  Handed = {c}
<1>1. submits' = [submits EXCEPT ![c] = 0] /\ ack' = ack \ {c}
  BY DEF HandedTo
<1>2. submits \in [Context -> Nat]
  BY KernelTypes
<1>3. c \in Handed
  BY <1>1, <1>2 DEF Handed
<1>4. \A x \in Handed : x = c
  BY <1>1, <1>2 DEF Handed
<1> QED
  BY <1>3, <1>4

LEMMA HandedNone ==
  ASSUME KernelInv, \A x \in Context : x \in ack => x \in ack',
         \A x \in Context : submits[x] > 0 => submits'[x] # 0
  PROVE  Handed = {}
BY DEF Handed

\* Context c arrives in the UTCB of thread t.
Arrives(t, c, utcbs) ==
  /\ HandedTo(t, c)
  /\ \E num \in 1 .. MaxNum :
       /\ utcb' = [utcbs EXCEPT ![t] = [context |-> c, num |-> num]]
       /\ sum' = [sum EXCEPT ![c] = Capped(@ + num)]

LEMMA ReceivesOne ==
  ASSUME KernelInv, NEW t \in Thread, NEW c \in Context, HandedTo(t, c), receiver' = receiver,
         receiver[c] # None, c \in ack \/ submits[c] > 0,
         NEW n \in Nat, submits[c] + n > 0, NEW utcbs, Receives(t, n, utcbs)
  PROVE  Arrives(t, c, utcbs)
<1>1. Handed = {c}
  BY HandedOne
<1>2. Handed # {} /\ (CHOOSE h \in Handed : TRUE) = c
  BY <1>1
<1>3. submits[c] + n \in Nat
  BY KernelTypes
<1>4. Capped(submits[c] + n) \in 1 .. MaxNum
  BY <1>3, CappedType
<1>5. /\ utcb' = [utcbs EXCEPT ![t] = [context |-> c, num |-> Capped(submits[c] + n)]]
      /\ sum' = [sum EXCEPT ![c] = Capped(@ + Capped(submits[c] + n))]
  BY <1>2 DEF Receives
<1> QED
  BY <1>4, <1>5 DEF Arrives

LEMMA LibSubmit ==
  ASSUME KernelInv, HandlerInv, NEW c \in Context, SubmitSignal(c)
  PROVE  /\ KernelInv' /\ HandlerInv' /\ KillSame
         /\ receiver[c] # None /\ c \notin killed
         /\ \/ /\ UNCHANGED <<state, ack, utcb, sum>> /\ handlers'[Rec] = handlers[Rec]
               /\ submits' = [submits EXCEPT ![c] = @ + 1]
            \/ \E t \in Thread : handlers[Rec] = <<t>> /\ c \in ack /\ Arrives(t, c, utcb)
<1>1. Kernel!Submit(c, 1) /\ Receives(Waiting, 1, utcb)
  BY DEF SubmitSignal
<1>2. /\ KernelInv' /\ HandlerInv' /\ KillSame /\ receiver[c] # None /\ c \notin killed
      /\ SubmitOutcome(c)
  BY <1>1, SubmitEffect
<1>3. ASSUME UNCHANGED <<state, awaiting, ack>>, handlers'[Rec] = handlers[Rec],
             submits' = [submits EXCEPT ![c] = @ + 1]
      PROVE  UNCHANGED <<utcb, sum>>
  <2>1. \A x \in Context : submits[x] > 0 => submits'[x] # 0
    BY <1>3, KernelTypes
  <2>2. Handed = {}
    BY <1>3, <2>1, HandedNone
  <2> QED
    BY <1>1, <2>2 DEF Receives
<1>4. ASSUME NEW t \in Thread, handlers[Rec] = <<t>>, c \in ack, HandedTo(t, c)
      PROVE  Arrives(t, c, utcb)
  <2>1. Waiting = t
    BY <1>4 DEF Waiting
  <2>2. submits[c] + 1 > 0
    BY KernelTypes
  <2> QED
    BY <1>1, <1>2, <1>4, <2>1, <2>2, ReceivesOne DEF KillSame
<1> QED
  BY <1>2, <1>3, <1>4 DEF SubmitOutcome

\* An acknowledgement by block_for_signal
AckedOutcome(t, c) ==
  LET utcbs == [utcb EXCEPT ![t] = NoData] IN
  \/ /\ c \notin killed /\ KillSame
     /\ UNCHANGED <<state, submits, sum>> /\ ack' = ack \cup {c} /\ utcb' = utcbs
     /\ handlers'[Rec] = handlers[Rec]
  \/ /\ c \notin killed /\ KillSame /\ submits[c] > 0
     /\ \E u \in Thread : handlers[Rec] = <<u>> /\ Arrives(u, c, utcbs)
  \/ /\ c \in killed /\ killer[c] # None
     /\ state' = [state EXCEPT ![killer[c]] = "ACTIVE"]
     /\ killer' = [killer EXCEPT ![c] = None]
     /\ UNCHANGED <<receiver, submits, ack, killed, sum>> /\ utcb' = utcbs
     /\ handlers'[Rec] = handlers[Rec]

LEMMA LibAck ==
  ASSUME KernelInv, HandlerInv, NEW t \in Thread, NEW c \in Context, receiver[c] # None, c \notin ack,
         c \in killed => killer[c] # None,
         killer[c] # None => state[killer[c]] = "AWAITS_SIGNAL_CONTEXT_KILL",
         AckSignal(t, c)
  PROVE  KernelInv' /\ HandlerInv' /\ AckedOutcome(t, c)
<1> DEFINE utcbs == [utcb EXCEPT ![t] = NoData]
<1>1. (Kernel!AckSignal(c) \/ Kernel!AckKilled(c)) /\ Receives(Waiting, 0, utcbs)
  BY DEF AckSignal, KernelAck
<1>2. CASE Kernel!AckSignal(c)
  <2>1. /\ KernelInv' /\ HandlerInv' /\ KillSame /\ c \notin killed /\ AckOutcome(c)
    BY <1>2, AckEffect
  <2>2. ASSUME UNCHANGED <<state, awaiting, submits>>, handlers'[Rec] = handlers[Rec],
               ack' = ack \cup {c}
        PROVE  AckedOutcome(t, c)
    <3>1. \A x \in Context : submits[x] > 0 => submits'[x] # 0
      BY <2>2, KernelTypes
    <3>2. Handed = {}
      BY <2>2, <3>1, HandedNone
    <3>3. utcb' = utcbs /\ UNCHANGED sum
      BY <1>1, <3>2 DEF Receives
    <3> QED
      BY <2>1, <2>2, <3>3 DEF AckedOutcome
  <2>3. ASSUME NEW u \in Thread, handlers[Rec] = <<u>>, submits[c] > 0, HandedTo(u, c)
        PROVE  AckedOutcome(t, c)
    <3>1. Waiting = u
      BY <2>3 DEF Waiting
    <3>2. submits[c] + 0 > 0
      BY <2>3, KernelTypes
    <3> HIDE DEF utcbs
    <3>3. Arrives(u, c, utcbs)
      BY <1>1, <2>1, <2>3, <3>1, <3>2, ReceivesOne DEF KillSame
    <3> QED
      BY <2>1, <2>3, <3>3 DEF AckedOutcome, utcbs
  <2> QED
    BY <2>1, <2>2, <2>3 DEF AckOutcome
<1>3. CASE Kernel!AckKilled(c)
  <2>1. /\ KernelInv' /\ HandlerInv'
        /\ c \in killed /\ killer[c] # None
        /\ state' = [state EXCEPT ![killer[c]] = "ACTIVE"]
        /\ killer' = [killer EXCEPT ![c] = None]
        /\ UNCHANGED <<receiver, submits, ack, killed>> /\ handlers'[Rec] = handlers[Rec]
    BY <1>3, AckKilledEffect
  <2>2. \A x \in Context : submits[x] > 0 => submits'[x] # 0
    BY <2>1, KernelTypes
  <2>3. Handed = {}
    BY <2>1, <2>2, HandedNone
  <2>4. utcb' = utcbs /\ UNCHANGED sum
    BY <1>1, <2>3 DEF Receives
  <2> QED
    BY <2>1, <2>4 DEF AckedOutcome
<1> QED
  BY <1>1, <1>2, <1>3

\* What a thread obtains arrives in its UTCB.
ArrivesNew(t) ==
  \E c \in Context : receiver[c] # None /\ c \in ack /\ submits[c] > 0 /\ Arrives(t, c, utcb)

LEMMA ObtainsArrives ==
  ASSUME KernelInv, NEW t \in Thread, Obtains(t), KillSame, Receives(t, 0, utcb)
  PROVE  ArrivesNew(t) /\ Handed # {}
<1>1. PICK c \in Context : receiver[c] # None /\ c \in ack /\ submits[c] > 0 /\ HandedTo(t, c)
  BY DEF Obtains
<1>2. submits[c] + 0 > 0
  BY <1>1, KernelTypes
<1>3. Arrives(t, c, utcb)
  BY <1>1, <1>2, ReceivesOne DEF KillSame
<1>4. Handed = {c}
  BY <1>1, HandedOne DEF KillSame
<1> QED
  BY <1>1, <1>3, <1>4 DEF ArrivesNew

LEMMA LibAwait ==
  ASSUME KernelInv, HandlerInv, NEW t \in Thread, handlers[Rec] = <<>>,
         Kernel!AwaitSignal(t, Rec), Receives(t, 0, utcb)
  PROVE  /\ KernelInv' /\ HandlerInv' /\ KillSame /\ state[t] = "ACTIVE"
         /\ \/ /\ state' = [state EXCEPT ![t] = "AWAITS_SIGNAL"]
               /\ UNCHANGED <<submits, ack, utcb, sum>>
            \/ ArrivesNew(t)
<1>1. /\ KernelInv' /\ HandlerInv' /\ KillSame /\ state[t] = "ACTIVE"
      /\ \/ /\ state' = [state EXCEPT ![t] = "AWAITS_SIGNAL"]
            /\ handlers'[Rec] = <<t>> /\ UNCHANGED <<submits, ack>>
         \/ Obtains(t)
  BY AwaitEffect
<1>2. ASSUME UNCHANGED <<submits, ack>>
      PROVE  UNCHANGED <<utcb, sum>>
  <2>1. \A x \in Context : submits[x] > 0 => submits'[x] # 0
    BY <1>2, KernelTypes
  <2>2. Handed = {}
    BY <1>2, <2>1, HandedNone
  <2> QED
    BY <2>2 DEF Receives
<1> QED
  BY <1>1, <1>2, ObtainsArrives

LEMMA LibPoll ==
  ASSUME KernelInv, HandlerInv, NEW t \in Thread,
         Kernel!PendingSignal(t, Rec), Receives(t, 0, utcb)
  PROVE  /\ KernelInv' /\ HandlerInv' /\ KillSame /\ state[t] = "ACTIVE"
         /\ \/ Handed = {} /\ UNCHANGED <<state, submits, ack, utcb, sum>>
            \/ Handed # {} /\ ArrivesNew(t)
<1>1. /\ KernelInv' /\ HandlerInv' /\ KillSame /\ state[t] = "ACTIVE"
      /\ \/ /\ UNCHANGED <<state, awaiting, submits, ack>>
            /\ handlers'[Rec] = handlers[Rec]
         \/ Obtains(t)
  BY PollEffect
<1>2. ASSUME UNCHANGED <<submits, ack>>
      PROVE  Handed = {} /\ UNCHANGED <<utcb, sum>>
  <2>1. \A x \in Context : submits[x] > 0 => submits'[x] # 0
    BY <1>2, KernelTypes
  <2>2. Handed = {}
    BY <1>2, <2>1, HandedNone
  <2> QED
    BY <2>2 DEF Receives
<1> QED
  BY <1>1, <1>2, ObtainsArrives

\* An acknowledgement by pending_signal, of the context that is returned
PollAcked(c) ==
  LET utcbs == [utcb EXCEPT ![Ep] = NoData] IN
  \/ /\ Handed = {} /\ UNCHANGED <<state, submits>> /\ ack' = ack \cup {c} /\ utcb' = utcbs
     /\ handlers'[Rec] = handlers[Rec]
  \/ /\ Handed # {}
     /\ \E u \in Thread, num \in 1 .. MaxNum :
          /\ handlers[Rec] = <<u>> /\ HandedTo(u, c)
          /\ num = Capped(submits[c])
          /\ utcb' = [utcbs EXCEPT ![u] = [context |-> c, num |-> num]]

LEMMA LibPollAck ==
  ASSUME KernelInv, HandlerInv, PollAck, utcb[Ep].context \in Context,
         utcb[Ep].context \notin killed, utcb[Ep].context \notin ack,
         receiver[utcb[Ep].context] # None
  PROVE  KernelInv' /\ HandlerInv' /\ KillSame /\ PollAcked(utcb[Ep].context)
<1> DEFINE c     == utcb[Ep].context
           utcbs == [utcb EXCEPT ![Ep] = NoData]
<1>1. ~Kernel!AckKilled(c)
  BY DEF Kernel!AckKilled
<1>2. /\ Kernel!AckSignal(c)
      /\ utcb' = IF Handed = {} THEN utcbs
                 ELSE [utcbs EXCEPT ![Waiting] = [context |-> c, num |-> Capped(submits[c])]]
  BY <1>1 DEF PollAck, KernelAck
<1>3. /\ KernelInv' /\ HandlerInv' /\ KillSame /\ c \notin killed /\ c \notin ack
      /\ receiver[c] # None /\ AckOutcome(c)
  BY <1>2, AckEffect
<1>4. ASSUME UNCHANGED <<state, awaiting, submits>>, handlers'[Rec] = handlers[Rec],
             ack' = ack \cup {c}
      PROVE  PollAcked(c)
  <2>1. \A x \in Context : submits[x] > 0 => submits'[x] # 0
    BY <1>4, KernelTypes
  <2>2. Handed = {}
    BY <1>4, <2>1, HandedNone
  <2> QED
    BY <1>2, <1>4, <2>2 DEF PollAcked
<1>5. ASSUME NEW u \in Thread, handlers[Rec] = <<u>>, submits[c] > 0, HandedTo(u, c)
      PROVE  PollAcked(c)
  <2>1. Waiting = u
    BY <1>5 DEF Waiting
  <2>2. Capped(submits[c]) \in 1 .. MaxNum
    BY <1>5, KernelTypes, CappedType
  <2>3. Handed = {c}
    BY <1>3, <1>5, HandedOne DEF KillSame
  <2>4. utcb' = [utcbs EXCEPT ![u] = [context |-> c, num |-> Capped(submits[c])]] /\ Handed # {}
    BY <1>2, <2>1, <2>3
  <2> QED
    BY <1>5, <2>2, <2>4 DEF PollAcked
<1> QED
  BY <1>3, <1>4, <1>5 DEF AckOutcome

UtcbType == [Thread -> [context : Context \cup {None}, num : 0 .. MaxNum]]

\* What has arrived, thread by thread and context by context
LEMMA Arrived ==
  ASSUME KernelInv, NEW t \in Thread, NEW c \in Context, NEW utcbs \in UtcbType,
         sum \in [Context -> 0 .. MaxNum], Arrives(t, c, utcbs)
  PROVE  /\ utcb' \in UtcbType /\ utcb'[t].context = c /\ utcb'[t].num >= 1
         /\ \A u \in Thread : u # t => utcb'[u] = utcbs[u] /\ state'[u] = state[u]
         /\ state'[t] = "ACTIVE"
         /\ ack' = ack \ {c} /\ submits'[c] = 0
         /\ \A b \in Context : b # c => submits'[b] = submits[b] /\ sum'[b] = sum[b]
         /\ sum' \in [Context -> 0 .. MaxNum]
<1>1. PICK num \in 1 .. MaxNum :
        /\ utcb' = [utcbs EXCEPT ![t] = [context |-> c, num |-> num]]
        /\ sum' = [sum EXCEPT ![c] = Capped(@ + num)]
  BY DEF Arrives
<1>2. HandedTo(t, c) /\ MaxNum \in Nat
  BY EntrypointAssumption DEF Arrives
<1>3. [context |-> c, num |-> num] \in [context : Context \cup {None}, num : 0 .. MaxNum]
  BY <1>2
<1>4. utcb' \in UtcbType /\ utcb'[t] = [context |-> c, num |-> num]
  BY <1>1, <1>3 DEF UtcbType
<1>5. utcb'[t].context = c /\ utcb'[t].num = num /\ num >= 1
  BY <1>2, <1>4
<1>6. \A u \in Thread : u # t => utcb'[u] = utcbs[u]
  BY <1>1 DEF UtcbType
<1>7. state'[t] = "ACTIVE" /\ \A u \in Thread : u # t => state'[u] = state[u]
  BY <1>2, KernelTypes DEF HandedTo
<1>8. /\ ack' = ack \ {c} /\ submits'[c] = 0
      /\ \A b \in Context : b # c => submits'[b] = submits[b]
  BY <1>2, KernelTypes DEF HandedTo
<1>9. sum[c] + num \in Nat
  BY <1>2
<1>10. sum' \in [Context -> 0 .. MaxNum] /\ \A b \in Context : b # c => sum'[b] = sum[b]
  BY <1>1, <1>9, CappedType
<1> QED
  BY <1>4, <1>5, <1>6, <1>7, <1>8, <1>10

-----------------------------------------------------------------------------
(* Steps of the proxy and the entrypoint that leave the kernel alone *)

LEMMA Basics ==
  /\ Thread = {Proxy, Ep} /\ Proxy # Ep /\ Proxy \in Thread /\ Ep \in Thread
  /\ None \notin Thread /\ None \notin Context
  /\ DeferredHandler \in Context /\ DeferredHandler \notin User
  /\ User \subseteq Context /\ Io \subseteq User
BY EntrypointAssumption DEF Thread, Context, User

\* The entrypoint executes one more call.
Pushed(f) ==
  /\ stack' \in Seq(Frame) /\ stack' # <<>> /\ Len(stack') = Len(stack) + 1
  /\ DOMAIN stack' = 1 .. Len(stack) + 1
  /\ \A i \in 1 .. Len(stack) : stack'[i] = stack[i]
  /\ stack'[Len(stack) + 1] = f /\ Top' = f

LEMMA PushStack ==
  ASSUME stack \in Seq(Frame), NEW f \in Frame, stack' = Append(stack, f)
  PROVE  Pushed(f)
BY DEF Pushed, Top, Last

\* The innermost call ends.
PoppedOff ==
  /\ stack' \in Seq(Frame) /\ Len(stack') = Len(stack) - 1
  /\ DOMAIN stack' = 1 .. Len(stack) - 1
  /\ \A i \in 1 .. Len(stack) - 1 : stack'[i] = stack[i]
  /\ stack' = <<>> <=> Len(stack) = 1

LEMMA PopStack ==
  ASSUME stack \in Seq(Frame), stack # <<>>, stack' = Popped
  PROVE  PoppedOff
<1> DEFINE n == Len(stack)
<1>1. n \in Nat /\ n > 0
  OBVIOUS
<1>2. stack' = SubSeq(stack, 1, n - 1)
  BY DEF Popped, Front
<1> DEFINE q == SubSeq(stack, 1, n - 1)
<1>3. /\ q \in Seq(Frame) /\ Len(q) = n - 1
      /\ \A i \in 1 .. n - 1 : q[i] = stack[i]
  <2>1. 1 \in 1 .. n + 1 /\ n - 1 \in 1 - 1 .. n
    BY <1>1
  <2>2. /\ q \in Seq(Frame) /\ Len(q) = IF 1 <= n - 1 THEN (n - 1) - 1 + 1 ELSE 0
        /\ \A i \in 1 .. (n - 1) - 1 + 1 : q[i] = stack[1 + i - 1]
    BY <2>1, SubSeqProperties
  <2> HIDE DEF q, n
  <2>3. (n - 1) - 1 + 1 = n - 1 /\ \A i \in 1 .. n - 1 : 1 + i - 1 = i
    BY <1>1
  <2> QED
    BY <1>1, <2>2, <2>3
<1> HIDE DEF q, n
<1>4. q = <<>> <=> n - 1 = 0
  BY <1>1, <1>3
<1>5. DOMAIN q = 1 .. n - 1 /\ stack' = q
  BY <1>2, <1>3 DEF q
<1> QED
  BY <1>1, <1>3, <1>4, <1>5 DEF PoppedOff, n

\* The innermost call has got a signal of context c.
Marked(c) ==
  /\ stack' \in Seq(Frame) /\ stack' # <<>> /\ Len(stack') = Len(stack)
  /\ DOMAIN stack' = DOMAIN stack
  /\ \A i \in DOMAIN stack : stack'[i].kind = stack[i].kind
  /\ \A i \in DOMAIN stack : stack'[i].context \in {stack[i].context, c}

LEMMA MarkStack ==
  ASSUME stack \in Seq(Frame), stack # <<>>, NEW c \in Context,
         stack' = [stack EXCEPT ![Len(stack)].context = c]
  PROVE  Marked(c)
<1> DEFINE n == Len(stack)
           g == [stack[n] EXCEPT !.context = c]
<1>1. n \in Nat /\ n > 0 /\ DOMAIN stack = 1 .. n /\ n \in 1 .. n
  OBVIOUS
<1>2. stack[n] \in Frame /\ \A i \in 1 .. n : stack[i] \in Frame
  BY <1>1
<1>3. g \in Frame /\ g.kind = stack[n].kind /\ g.context = c
  BY <1>2 DEF Frame, WaitKind
<1>4. stack' = [stack EXCEPT ![n] = g]
  OBVIOUS
<1> HIDE DEF g
<1>5. /\ stack' \in Seq(Frame) /\ Len(stack') = n /\ DOMAIN stack' = 1 .. n
      /\ stack'[n] = g /\ \A i \in 1 .. n : i # n => stack'[i] = stack[i]
  BY <1>1, <1>3, <1>4
<1> QED
  BY <1>1, <1>3, <1>5 DEF Marked

\* A step that does not enter the kernel
LEMMA KernelFrame ==
  ASSUME IInv, UNCHANGED kernelVars
  PROVE  KernelInv' /\ HandlerInv'
BY DEF IInv, KernelInv, HandlerInv, Kernel!TypeOK, kernelVars

\* The proxy's way to block_for_signal
LEMMA ProxyBlockKeeps ==
  ASSUME IInv, ProxyBlock
  PROVE  IInv'
<1>1. /\ pc[Proxy] = "take" /\ blockMutex = None
      /\ pc' = [pc EXCEPT ![Proxy] = "await"] /\ blockMutex' = Proxy /\ delivers' = TRUE
      /\ UNCHANGED <<kernelVars, utcb, libVars, deferred, stack, victim, sum>>
  BY DEF ProxyBlock, Goto
<1>2. pc'[Proxy] = "await" /\ pc'[Ep] = pc[Ep] /\ pc' \in [Thread -> Place]
  BY <1>1, Basics DEF IInv, LibTypeOK, Place, ProxyPlace
<1>3. UNCHANGED <<state, receiver, submits, ack, killed, killer, pending, curr, ring, reused, reused>>
  BY <1>1 DEF kernelVars, libVars
<1>4. LibTypeOK'
  BY <1>1, <1>2, <1>3, Basics DEF IInv, LibTypeOK, ProxyPlace
<1>5. KernelInv' /\ HandlerInv'
  BY <1>1, KernelFrame
<1>6. BlockInv'
  BY <1>1, <1>2, <1>3, Basics DEF IInv, BlockInv
<1>7. MutexInv'
  BY <1>1, <1>2, <1>3, Basics DEF IInv, MutexInv
<1>8. VictimInv'
  BY <1>1, <1>2, <1>3, Basics DEF IInv, VictimInv
<1>9. HoldInv'
  BY <1>1, <1>2, <1>3, Basics DEF IInv, HoldInv, Holds, Holding
<1>10. AliveInv'
  BY <1>1, <1>2, <1>3, Basics DEF IInv, AliveInv
<1>11. StackInv'
  BY <1>1, <1>2, <1>3, Basics DEF IInv, StackInv, Top
<1>12. SignalInv'
  BY <1>1, <1>2, <1>3, Basics DEF IInv, SignalInv, Holds, Holding
<1>13. PendingInv'
  BY <1>1, <1>2, <1>3, Basics DEF IInv, PendingInv, Marks, ProxyLooks, EpLooks, Draining
<1> QED
  BY <1>4, <1>5, <1>6, <1>7, <1>8, <1>9, <1>10, <1>11, <1>12, <1>13 DEF IInv

\* A call pushes a frame without a context.
LEMMA PushFrame ==
  ASSUME stack \in Seq(Frame), NEW kind \in {"signal", "rpc", "item", "wait", "try"}, Push(kind)
  PROVE  Pushed([kind |-> kind, context |-> None])
<1>1. [kind |-> kind, context |-> None] \in Frame
  BY DEF Frame, WaitKind
<1> QED
  BY <1>1, PushStack DEF Push

\* The proxy's call is received.
LEMMA EpSignalKeeps ==
  ASSUME IInv, EpSignal
  PROVE  IInv'
<1>1. /\ pc[Ep] = "idle" /\ pc[Proxy] = "call"
      /\ pc' = [pc EXCEPT ![Ep] = "drain", ![Proxy] = "inCall"] /\ delivers' = FALSE
      /\ UNCHANGED <<kernelVars, utcb, libVars, blockMutex, deferred, victim, sum>>
  BY DEF EpSignal
<1>2. pc'[Proxy] = "inCall" /\ pc'[Ep] = "drain" /\ pc' \in [Thread -> Place]
  BY <1>1, Basics DEF IInv, LibTypeOK, Place, ProxyPlace, EpPlace
<1>3. UNCHANGED <<state, receiver, submits, ack, killed, killer, pending, curr, ring, reused, reused>>
  BY <1>1 DEF kernelVars, libVars
<1>4. stack = <<>> /\ Len(stack) = 0 /\ Pushed([kind |-> "signal", context |-> None])
  BY <1>1, PushFrame DEF IInv, StackInv, EpSignal
<1>5. LibTypeOK'
  BY <1>1, <1>2, <1>3, Basics DEF IInv, LibTypeOK, ProxyPlace, EpPlace
<1>6. KernelInv' /\ HandlerInv'
  BY <1>1, KernelFrame
<1>7. BlockInv'
  BY <1>1, <1>2, <1>3, <1>4, Basics DEF IInv, BlockInv
<1>8. MutexInv'
  BY <1>1, <1>2, <1>3, <1>4, Basics DEF IInv, MutexInv
<1>9. VictimInv'
  BY <1>1, <1>2, <1>3, <1>4, Basics DEF IInv, VictimInv, Pushed
<1>10. HoldInv'
  BY <1>1, <1>2, <1>3, <1>4, Basics DEF IInv, HoldInv, Holds, Holding
<1>11. AliveInv'
  BY <1>1, <1>2, <1>3, <1>4, Basics DEF IInv, AliveInv, Pushed
<1>12. StackInv'
  BY <1>1, <1>2, <1>3, <1>4, Basics DEF IInv, StackInv, Pushed
<1>13. SignalInv'
  BY <1>1, <1>2, <1>3, <1>4, Basics DEF IInv, SignalInv, Holds, Holding
<1>14. PendingInv'
  BY <1>1, <1>2, <1>3, <1>4, Basics DEF IInv, PendingInv, Marks, ProxyLooks, EpLooks, Draining
<1> QED
  BY <1>5, <1>6, <1>7, <1>8, <1>9, <1>10, <1>11, <1>12, <1>13, <1>14 DEF IInv

\* Another RPC is received.
LEMMA EpOtherRpcKeeps ==
  ASSUME IInv, EpOtherRpc
  PROVE  IInv'
<1>1. /\ pc[Ep] = "idle" /\ pc' = [pc EXCEPT ![Ep] = "user"]
      /\ UNCHANGED <<kernelVars, utcb, libVars, blockMutex, delivers, deferred, victim, sum>>
  BY DEF EpOtherRpc, Goto
<1>2. pc'[Ep] = "user" /\ pc'[Proxy] = pc[Proxy] /\ pc' \in [Thread -> Place]
  BY <1>1, Basics DEF IInv, LibTypeOK, Place, ProxyPlace, EpPlace
<1>3. UNCHANGED <<state, receiver, submits, ack, killed, killer, pending, curr, ring, reused, reused>>
  BY <1>1 DEF kernelVars, libVars
<1>4. stack = <<>> /\ Len(stack) = 0 /\ Pushed([kind |-> "rpc", context |-> None])
  BY <1>1, PushFrame DEF IInv, StackInv, EpOtherRpc
<1>5. LibTypeOK'
  BY <1>1, <1>2, <1>3, Basics DEF IInv, LibTypeOK, ProxyPlace, EpPlace
<1>6. KernelInv' /\ HandlerInv'
  BY <1>1, KernelFrame
<1>7. BlockInv'
  BY <1>1, <1>2, <1>3, <1>4, Basics DEF IInv, BlockInv
<1>8. MutexInv'
  BY <1>1, <1>2, <1>3, <1>4, Basics DEF IInv, MutexInv
<1>9. VictimInv'
  BY <1>1, <1>2, <1>3, <1>4, Basics DEF IInv, VictimInv, Pushed
<1>10. HoldInv'
  BY <1>1, <1>2, <1>3, <1>4, Basics DEF IInv, HoldInv, Holds, Holding
<1>11. AliveInv'
  BY <1>1, <1>2, <1>3, <1>4, Basics DEF IInv, AliveInv, Pushed
<1>12. StackInv'
  BY <1>1, <1>2, <1>3, <1>4, Basics DEF IInv, StackInv, Pushed
<1>13. SignalInv'
  BY <1>1, <1>2, <1>3, <1>4, Basics DEF IInv, SignalInv, Holds, Holding
<1>14. PendingInv'
  BY <1>1, <1>2, <1>3, <1>4, Basics DEF IInv, PendingInv, Marks, ProxyLooks, EpLooks, Draining, StackInv
<1> QED
  BY <1>5, <1>6, <1>7, <1>8, <1>9, <1>10, <1>11, <1>12, <1>13, <1>14 DEF IInv

\* User code starts to wait for an I/O signal.
LEMMA UserWaitKeeps ==
  ASSUME IInv, NEW kind \in WaitKind, UserWait(kind)
  PROVE  IInv'
<1>1. /\ pc[Ep] = "user" /\ pc' = [pc EXCEPT ![Ep] = "scan"]
      /\ UNCHANGED <<kernelVars, utcb, libVars, blockMutex, delivers, deferred, victim, sum>>
  BY DEF UserWait, InUserCode, Goto
<1>2. pc'[Ep] = "scan" /\ pc'[Proxy] = pc[Proxy] /\ pc' \in [Thread -> Place]
  BY <1>1, Basics DEF IInv, LibTypeOK, Place, ProxyPlace, EpPlace
<1>3. UNCHANGED <<state, receiver, submits, ack, killed, killer, pending, curr, ring, reused, reused>>
  BY <1>1 DEF kernelVars, libVars
<1>4. /\ kind \in {"wait", "try"} /\ Len(stack) \in Nat /\ Len(stack) > 0 /\ DOMAIN stack = 1 .. Len(stack)
      /\ Pushed([kind |-> kind, context |-> None])
  <2>1. kind \in {"wait", "try"} /\ stack \in Seq(Frame) /\ stack # <<>>
    BY <1>1 DEF IInv, StackInv, WaitKind
  <2> QED
    BY <2>1, PushFrame DEF UserWait
<1>5. LibTypeOK'
  BY <1>1, <1>2, <1>3, Basics DEF IInv, LibTypeOK, ProxyPlace, EpPlace
<1>6. KernelInv' /\ HandlerInv'
  BY <1>1, KernelFrame
<1>7. BlockInv'
  BY <1>1, <1>2, <1>3, <1>4, Basics DEF IInv, BlockInv
<1>8. MutexInv'
  BY <1>1, <1>2, <1>3, <1>4, Basics DEF IInv, MutexInv
<1>9. VictimInv'
  BY <1>1, <1>2, <1>3, <1>4, Basics DEF IInv, VictimInv, Pushed
<1>10. HoldInv'
  BY <1>1, <1>2, <1>3, <1>4, Basics DEF IInv, HoldInv, Holds, Holding
<1>11. AliveInv'
  <2>1. \A i \in DOMAIN stack' : stack'[i].context # None => i \in DOMAIN stack /\ stack'[i] = stack[i]
    BY <1>4 DEF Pushed
  <2> QED
    BY <1>1, <1>3, <2>1 DEF IInv, AliveInv
<1>12. StackInv'
  BY <1>1, <1>2, <1>3, <1>4, Basics DEF IInv, StackInv, Pushed
<1>13. SignalInv'
  BY <1>1, <1>2, <1>3, <1>4, Basics DEF IInv, SignalInv, Holds, Holding
<1>14. PendingInv'
  BY <1>1, <1>2, <1>3, <1>4, Basics DEF IInv, PendingInv, Marks, ProxyLooks, EpLooks, Draining, Pushed, StackInv
<1> QED
  BY <1>5, <1>6, <1>7, <1>8, <1>9, <1>10, <1>11, <1>12, <1>13, <1>14 DEF IInv

\* The wait goes on with block_for_signal, or with the signal of the proxy.
LEMMA WaitBlockKeeps ==
  ASSUME IInv, WaitBlock
  PROVE  IInv'
<1>1. /\ pc[Ep] = "waitBlock" /\ blockMutex = None /\ delivers' = FALSE
      /\ delivers => pc' = [pc EXCEPT ![Ep] = "scan"] /\ UNCHANGED blockMutex
      /\ ~delivers => pc' = [pc EXCEPT ![Ep] = "await"] /\ blockMutex' = Ep
      /\ UNCHANGED <<kernelVars, utcb, libVars, deferred, stack, victim, sum>>
  BY DEF WaitBlock, Goto
<1>2. /\ pc'[Proxy] = pc[Proxy] /\ pc' \in [Thread -> Place]
      /\ delivers => pc'[Ep] = "scan"
      /\ ~delivers => pc'[Ep] = "await"
  BY <1>1, Basics DEF IInv, LibTypeOK, Place, ProxyPlace, EpPlace
<1>3. UNCHANGED <<state, receiver, submits, ack, killed, killer, pending, curr, ring, reused, reused>>
  BY <1>1 DEF kernelVars, libVars
<1>4. LibTypeOK'
  BY <1>1, <1>2, <1>3, Basics DEF IInv, LibTypeOK, ProxyPlace, EpPlace
<1>5. KernelInv' /\ HandlerInv'
  BY <1>1, KernelFrame
<1>6. BlockInv'
  BY <1>1, <1>2, <1>3, Basics DEF IInv, BlockInv
<1>7. MutexInv'
  BY <1>1, <1>2, <1>3, Basics DEF IInv, MutexInv
<1>8. VictimInv'
  BY <1>1, <1>2, <1>3, Basics DEF IInv, VictimInv
<1>9. HoldInv'
  BY <1>1, <1>2, <1>3, Basics DEF IInv, HoldInv, Holds, Holding
<1>10. AliveInv'
  BY <1>1, <1>2, <1>3, Basics DEF IInv, AliveInv
<1>11. StackInv'
  BY <1>1, <1>2, <1>3, Basics DEF IInv, StackInv, Top
<1>12. SignalInv'
  BY <1>1, <1>2, <1>3, Basics DEF IInv, SignalInv, Holds, Holding
<1>13. PendingInv'
  BY <1>1, <1>2, <1>3, Basics DEF IInv, PendingInv, Marks, ProxyLooks, EpLooks, Draining, MutexInv
<1> QED
  BY <1>4, <1>5, <1>6, <1>7, <1>8, <1>9, <1>10, <1>11, <1>12, <1>13 DEF IInv

\* block_for_signal looks whether the context is pending already.
LEMMA ReadPendingKeeps ==
  ASSUME IInv, NEW t \in Thread, ReadPending(t)
  PROVE  IInv'
<1>1. /\ pc[t] = "woken" /\ state[t] = "ACTIVE"
      /\ pc' = [pc EXCEPT ![t] = IF utcb[t].context \in pending THEN "ack" ELSE "update"]
      /\ UNCHANGED <<kernelVars, utcb, libVars, epVars, sum>>
  BY DEF ReadPending, Goto
<1>2. /\ pc'[t] = IF utcb[t].context \in pending THEN "ack" ELSE "update"
      /\ \A u \in Thread : u # t => pc'[u] = pc[u]
      /\ pc' \in [Thread -> Place]
  BY <1>1, Basics DEF IInv, LibTypeOK, Place, ProxyPlace, EpPlace
<1>3. UNCHANGED <<state, receiver, submits, ack, killed, killer, pending, curr, ring, reused,
                  blockMutex, delivers, deferred, stack, victim>>
  BY <1>1 DEF kernelVars, libVars, epVars
<1>4. LibTypeOK'
  BY <1>1, <1>2, <1>3, Basics DEF IInv, LibTypeOK, ProxyPlace, EpPlace
<1>5. KernelInv' /\ HandlerInv'
  BY <1>1, KernelFrame
<1>6. BlockInv'
  BY <1>1, <1>2, <1>3, Basics DEF IInv, BlockInv
<1>7. MutexInv'
  BY <1>1, <1>2, <1>3, Basics DEF IInv, MutexInv
<1>8. VictimInv'
  BY <1>1, <1>2, <1>3, Basics DEF IInv, VictimInv
<1>9. HoldInv'
  BY <1>1, <1>2, <1>3, Basics DEF IInv, HoldInv, Holds, Holding
<1>10. AliveInv'
  BY <1>1, <1>2, <1>3, Basics DEF IInv, AliveInv
<1>11. StackInv'
  BY <1>1, <1>2, <1>3, Basics DEF IInv, StackInv, Top
<1>12. SignalInv'
  BY <1>1, <1>2, <1>3, Basics DEF IInv, SignalInv, Holds, Holding
<1>13. PendingInv'
  BY <1>1, <1>2, <1>3, Basics DEF IInv, PendingInv, Marks, ProxyLooks, EpLooks, Draining
<1> QED
  BY <1>4, <1>5, <1>6, <1>7, <1>8, <1>9, <1>10, <1>11, <1>12, <1>13 DEF IInv

\* block_for_signal marks the context as pending.
LEMMA UpdateContextKeeps ==
  ASSUME IInv, NEW t \in Thread, UpdateContext(t)
  PROVE  IInv'
<1>1. /\ pc[t] = "update"
      /\ pc' = [pc EXCEPT ![t] = "ack"]
      /\ UNCHANGED <<kernelVars, utcb, ring, reused, epVars, sum>>
      /\ curr' = [curr EXCEPT ![utcb[t].context] = Num(utcb[t].context, utcb[t].num)]
      /\ pending' = pending \cup {utcb[t].context}
  BY DEF UpdateContext, Goto
<1>2. /\ pc'[t] = "ack" /\ \A u \in Thread : u # t => pc'[u] = pc[u]
      /\ pc' \in [Thread -> Place]
  BY <1>1, Basics DEF IInv, LibTypeOK, Place, ProxyPlace, EpPlace
<1>3. UNCHANGED <<state, receiver, submits, ack, killed, killer,
                  blockMutex, delivers, deferred, stack, victim>>
  BY <1>1 DEF kernelVars, epVars
<1>4. /\ utcb[t].context \in Context /\ receiver[utcb[t].context] # None
      /\ curr' \in [Context -> 0 .. MaxNum] /\ curr'[utcb[t].context] >= 1
      /\ \A b \in Context : b # utcb[t].context => curr'[b] = curr[b]
  <2> DEFINE c == utcb[t].context
             n == utcb[t].num
  <2>1. c \in Context /\ receiver[c] # None /\ n >= 1
    BY <1>1 DEF IInv, HoldInv, Holding
  <2>2. n \in Nat /\ curr \in [Context -> 0 .. MaxNum] /\ MaxNum \in Nat
    BY EntrypointAssumption DEF IInv, LibTypeOK
  <2> HIDE DEF c, n
  <2>3. curr[c] + n \in Nat /\ curr[c] + n > 0
    BY <2>1, <2>2
  <2>4. Num(c, n) \in 1 .. MaxNum
    BY <2>3, CappedType DEF Num
  <2>5. curr' = [curr EXCEPT ![c] = Num(c, n)]
    BY <1>1 DEF c, n
  <2>6. curr' \in [Context -> 0 .. MaxNum] /\ curr'[c] >= 1 /\ \A b \in Context : b # c => curr'[b] = curr[b]
    BY <2>1, <2>2, <2>4, <2>5
  <2> QED
    BY <2>1, <2>6 DEF c
<1>5. LibTypeOK'
  BY <1>1, <1>2, <1>3, <1>4, Basics DEF IInv, LibTypeOK, ProxyPlace, EpPlace
<1>6. KernelInv' /\ HandlerInv'
  BY <1>1, KernelFrame
<1>7. BlockInv'
  BY <1>1, <1>2, <1>3, <1>4, Basics DEF IInv, BlockInv
<1>8. MutexInv'
  BY <1>1, <1>2, <1>3, <1>4, Basics DEF IInv, MutexInv
<1>9. VictimInv'
  BY <1>1, <1>2, <1>3, <1>4, Basics DEF IInv, VictimInv
<1>10. HoldInv'
  BY <1>1, <1>2, <1>3, <1>4, Basics DEF IInv, HoldInv, Holds, Holding
<1>11. AliveInv'
  BY <1>1, <1>2, <1>3, <1>4, Basics DEF IInv, AliveInv
<1>12. StackInv'
  BY <1>1, <1>2, <1>3, <1>4, Basics DEF IInv, StackInv, Top
<1>13. SignalInv'
  BY <1>1, <1>2, <1>3, <1>4, Basics DEF IInv, SignalInv, Holds, Holding
<1>14. PendingInv'
  BY <1>1, <1>2, <1>3, <1>4, Basics DEF IInv, PendingInv, Marks, ProxyLooks, EpLooks, Draining
<1> QED
  BY <1>5, <1>6, <1>7, <1>8, <1>9, <1>10, <1>11, <1>12, <1>13, <1>14 DEF IInv

\* pending_signal takes over the signal from the kernel.
LEMMA PollUpdateKeeps ==
  ASSUME IInv, PollUpdate
  PROVE  IInv'
<1>1. /\ pc[Ep] = "pollUpdate"
      /\ pc' = [pc EXCEPT ![Ep] = "pollAck"]
      /\ UNCHANGED <<kernelVars, utcb, ring, reused, epVars, sum>>
      /\ curr' = [curr EXCEPT ![utcb[Ep].context] = LeftBehind(utcb[Ep].num)]
      /\ pending' = pending \ {utcb[Ep].context}
  BY DEF PollUpdate, Goto
<1>2. pc'[Ep] = "pollAck" /\ pc'[Proxy] = pc[Proxy] /\ pc' \in [Thread -> Place]
  BY <1>1, Basics DEF IInv, LibTypeOK, Place, ProxyPlace, EpPlace
<1>3. UNCHANGED <<state, receiver, submits, ack, killed, killer,
                  blockMutex, delivers, deferred, stack, victim>>
  BY <1>1 DEF kernelVars, epVars
<1>4. /\ utcb[Ep].context \in Context
      /\ curr' \in [Context -> 0 .. MaxNum]
      /\ \A b \in Context : b # utcb[Ep].context => curr'[b] = curr[b]
  <2> DEFINE c == utcb[Ep].context
             n == utcb[Ep].num
  <2>1. c \in Context
    BY <1>1, Basics DEF IInv, HoldInv, Holding
  <2>2. n \in 0 .. MaxNum /\ curr \in [Context -> 0 .. MaxNum] /\ MaxNum \in Nat
    BY EntrypointAssumption, Basics DEF IInv, LibTypeOK
  <2> HIDE DEF c, n
  <2>3. LeftBehind(n) \in 0 .. MaxNum
    BY <2>2 DEF LeftBehind
  <2>4. curr' = [curr EXCEPT ![c] = LeftBehind(n)]
    BY <1>1 DEF c, n
  <2>5. curr' \in [Context -> 0 .. MaxNum] /\ \A b \in Context : b # c => curr'[b] = curr[b]
    BY <2>1, <2>2, <2>3, <2>4
  <2> QED
    BY <2>1, <2>5 DEF c
<1>5. LibTypeOK'
  BY <1>1, <1>2, <1>3, <1>4, Basics DEF IInv, LibTypeOK, ProxyPlace, EpPlace
<1>6. KernelInv' /\ HandlerInv'
  BY <1>1, KernelFrame
<1>7. BlockInv'
  BY <1>1, <1>2, <1>3, <1>4, Basics DEF IInv, BlockInv
<1>8. MutexInv'
  BY <1>1, <1>2, <1>3, <1>4, Basics DEF IInv, MutexInv
<1>9. VictimInv'
  BY <1>1, <1>2, <1>3, <1>4, Basics DEF IInv, VictimInv
<1>10. HoldInv'
  BY <1>1, <1>2, <1>3, <1>4, Basics DEF IInv, HoldInv, Holds, Holding
<1>11. AliveInv'
  BY <1>1, <1>2, <1>3, <1>4, Basics DEF IInv, AliveInv
<1>12. StackInv'
  BY <1>1, <1>2, <1>3, <1>4, Basics DEF IInv, StackInv, Top
<1>13. SignalInv'
  BY <1>1, <1>2, <1>3, <1>4, Basics DEF IInv, SignalInv, Holds, Holding
<1>14. PendingInv'
  BY <1>1, <1>2, <1>3, <1>4, Basics DEF IInv, PendingInv, Marks, ProxyLooks, EpLooks, Draining
<1> QED
  BY <1>5, <1>6, <1>7, <1>8, <1>9, <1>10, <1>11, <1>12, <1>13, <1>14 DEF IInv

\* A context is going to be dissolved.
LEMMA BeginDissolveKeeps ==
  ASSUME IInv, NEW c \in User, BeginDissolve(c)
  PROVE  IInv'
<1>1. /\ pc[Ep] = "user" /\ receiver[c] # None
      /\ pending' = pending \cup {c}
      /\ curr' = [curr EXCEPT ![c] = 0]
      /\ sum' = [sum EXCEPT ![c] = 0]
      /\ victim' = c
      /\ pc' = [pc EXCEPT ![Ep] = "kill"]
      /\ UNCHANGED <<kernelVars, utcb, ring, reused, blockMutex, delivers, deferred, stack>>
  BY DEF BeginDissolve, InUserCode, Goto
<1>2. pc'[Ep] = "kill" /\ pc'[Proxy] = pc[Proxy] /\ pc' \in [Thread -> Place]
  BY <1>1, Basics DEF IInv, LibTypeOK, Place, ProxyPlace, EpPlace
<1>3. UNCHANGED <<state, receiver, submits, ack, killed, killer>> /\ c \in Context
  BY <1>1, Basics DEF kernelVars
<1>4. /\ curr' \in [Context -> 0 .. MaxNum] /\ sum' \in [Context -> 0 .. MaxNum]
      /\ \A b \in Context : b # c => curr'[b] = curr[b] /\ sum'[b] = sum[b]
      /\ sum'[c] = 0 /\ victim = None
  BY <1>1, <1>3, EntrypointAssumption DEF IInv, LibTypeOK, VictimInv
<1>5. LibTypeOK'
  BY <1>1, <1>2, <1>3, <1>4, Basics DEF IInv, LibTypeOK, ProxyPlace, EpPlace
<1>6. KernelInv' /\ HandlerInv'
  BY <1>1, KernelFrame
<1>7. BlockInv'
  BY <1>1, <1>2, <1>3, <1>4, Basics DEF IInv, BlockInv
<1>8. MutexInv'
  BY <1>1, <1>2, <1>3, <1>4, Basics DEF IInv, MutexInv
<1>9. VictimInv'
  BY <1>1, <1>2, <1>3, <1>4, Basics DEF IInv, VictimInv, BlockInv
<1>10. HoldInv'
  BY <1>1, <1>2, <1>3, <1>4, Basics DEF IInv, HoldInv, Holds, Holding
<1>11. AliveInv'
  BY <1>1, <1>2, <1>3, <1>4, Basics DEF IInv, AliveInv
<1>12. StackInv'
  BY <1>1, <1>2, <1>3, <1>4, Basics DEF IInv, StackInv, Top
<1>13. SignalInv'
  <2>1. victim = None /\ pending \subseteq Context
    BY <1>1 DEF IInv, VictimInv, AliveInv
  <2> QED
    BY <1>1, <1>2, <1>3, <1>4, <2>1, Basics DEF IInv, SignalInv, Holds, Holding
<1>14. PendingInv'
  <2>1. victim = None /\ pending \subseteq Context
    BY <1>1 DEF IInv, VictimInv, AliveInv
  <2>2. Marks' \subseteq Marks /\ UNCHANGED reused
    BY <1>1, <1>3, <2>1, Basics DEF Marks
  <2>3. (ProxyLooks' <=> ProxyLooks) /\ (EpLooks' <=> EpLooks)
    BY <1>1, <1>2 DEF ProxyLooks, EpLooks, Draining
  <2> QED
    BY <2>2, <2>3 DEF IInv, PendingInv
<1> QED
  BY <1>5, <1>6, <1>7, <1>8, <1>9, <1>10, <1>11, <1>12, <1>13, <1>14 DEF IInv

\* No signal is deferred any more.
LEMMA DrainEndKeeps ==
  ASSUME IInv, Drain, deferred = <<>>
  PROVE  IInv'
<1>1. /\ pc[Ep] = "drain" /\ pc' = [pc EXCEPT ![Ep] = "scan"]
      /\ UNCHANGED <<kernelVars, utcb, libVars, blockMutex, delivers, deferred, stack, victim, sum>>
  BY DEF Drain, Goto
<1>2. pc'[Ep] = "scan" /\ pc'[Proxy] = pc[Proxy] /\ pc' \in [Thread -> Place]
  BY <1>1, Basics DEF IInv, LibTypeOK, Place, ProxyPlace, EpPlace
<1>3. UNCHANGED <<state, receiver, submits, ack, killed, killer, pending, curr, ring, reused, reused>>
  BY <1>1 DEF kernelVars, libVars
<1>4. LibTypeOK'
  BY <1>1, <1>2, <1>3, Basics DEF IInv, LibTypeOK, ProxyPlace, EpPlace
<1>5. KernelInv' /\ HandlerInv'
  BY <1>1, KernelFrame
<1>6. BlockInv'
  BY <1>1, <1>2, <1>3, Basics DEF IInv, BlockInv
<1>7. MutexInv'
  BY <1>1, <1>2, <1>3, Basics DEF IInv, MutexInv
<1>8. VictimInv'
  BY <1>1, <1>2, <1>3, Basics DEF IInv, VictimInv
<1>9. HoldInv'
  BY <1>1, <1>2, <1>3, Basics DEF IInv, HoldInv, Holds, Holding
<1>10. AliveInv'
  BY <1>1, <1>2, <1>3, Basics DEF IInv, AliveInv
<1>11. StackInv'
  BY <1>1, <1>2 DEF IInv, StackInv, Top, Last
<1>12. SignalInv'
  BY <1>1, <1>2, <1>3, Basics DEF IInv, SignalInv, Holds, Holding
<1>13. PendingInv'
  BY <1>1, <1>2, <1>3, Basics DEF IInv, PendingInv, Marks, ProxyLooks, EpLooks, Draining, StackInv
<1> QED
  BY <1>4, <1>5, <1>6, <1>7, <1>8, <1>9, <1>10, <1>11, <1>12, <1>13 DEF IInv

\* A deferred signal is dispatched.
LEMMA DrainItemKeeps ==
  ASSUME IInv, Drain, deferred # <<>>
  PROVE  IInv'
<1>1. /\ pc[Ep] = "drain" /\ pc' = [pc EXCEPT ![Ep] = "user"]
      /\ deferred' = Tail(deferred)
      /\ stack' = Append(stack, [kind |-> "item", context |-> Head(deferred)])
      /\ UNCHANGED <<kernelVars, utcb, libVars, blockMutex, delivers, victim, sum>>
  BY DEF Drain, Goto
<1>2. pc'[Ep] = "user" /\ pc'[Proxy] = pc[Proxy] /\ pc' \in [Thread -> Place]
  BY <1>1, Basics DEF IInv, LibTypeOK, Place, ProxyPlace, EpPlace
<1>3. UNCHANGED <<state, receiver, submits, ack, killed, killer, pending, curr, ring, reused, reused>>
  BY <1>1 DEF kernelVars, libVars
<1>4. /\ deferred' \in Seq(Context) /\ Distinct(deferred')
      /\ \A b \in ToSet(deferred') : b \in ToSet(deferred)
      /\ Head(deferred) \in Context
  <2>1. deferred \in Seq(Context) /\ Distinct(deferred)
    BY DEF IInv, AliveInv
  <2>2. /\ deferred' \in Seq(Context) /\ Distinct(deferred')
        /\ \A u : u \in ToSet(deferred') <=> u \in ToSet(deferred) /\ u # Head(deferred)
        /\ Head(deferred) \in Context /\ Head(deferred) \in ToSet(deferred)
    BY <1>1, <2>1, TailElements
  <2> QED
    BY <2>2 DEF IInv, AliveInv
<1>5. /\ Len(stack) = 1 /\ DOMAIN stack = 1 .. 1 /\ stack[1].kind = "signal"
      /\ Pushed([kind |-> "item", context |-> Head(deferred)])
  <2>1. [kind |-> "item", context |-> Head(deferred)] \in Frame
    BY <1>4 DEF Frame, WaitKind
  <2>2. Pushed([kind |-> "item", context |-> Head(deferred)])
    BY <1>1, <2>1, PushStack DEF IInv, StackInv
  <2> QED
    BY <1>1, <2>2 DEF IInv, StackInv
<1>6. LibTypeOK'
  BY <1>1, <1>2, <1>3, Basics DEF IInv, LibTypeOK, ProxyPlace, EpPlace
<1>7. KernelInv' /\ HandlerInv'
  BY <1>1, KernelFrame
<1>8. BlockInv'
  BY <1>1, <1>2, <1>3, Basics DEF IInv, BlockInv
<1>9. MutexInv'
  BY <1>1, <1>2, <1>3, Basics DEF IInv, MutexInv
<1>10. VictimInv'
  BY <1>1, <1>2, <1>3, Basics, <1>5 DEF IInv, VictimInv, Pushed
<1>11. HoldInv'
  BY <1>1, <1>2, <1>3, Basics DEF IInv, HoldInv, Holds, Holding
<1>12. AliveInv'
  BY <1>1, <1>2, <1>3, Basics, <1>4, <1>5 DEF IInv, AliveInv, Pushed
<1>13. StackInv'
  BY <1>1, <1>2, <1>3, Basics, <1>5 DEF IInv, StackInv, Pushed
<1>14. SignalInv'
  BY <1>1, <1>2, <1>3, Basics DEF IInv, SignalInv, Holds, Holding
<1>15. PendingInv'
  BY <1>1, <1>2, <1>3, Basics, <1>5 DEF IInv, PendingInv, Marks, ProxyLooks, EpLooks, Draining, StackInv, Pushed
<1> QED
  BY <1>6, <1>7, <1>8, <1>9, <1>10, <1>11, <1>12, <1>13, <1>14, <1>15 DEF IInv

\* A deferred signal is in the list once, at its front.
LEMMA DeferredElements ==
  ASSUME deferred \in Seq(Context), Distinct(deferred), NEW c \in Context
  PROVE  /\ Deferred(c) \in Seq(Context) /\ Distinct(Deferred(c))
         /\ \A u : u \in ToSet(Deferred(c)) <=> u \in ToSet(deferred) \/ u = c
<1> DEFINE q == Without(deferred, c)
<1>1. q \in Seq(Context) /\ Distinct(q) /\ \A u : u \in ToSet(q) <=> u \in ToSet(deferred) /\ u # c
  BY WithoutElements
<1> HIDE DEF q
<1>2. LET r == <<c>> \o q IN
      r \in Seq(Context) /\ Distinct(r) /\ \A u : u \in ToSet(r) <=> u \in ToSet(q) \/ u = c
  BY <1>1, PrependedElements
<1> QED
  BY <1>1, <1>2 DEF Deferred, q

\* What pending_signal's caller does with the signal of context c
Got(c, next) ==
  /\ sum' = [sum EXCEPT ![c] = next]
  /\ \/ /\ Top.kind # "signal" /\ pc' = [pc EXCEPT ![Ep] = "scan"] /\ UNCHANGED stack
        /\ deferred' \in Seq(Context) /\ Distinct(deferred')
        /\ \A u \in Context : u \in ToSet(deferred') <=> u \in ToSet(deferred) \/ u = c
     \/ pc' = [pc EXCEPT ![Ep] = "user"] /\ Marked(c) /\ UNCHANGED deferred

LEMMA GotOutcome ==
  ASSUME IInv, pc[Ep] \in {"scan", "pollAck"}, NEW c \in Context, NEW next, GotSignal(c, next)
  PROVE  Got(c, next)
<1>1. deferred \in Seq(Context) /\ Distinct(deferred) /\ stack \in Seq(Frame) /\ stack # <<>>
  BY DEF IInv, AliveInv, StackInv
<1>2. CASE Top.kind # "signal" /\ c \notin Io
  BY <1>1, <1>2, DeferredElements DEF GotSignal, Got, Goto
<1>3. CASE ~(Top.kind # "signal" /\ c \notin Io)
  <2>1. stack' = [stack EXCEPT ![Len(stack)].context = c] /\ Goto(Ep, "user") /\ UNCHANGED deferred
    BY <1>3 DEF GotSignal
  <2>2. Marked(c)
    BY <1>1, <2>1, MarkStack
  <2> QED
    BY <2>1, <2>2 DEF GotSignal, Got, Goto
<1> QED
  BY <1>2, <1>3

\* The same, part by part
GotParts(c) ==
  /\ pc' \in [Thread -> Place] /\ pc'[Proxy] = pc[Proxy] /\ pc'[Ep] \in {"scan", "user"}
  /\ pc'[Ep] = "scan" => Top'.kind # "signal"
  /\ Top'.kind = Top.kind
  /\ stack' \in Seq(Frame) /\ stack' # <<>> /\ Len(stack') = Len(stack) /\ DOMAIN stack' = DOMAIN stack
  /\ \A i \in DOMAIN stack : stack'[i].kind = stack[i].kind
  /\ \A i \in DOMAIN stack : stack'[i].context \in {stack[i].context, c}
  /\ deferred' \in Seq(Context) /\ Distinct(deferred')
  /\ \A u \in Context : u \in ToSet(deferred') => u \in ToSet(deferred) \/ u = c

LEMMA GotInParts ==
  ASSUME IInv, pc[Ep] \in {"scan", "pollAck"}, NEW c \in Context, NEW next, Got(c, next)
  PROVE  GotParts(c)
<1>1. /\ deferred \in Seq(Context) /\ Distinct(deferred)
      /\ stack \in Seq(Frame) /\ stack # <<>> /\ pc \in [Thread -> Place]
  BY DEF IInv, AliveInv, StackInv, LibTypeOK
<1>2. "scan" \in Place /\ "user" \in Place
  BY DEF Place, EpPlace
<1>3. Len(stack) \in DOMAIN stack /\ Top = stack[Len(stack)] /\ Top' = stack'[Len(stack')]
  BY <1>1 DEF Top, Last
<1>4. CASE /\ Top.kind # "signal" /\ pc' = [pc EXCEPT ![Ep] = "scan"] /\ UNCHANGED stack
           /\ deferred' \in Seq(Context) /\ Distinct(deferred')
           /\ \A u \in Context : u \in ToSet(deferred') <=> u \in ToSet(deferred) \/ u = c
  BY <1>1, <1>2, <1>3, <1>4, Basics DEF GotParts
<1>5. CASE pc' = [pc EXCEPT ![Ep] = "user"] /\ Marked(c) /\ UNCHANGED deferred
  BY <1>1, <1>2, <1>3, <1>5, Basics DEF GotParts, Marked
<1> QED
  BY <1>4, <1>5 DEF Got

\* The frames stay where they are.
LEMMA GotStack ==
  ASSUME StackInv, pc[Ep] \in {"scan", "pollAck"}, NEW c, GotParts(c)
  PROVE  StackInv'
<1>1. /\ pc'[Proxy] = pc[Proxy] /\ pc'[Ep] \in {"scan", "user"} /\ Top'.kind = Top.kind
      /\ stack' \in Seq(Frame) /\ stack' # <<>> /\ Len(stack') = Len(stack) /\ DOMAIN stack' = DOMAIN stack
      /\ \A i \in DOMAIN stack : stack'[i].kind = stack[i].kind
  BY DEF GotParts
<1>2. stack # <<>> /\ 1 \in DOMAIN stack
  BY DEF StackInv
<1>3. \A i \in DOMAIN stack' : stack'[i].kind \in {"signal", "rpc"} <=> i = 1
  BY <1>1 DEF StackInv
<1>4. \A i \in DOMAIN stack' : stack'[i].kind = "item" => i = 2 /\ stack'[1].kind = "signal"
  BY <1>1, <1>2 DEF StackInv
<1>5. Top.kind \in {"signal", "wait", "try"}
  BY DEF StackInv
<1>6. pc'[Proxy] = "inCall" <=> stack' # <<>> /\ stack'[1].kind = "signal"
  BY <1>1, <1>2 DEF StackInv
<1> QED
  BY <1>1, <1>3, <1>4, <1>5, <1>6 DEF StackInv

LEMMA GotLooks ==
  ASSUME IInv, pc[Ep] \in {"scan", "pollAck"}, NEW c, GotParts(c), UNCHANGED delivers
  PROVE  ProxyLooks' <=> ProxyLooks
<1>1. /\ pc'[Proxy] = pc[Proxy] /\ pc'[Ep] \in {"scan", "user"}
      /\ Len(stack') = Len(stack)
      /\ \A i \in DOMAIN stack : stack'[i].kind = stack[i].kind
  BY DEF GotParts
<1>2. Len(stack) > 1 => 2 \in DOMAIN stack
  BY DEF IInv, StackInv
<1> QED
  BY <1>1, <1>2 DEF ProxyLooks, Draining

\* pending_signal finds no pending context.
LEMMA ScanNoneKeeps ==
  ASSUME IInv, Scan, pending \cap ToSet(ring) = {}
  PROVE  IInv'
<1>1. /\ pc[Ep] = "scan" /\ pc' = [pc EXCEPT ![Ep] = "poll"]
      /\ UNCHANGED <<kernelVars, utcb, libVars, blockMutex, delivers, deferred, stack, victim, sum>>
  BY DEF Scan, Goto
<1>2. pc'[Ep] = "poll" /\ pc'[Proxy] = pc[Proxy] /\ pc' \in [Thread -> Place]
  BY <1>1, Basics DEF IInv, LibTypeOK, Place, ProxyPlace, EpPlace
<1>3. UNCHANGED <<state, receiver, submits, ack, killed, killer, pending, curr, ring, reused, reused>>
  BY <1>1 DEF kernelVars, libVars
<1>4. LibTypeOK'
  BY <1>1, <1>2, <1>3, Basics DEF IInv, LibTypeOK, ProxyPlace, EpPlace
<1>5. KernelInv' /\ HandlerInv'
  BY <1>1, KernelFrame
<1>6. BlockInv'
  BY <1>1, <1>2, <1>3, Basics DEF IInv, BlockInv
<1>7. MutexInv'
  BY <1>1, <1>2, <1>3, Basics DEF IInv, MutexInv
<1>8. VictimInv'
  BY <1>1, <1>2, <1>3, Basics DEF IInv, VictimInv
<1>9. HoldInv'
  BY <1>1, <1>2, <1>3, Basics DEF IInv, HoldInv, Holds, Holding
<1>10. AliveInv'
  BY <1>1, <1>2, <1>3, Basics DEF IInv, AliveInv
<1>11. StackInv'
  BY <1>1, <1>2, <1>3, Basics DEF IInv, StackInv, Top
<1>12. SignalInv'
  BY <1>1, <1>2, <1>3, Basics DEF IInv, SignalInv, Holds, Holding
<1>13. PendingInv'
  <2>1. Marks' = {}
    BY <1>1, <1>3 DEF IInv, AliveInv, Marks
  <2> QED
    BY <2>1 DEF PendingInv
<1> QED
  BY <1>4, <1>5, <1>6, <1>7, <1>8, <1>9, <1>10, <1>11, <1>12, <1>13 DEF IInv

\* The search ends with pending context c.
ScanHits(c) ==
  /\ pc[Ep] = "scan" /\ c \in pending /\ receiver[c] # None
  /\ pending' = pending \ {c} /\ curr' = [curr EXCEPT ![c] = 0]
  /\ ring' \in Seq(Context) /\ Distinct(ring') /\ \A u : u \in ToSet(ring') <=> u \in ToSet(ring)
  /\ UNCHANGED <<kernelVars, utcb, reused, blockMutex, delivers, victim>>

\* Its signal is invalid.
ScanInvalid(c) ==
  curr[c] = 0 /\ pc' = [pc EXCEPT ![Ep] = "poll"] /\ UNCHANGED <<deferred, stack, sum>>

LEMMA ScanOutcome ==
  ASSUME IInv, Scan, pending \cap ToSet(ring) # {}
  PROVE  \E c \in Context : ScanHits(c) /\ (ScanInvalid(c) \/ GotSignal(c, 0))
<1> DEFINE i == SelectInSeq(ring, LAMBDA x : x \in pending)
           c == ring[i]
<1>1. ring \in Seq(Context) /\ Distinct(ring)
  BY DEF IInv, AliveInv
<1>2. i \in 1 .. Len(ring) /\ c \in pending
  BY <1>1, ScanFinds
<1>3. /\ pc[Ep] = "scan" /\ ring' = Turned(i) /\ pending' = pending \ {c}
      /\ curr' = [curr EXCEPT ![c] = 0] /\ (ScanInvalid(c) \/ GotSignal(c, 0))
      /\ UNCHANGED <<kernelVars, utcb, reused, blockMutex, delivers, victim>>
  BY DEF Scan, ScanInvalid, Goto
<1> HIDE DEF i
<1>4. Turned(i) \in Seq(Context) /\ Distinct(Turned(i)) /\ \A u : u \in ToSet(Turned(i)) <=> u \in ToSet(ring)
  BY <1>1, <1>2, TurnedElements
<1>5. c \in Context /\ c \in ToSet(ring)
  BY <1>1, <1>2 DEF ToSet
<1>6. receiver[c] # None
  BY <1>5 DEF IInv, AliveInv
<1> HIDE DEF c
<1>7. ScanHits(c)
  BY <1>2, <1>3, <1>4, <1>6 DEF ScanHits
<1> QED
  BY <1>3, <1>5, <1>7

\* pending_signal ends its search with a context that was pending when it was managed.
LEMMA ScanInvalidKeeps ==
  ASSUME IInv, NEW c \in Context, ScanHits(c), ScanInvalid(c)
  PROVE  IInv'
<1>1. /\ pc[Ep] = "scan" /\ pc' = [pc EXCEPT ![Ep] = "poll"] /\ c \in pending /\ receiver[c] # None
      /\ pending' = pending \ {c} /\ curr' = [curr EXCEPT ![c] = 0] /\ curr[c] = 0
      /\ ring' \in Seq(Context) /\ Distinct(ring') /\ \A u : u \in ToSet(ring') <=> u \in ToSet(ring)
      /\ UNCHANGED <<kernelVars, utcb, reused, blockMutex, delivers, deferred, stack, victim, sum>>
  BY DEF ScanHits, ScanInvalid
<1>2. pc'[Ep] = "poll" /\ pc'[Proxy] = pc[Proxy] /\ pc' \in [Thread -> Place]
  BY <1>1, Basics DEF IInv, LibTypeOK, Place, ProxyPlace, EpPlace
<1>3. UNCHANGED <<state, receiver, submits, ack, killed, killer>>
  BY <1>1 DEF kernelVars
<1>4. victim = None /\ curr' \in [Context -> 0 .. MaxNum]
  BY <1>1, EntrypointAssumption DEF IInv, VictimInv, LibTypeOK
<1>5. reused /\ reused'
  BY <1>1, <1>4, Basics DEF IInv, SignalInv
<1>6. LibTypeOK'
  BY <1>1, <1>2, <1>3, <1>4, Basics DEF IInv, LibTypeOK, ProxyPlace, EpPlace
<1>7. KernelInv' /\ HandlerInv'
  BY <1>1, KernelFrame
<1>8. BlockInv'
  BY <1>1, <1>2, <1>3, Basics DEF IInv, BlockInv
<1>9. MutexInv'
  BY <1>1, <1>2, <1>3, Basics DEF IInv, MutexInv
<1>10. VictimInv'
  BY <1>1, <1>2, <1>3, Basics DEF IInv, VictimInv
<1>11. HoldInv'
  BY <1>1, <1>2, <1>3, Basics DEF IInv, HoldInv, Holds, Holding
<1>12. AliveInv'
  BY <1>1, <1>2, <1>3, Basics DEF IInv, AliveInv
<1>13. StackInv'
  BY <1>1, <1>2, <1>3, Basics DEF IInv, StackInv, Top
<1>14. SignalInv' /\ PendingInv'
  BY <1>1, <1>3, <1>5 DEF IInv, SignalInv, PendingInv
<1> QED
  BY <1>6, <1>7, <1>8, <1>9, <1>10, <1>11, <1>12, <1>13, <1>14 DEF IInv

\* pending_signal returns the signal of a pending context.
LEMMA ScanReturnsKeeps ==
  ASSUME IInv, NEW c \in Context, ScanHits(c), GotSignal(c, 0)
  PROVE  IInv'
<1>1. /\ pc[Ep] = "scan" /\ c \in pending /\ receiver[c] # None
      /\ pending' = pending \ {c} /\ curr' = [curr EXCEPT ![c] = 0]
      /\ ring' \in Seq(Context) /\ Distinct(ring') /\ \A u : u \in ToSet(ring') <=> u \in ToSet(ring)
      /\ UNCHANGED <<kernelVars, utcb, reused, blockMutex, delivers, victim>>
      /\ Got(c, 0)
  BY GotOutcome DEF ScanHits
<1>2. GotParts(c) /\ sum' = [sum EXCEPT ![c] = 0]
  BY <1>1, GotInParts DEF Got
<1>3. UNCHANGED <<state, receiver, submits, ack, killed, killer>>
  BY <1>1 DEF kernelVars
<1>4. victim = None
  BY <1>1 DEF IInv, VictimInv
<1>5. /\ curr' \in [Context -> 0 .. MaxNum] /\ sum' \in [Context -> 0 .. MaxNum]
      /\ curr'[c] = 0 /\ sum'[c] = 0
      /\ \A b \in Context : b # c => curr'[b] = curr[b] /\ sum'[b] = sum[b]
  BY <1>1, <1>2, EntrypointAssumption DEF IInv, LibTypeOK
<1>6. LibTypeOK'
  BY <1>1, <1>2, <1>3, <1>4, <1>5, Basics DEF IInv, LibTypeOK, EpPlace, GotParts
<1>7. KernelInv' /\ HandlerInv'
  BY <1>1, KernelFrame
<1>8. BlockInv'
  BY <1>1, <1>2, <1>3, <1>4, <1>5, Basics DEF IInv, BlockInv, GotParts
<1>9. MutexInv'
  BY <1>1, <1>2, <1>3, <1>4, <1>5, Basics DEF IInv, MutexInv, GotParts
<1>10. VictimInv'
  BY <1>1, <1>2, <1>3, <1>4, <1>5, Basics DEF IInv, VictimInv, GotParts
<1>11. HoldInv'
  BY <1>1, <1>2, <1>3, <1>4, <1>5, Basics DEF IInv, HoldInv, Holds, Holding, GotParts
<1>12. AliveInv'
  <2>1. /\ UNCHANGED receiver /\ pending' \subseteq pending
        /\ ring' \in Seq(Context) /\ Distinct(ring') /\ \A u : u \in ToSet(ring') <=> u \in ToSet(ring)
    BY <1>1, <1>3
  <2> QED
    BY <1>1, <1>2, <2>1 DEF IInv, AliveInv, GotParts
<1>13. StackInv'
  BY <1>1, <1>2, GotStack DEF IInv
<1>14. SignalInv'
  <2>1. pc'[Proxy] = pc[Proxy] /\ pc'[Ep] \in {"scan", "user"}
    BY <1>2 DEF GotParts
  <2>2. \A b \in Context : Holds(Proxy, b)' <=> Holds(Proxy, b)
    BY <1>1, <1>3, <2>1 DEF Holds, Holding
  <2>3. \A b \in Context : ~Holds(Ep, b) /\ ~Holds(Ep, b)'
    BY <1>1, <2>1 DEF Holds, Holding
  <2> QED
    BY <1>1, <1>2, <1>3, <1>4, <1>5, Basics, <2>1, <2>2, <2>3 DEF IInv, SignalInv
<1>15. PendingInv'
  <2>1. ProxyLooks' <=> ProxyLooks
    BY <1>1, <1>2, GotLooks
  <2>2. EpLooks
    BY <1>1 DEF EpLooks
  <2>3. Marks' = Marks \ {c} /\ c \in Marks
    BY <1>1, <1>3, <1>4, Basics DEF IInv, AliveInv, Marks
  <2> QED
    BY <1>1, <2>1, <2>2, <2>3 DEF IInv, PendingInv
<1> QED
  BY <1>6, <1>7, <1>8, <1>9, <1>10, <1>11, <1>12, <1>13, <1>14, <1>15 DEF IInv

\* A context is managed, be it a new one or one that has been dissolved.
LEMMA ManageKeeps ==
  ASSUME IInv, NEW c \in User, NEW new \in BOOLEAN, Manage(c, new)
  PROVE  IInv'
<1>1. /\ Kernel!NewContext(c, Rec) /\ c \in Context /\ pc[Ep] = "user"
      /\ UNCHANGED <<pc, utcb, blockMutex, delivers, deferred, stack, victim, sum>>
      /\ ring' = Append(ring, c)
      /\ pending' = IF new THEN pending \ {c} ELSE pending
      /\ curr' = IF new THEN [curr EXCEPT ![c] = 0] ELSE curr
      /\ reused' = (reused \/ c \in pending')
  BY Basics DEF Manage, InUserCode, epVars
<1>2. /\ KernelInv' /\ HandlerInv' /\ receiver[c] = None
      /\ receiver' = [receiver EXCEPT ![c] = Rec]
      /\ UNCHANGED <<state, submits, ack, killed, killer, handlers>>
  BY <1>1, NewEffect DEF IInv
<1>3. /\ receiver'[c] = Rec /\ Rec # None
      /\ \A b \in Context : b # c => receiver'[b] = receiver[b]
      /\ \A b \in Context : receiver[b] # None => receiver'[b] # None
  BY <1>1, <1>2, KernelTypes DEF IInv
<1>4. /\ victim = None /\ sum[c] = 0
      /\ curr' \in [Context -> 0 .. MaxNum] /\ \A b \in Context : b # c => curr'[b] = curr[b]
      /\ pending' \subseteq pending /\ \A b \in Context : b # c => (b \in pending' <=> b \in pending)
  BY <1>1, <1>2, EntrypointAssumption DEF IInv, VictimInv, LibTypeOK, SignalInv
<1>14. LibTypeOK'
  BY <1>1, <1>4 DEF IInv, LibTypeOK
<1>5. KernelInv' /\ HandlerInv'
  BY <1>2
<1>6. BlockInv'
  BY <1>1, <1>2, <1>3, Basics DEF IInv, BlockInv
<1>7. MutexInv'
  BY <1>1, <1>2, <1>3, Basics DEF IInv, MutexInv
<1>8. VictimInv'
  BY <1>1, <1>2, <1>3, Basics DEF IInv, VictimInv, LibTypeOK
<1>9. HoldInv'
  BY <1>1, <1>2, <1>3, Basics DEF IInv, HoldInv, Holds, Holding
<1>10. AliveInv'
  <2>1. /\ ring \in Seq(Context) /\ Distinct(ring) /\ c \notin ToSet(ring)
    BY <1>1, <1>2 DEF IInv, AliveInv
  <2>2. ring' \in Seq(Context) /\ Distinct(ring') /\ \A u : u \in ToSet(ring') <=> u \in ToSet(ring) \/ u = c
    BY <1>1, <2>1, AppendedElements
  <2>3. \A i \in DOMAIN stack : stack[i].context \in Context \cup {None}
    <3>1. \A i \in DOMAIN stack : stack[i] \in Frame
      BY DEF IInv, StackInv
    <3> QED
      BY <3>1 DEF Frame, WaitKind
  <2> QED
    BY <1>1, <1>2, <1>3, Basics, <2>2, <2>3 DEF IInv, AliveInv
<1>11. StackInv'
  BY <1>1, <1>2, <1>3, Basics DEF IInv, StackInv, Top
<1>12. SignalInv'
  <2>1. ASSUME ~reused' PROVE ~reused /\ c \notin pending'
    BY <1>1, <2>1
  <2>2. \A b \in Context, t \in Thread : Holds(t, b)' <=> Holds(t, b)
    BY <1>1, <1>2 DEF Holds, Holding
  <2>3. ASSUME ~reused' PROVE \A b \in pending' : receiver'[b] # None /\ b # victim' => curr'[b] >= 1
    BY <1>1, <1>3, <1>4, <2>1, <2>3 DEF IInv, SignalInv, AliveInv
  <2>4. ASSUME ~reused', NEW b \in Context, b # victim', sum'[b] > 0
        PROVE  b \in pending' \/ \E t \in Thread : Holds(t, b)' /\ pc'[t] # "ack"
    <3>1. sum[b] > 0 /\ b # c /\ b # victim /\ UNCHANGED pc
      BY <1>1, <1>4, <2>4
    <3> QED
      BY <1>4, <2>1, <2>2, <2>4, <3>1 DEF IInv, SignalInv
  <2>5. \A b \in Context : receiver'[b] = None => sum'[b] = 0
    BY <1>1, <1>3 DEF IInv, SignalInv
  <2> QED
    BY <2>3, <2>4, <2>5 DEF SignalInv
<1>13. PendingInv'
  <2>1. ASSUME ~reused' PROVE ~reused /\ Marks' \subseteq Marks
    BY <1>1, <1>3, <1>4, <2>1 DEF IInv, AliveInv, Marks
  <2>2. (ProxyLooks' <=> ProxyLooks) /\ (EpLooks' <=> EpLooks)
    BY <1>1 DEF ProxyLooks, EpLooks, Draining
  <2> QED
    BY <2>1, <2>2 DEF IInv, PendingInv
<1> QED
  BY <1>14, <1>5, <1>6, <1>7, <1>8, <1>9, <1>10, <1>11, <1>12, <1>13 DEF IInv

-----------------------------------------------------------------------------
(* Steps that enter the kernel *)

\* Whoever waits at the receiver is blocked in block_for_signal.
LEMMA WaitsWoken ==
  ASSUME HandlerInv, BlockInv, NEW t \in Thread, handlers[Rec] = <<t>>
  PROVE  state[t] = "AWAITS_SIGNAL" /\ pc[t] = "woken"
BY DEF HandlerInv, BlockInv

\* The other thread does not wait there, for want of the mutex.
LEMMA NobodyWaits ==
  ASSUME IInv, NEW t \in Thread, pc[t] \in {"await", "ack"}
  PROVE  handlers[Rec] = <<>>
<1>1. SUFFICES ASSUME NEW u \in Thread, handlers[Rec] = <<u>>
               PROVE  FALSE
  BY DEF IInv, HandlerInv
<1>2. pc[u] = "woken"
  BY <1>1, WaitsWoken DEF IInv
<1> QED
  BY <1>2 DEF IInv, MutexInv

\* A submit is counted.
LEMMA TriggerCountsKeeps ==
  ASSUME IInv, NEW c \in User, Trigger(c), UNCHANGED <<state, ack, utcb, sum>>,
         submits' = [submits EXCEPT ![c] = @ + 1]
  PROVE  IInv'
<1>1. c \in Context /\ SubmitSignal(c) /\ UNCHANGED <<pc, libVars, epVars>>
  BY Basics DEF Trigger
<1>2. KernelInv' /\ HandlerInv' /\ KillSame
  BY <1>1, LibSubmit DEF IInv
<1>3. /\ UNCHANGED <<receiver, killed, killer, pc, pending, curr, ring, reused, blockMutex, delivers, deferred,
                     stack, victim>>
      /\ \A b \in Context : b # c => submits'[b] = submits[b]
  BY <1>1, <1>2, KernelTypes DEF IInv, KillSame, libVars, epVars
<1>4. LibTypeOK'
  BY <1>1, <1>2, <1>3, Basics DEF IInv, LibTypeOK
<1>5. KernelInv' /\ HandlerInv'
  BY <1>2
<1>6. BlockInv'
  BY <1>1, <1>2, <1>3, Basics DEF IInv, BlockInv
<1>7. MutexInv'
  BY <1>1, <1>2, <1>3, Basics DEF IInv, MutexInv
<1>8. VictimInv'
  BY <1>1, <1>2, <1>3, Basics DEF IInv, VictimInv, LibTypeOK
<1>9. HoldInv'
  BY <1>1, <1>2, <1>3, Basics DEF IInv, HoldInv, Holds, Holding
<1>10. AliveInv'
  BY <1>1, <1>2, <1>3, Basics DEF IInv, AliveInv
<1>11. StackInv'
  BY <1>1, <1>2, <1>3, Basics DEF IInv, StackInv, Top
<1>12. SignalInv'
  BY <1>1, <1>2, <1>3, Basics DEF IInv, SignalInv, Holds, Holding
<1>13. PendingInv'
  BY <1>1, <1>2, <1>3, Basics DEF IInv, PendingInv, Marks, ProxyLooks, EpLooks, Draining
<1> QED
  BY <1>4, <1>5, <1>6, <1>7, <1>8, <1>9, <1>10, <1>11, <1>12, <1>13 DEF IInv

\* A submit reaches the thread that waits.
LEMMA TriggerArrivesKeeps ==
  ASSUME IInv, NEW c \in Context, NEW t \in Thread, SubmitSignal(c), handlers[Rec] = <<t>>, c \in ack,
         Arrives(t, c, utcb), UNCHANGED <<pc, libVars, epVars>>
  PROVE  IInv'
<1>1. KernelInv' /\ HandlerInv' /\ KillSame /\ receiver[c] # None /\ c \notin killed
  BY LibSubmit DEF IInv
<1>2. UNCHANGED <<receiver, killed, killer, pc, pending, curr, ring, reused, blockMutex, delivers, deferred,
                  stack, victim>>
  BY <1>1 DEF KillSame, libVars, epVars
<1>3. /\ utcb' \in UtcbType /\ utcb'[t].context = c /\ utcb'[t].num >= 1
      /\ \A u \in Thread : u # t => utcb'[u] = utcb[u] /\ state'[u] = state[u]
      /\ state'[t] = "ACTIVE"
      /\ ack' = ack \ {c} /\ submits'[c] = 0
      /\ \A b \in Context : b # c => submits'[b] = submits[b] /\ sum'[b] = sum[b]
      /\ sum' \in [Context -> 0 .. MaxNum]
  BY Arrived DEF IInv, LibTypeOK, UtcbType
<1>4. state[t] = "AWAITS_SIGNAL" /\ pc[t] = "woken"
  BY WaitsWoken DEF IInv
<1>5. \A u \in Thread, b \in Context :
         (u = t => ~Holds(u, b)) /\ (u # t => (Holds(u, b)' <=> Holds(u, b)))
  BY <1>2, <1>3, <1>4 DEF Holds, Holding
<1>6. LibTypeOK'
  BY <1>1, <1>2, <1>3, <1>4, <1>5, Basics DEF IInv, LibTypeOK, UtcbType
<1>7. KernelInv' /\ HandlerInv'
  BY <1>1
<1>8. BlockInv'
  BY <1>1, <1>2, <1>3, <1>4, <1>5, Basics DEF IInv, BlockInv
<1>9. MutexInv'
  BY <1>1, <1>2, <1>3, <1>4, <1>5, Basics DEF IInv, MutexInv
<1>10. VictimInv'
  BY <1>1, <1>2, <1>3, <1>4, <1>5, Basics DEF IInv, VictimInv, LibTypeOK
<1>11. HoldInv'
  BY <1>1, <1>2, <1>3, <1>4, <1>5, Basics DEF IInv, HoldInv, Holds, Holding
<1>12. AliveInv'
  BY <1>1, <1>2, <1>3, <1>4, <1>5, Basics DEF IInv, AliveInv
<1>13. StackInv'
  BY <1>1, <1>2, <1>3, <1>4, <1>5, Basics DEF IInv, StackInv, Top
<1>14. SignalInv'
  BY <1>1, <1>2, <1>3, <1>4, <1>5, Basics DEF IInv, SignalInv, Holds, Holding
<1>15. PendingInv'
  BY <1>1, <1>2, <1>3, <1>4, <1>5, Basics DEF IInv, PendingInv, Marks, ProxyLooks, EpLooks, Draining
<1> QED
  BY <1>6, <1>7, <1>8, <1>9, <1>10, <1>11, <1>12, <1>13, <1>14, <1>15 DEF IInv

LEMMA TriggerKeeps ==
  ASSUME IInv, NEW c \in User, Trigger(c)
  PROVE  IInv'
<1>1. c \in Context /\ SubmitSignal(c) /\ UNCHANGED <<pc, libVars, epVars>>
  BY Basics DEF Trigger
<1>2. \/ UNCHANGED <<state, ack, utcb, sum>> /\ submits' = [submits EXCEPT ![c] = @ + 1]
      \/ \E t \in Thread : handlers[Rec] = <<t>> /\ c \in ack /\ Arrives(t, c, utcb)
  BY <1>1, LibSubmit DEF IInv
<1> QED
  BY <1>1, <1>2, TriggerCountsKeeps, TriggerArrivesKeeps

\* block_for_signal blocks.
LEMMA AwaitBlocksKeeps ==
  ASSUME IInv, NEW t \in Thread, pc[t] = "await", pc' = [pc EXCEPT ![t] = "woken"], state[t] = "ACTIVE",
         KernelInv', HandlerInv', KillSame,
         state' = [state EXCEPT ![t] = "AWAITS_SIGNAL"], UNCHANGED <<submits, ack, utcb, sum>>,
         UNCHANGED <<pending, curr, ring, reused, epVars>>
  PROVE  IInv'
<1>1. /\ pc'[t] = "woken" /\ \A u \in Thread : u # t => pc'[u] = pc[u]
      /\ pc' \in [Thread -> Place]
  BY Basics DEF IInv, LibTypeOK, Place, ProxyPlace, EpPlace
<1>2. UNCHANGED <<receiver, killed, killer, pending, curr, ring, reused, blockMutex, delivers, deferred,
                  stack, victim>>
  BY DEF KillSame, libVars, epVars
<1>3. state'[t] = "AWAITS_SIGNAL" /\ \A u \in Thread : u # t => state'[u] = state[u]
  BY KernelTypes DEF IInv
<1>4. LibTypeOK'
  BY <1>1, <1>2, <1>3, Basics DEF IInv, LibTypeOK, ProxyPlace, EpPlace
<1>5. KernelInv' /\ HandlerInv'
  OBVIOUS
<1>6. BlockInv'
  BY <1>1, <1>2, <1>3, Basics DEF IInv, BlockInv
<1>7. MutexInv'
  BY <1>1, <1>2, <1>3, Basics DEF IInv, MutexInv
<1>8. VictimInv'
  BY <1>1, <1>2, <1>3, Basics DEF IInv, VictimInv
<1>9. HoldInv'
  BY <1>1, <1>2, <1>3, Basics DEF IInv, HoldInv, Holds, Holding
<1>10. AliveInv'
  BY <1>1, <1>2, <1>3, Basics DEF IInv, AliveInv
<1>11. StackInv'
  BY <1>1, <1>2, <1>3, Basics DEF IInv, StackInv, Top
<1>12. SignalInv'
  BY <1>1, <1>2, <1>3, Basics DEF IInv, SignalInv, Holds, Holding
<1>13. PendingInv'
  BY <1>1, <1>2, <1>3, Basics DEF IInv, PendingInv, Marks, ProxyLooks, EpLooks, Draining
<1> QED
  BY <1>4, <1>5, <1>6, <1>7, <1>8, <1>9, <1>10, <1>11, <1>12, <1>13 DEF IInv

\* block_for_signal or the poll of pending_signal obtains a signal at once.
LEMMA AwaitArrivesKeeps ==
  ASSUME IInv, NEW t \in Thread, NEW c \in Context, NEW place \in {"woken", "pollUpdate"},
         pc[t] = IF place = "woken" THEN "await" ELSE "poll", state[t] = "ACTIVE",
         pc' = [pc EXCEPT ![t] = place],
         KernelInv', HandlerInv', KillSame,
         receiver[c] # None, c \in ack \ killed, submits[c] > 0, Arrives(t, c, utcb),
         UNCHANGED <<pending, curr, ring, reused, epVars>>
  PROVE  IInv'
<1>1. /\ pc'[t] = place /\ \A u \in Thread : u # t => pc'[u] = pc[u]
      /\ pc' \in [Thread -> Place]
  BY Basics DEF IInv, LibTypeOK, Place, ProxyPlace, EpPlace
<1>2. UNCHANGED <<receiver, killed, killer, pending, curr, ring, reused, blockMutex, delivers, deferred,
                  stack, victim>>
  BY DEF KillSame, libVars, epVars
<1>3. /\ utcb' \in UtcbType /\ utcb'[t].context = c /\ utcb'[t].num >= 1
      /\ \A u \in Thread : u # t => utcb'[u] = utcb[u] /\ state'[u] = state[u]
      /\ state'[t] = "ACTIVE"
      /\ ack' = ack \ {c} /\ submits'[c] = 0
      /\ \A b \in Context : b # c => submits'[b] = submits[b] /\ sum'[b] = sum[b]
      /\ sum' \in [Context -> 0 .. MaxNum]
  BY Arrived DEF IInv, LibTypeOK, UtcbType
<1>4. c \notin killed
  OBVIOUS
<1>5. \A u \in Thread, b \in Context :
         (u = t => ~Holds(u, b)) /\ (u # t => (Holds(u, b)' <=> Holds(u, b)))
  BY <1>1, <1>3 DEF Holds, Holding
<1>6. LibTypeOK'
  BY <1>1, <1>2, <1>3, <1>4, Basics DEF IInv, LibTypeOK, UtcbType, ProxyPlace, EpPlace
<1>7. KernelInv' /\ HandlerInv'
  OBVIOUS
<1>8. BlockInv'
  BY <1>1, <1>2, <1>3, <1>4, Basics, <1>5 DEF IInv, BlockInv
<1>9. MutexInv'
  BY <1>1, <1>2, <1>3, <1>4, Basics, <1>5 DEF IInv, MutexInv
<1>10. VictimInv'
  BY <1>1, <1>2, <1>3, <1>4, Basics DEF IInv, VictimInv, LibTypeOK
<1>11. HoldInv'
  BY <1>1, <1>2, <1>3, <1>4, Basics, <1>5 DEF IInv, HoldInv, Holds, Holding
<1>12. AliveInv'
  BY <1>1, <1>2, <1>3, <1>4, Basics, <1>5 DEF IInv, AliveInv
<1>13. StackInv'
  BY <1>1, <1>2, <1>3, <1>4, Basics, <1>5 DEF IInv, StackInv, Top
<1>14. SignalInv'
  BY <1>1, <1>2, <1>3, <1>4, Basics, <1>5 DEF IInv, SignalInv, Holds, Holding
<1>15. PendingInv'
  BY <1>1, <1>2, <1>3, <1>4, Basics, <1>5 DEF IInv, PendingInv, Marks, ProxyLooks, EpLooks, Draining
<1> QED
  BY <1>6, <1>7, <1>8, <1>9, <1>10, <1>11, <1>12, <1>13, <1>14, <1>15 DEF IInv

LEMMA AwaitKeeps ==
  ASSUME IInv, NEW t \in Thread, Await(t), ~late'
  PROVE  IInv'
<1>1. /\ pc[t] = "await" /\ Kernel!AwaitSignal(t, Rec) /\ Receives(t, 0, utcb)
      /\ pc' = [pc EXCEPT ![t] = "woken"] /\ UNCHANGED <<pending, curr, ring, reused, epVars>>
      /\ Handed \cap killed = {}
  BY DEF Await, Goto
<1>2. handlers[Rec] = <<>>
  BY <1>1, NobodyWaits
<1>3. /\ KernelInv' /\ HandlerInv' /\ KillSame /\ state[t] = "ACTIVE"
      /\ \/ state' = [state EXCEPT ![t] = "AWAITS_SIGNAL"] /\ UNCHANGED <<submits, ack, utcb, sum>>
         \/ ArrivesNew(t)
  BY <1>1, <1>2, LibAwait DEF IInv
<1>4. CASE state' = [state EXCEPT ![t] = "AWAITS_SIGNAL"] /\ UNCHANGED <<submits, ack, utcb, sum>>
  BY <1>1, <1>3, <1>4, AwaitBlocksKeeps
<1>5. CASE ArrivesNew(t)
  <2>1. PICK c \in Context : receiver[c] # None /\ c \in ack /\ submits[c] > 0 /\ Arrives(t, c, utcb)
    BY <1>5 DEF ArrivesNew
  <2>2. Handed = {c}
    BY <1>3, <2>1, HandedOne DEF Arrives, KillSame, IInv
  <2>3. c \in ack \ killed
    BY <1>1, <2>1, <2>2
  <2> QED
    BY <1>1, <1>3, <2>1, <2>3, AwaitArrivesKeeps
<1> QED
  BY <1>3, <1>4, <1>5

\* block_for_signal acknowledges and returns.
LEMMA AckBlockedKeeps ==
  ASSUME IInv, NEW t \in Thread, AckBlocked(t)
  PROVE  IInv'
<1>1. /\ pc[t] = "ack" /\ AckSignal(t, utcb[t].context) /\ blockMutex' = None
      /\ pc' = [pc EXCEPT ![t] = IF t = Proxy THEN "call" ELSE "scan"]
      /\ UNCHANGED <<pending, curr, ring, reused, delivers, deferred, stack, victim>>
  BY DEF AckBlocked, Goto, libVars
<1>2. PICK c \in Context :
        /\ c = utcb[t].context /\ receiver[c] # None /\ c \notin ack
        /\ c \in killed => killer[c] # None
  BY <1>1 DEF IInv, HoldInv, Holding
<1>3. killer[c] # None => killer[c] = Ep /\ c = victim /\ state[Ep] = "AWAITS_SIGNAL_CONTEXT_KILL"
  BY <1>2, Basics DEF IInv, VictimInv
<1>4. KernelInv' /\ HandlerInv' /\ AckedOutcome(t, c)
  BY <1>1, <1>2, <1>3, LibAck DEF IInv
<1>5. handlers[Rec] = <<>>
  BY <1>1, NobodyWaits
<1>6. /\ UNCHANGED <<submits, sum, receiver, killed>> /\ utcb' = [utcb EXCEPT ![t] = NoData]
      /\ \/ c \notin killed /\ UNCHANGED <<state, killer>> /\ ack' = ack \cup {c}
         \/ /\ c \in killed /\ killer[c] # None /\ ack' = ack
            /\ state' = [state EXCEPT ![Ep] = "ACTIVE"] /\ killer' = [killer EXCEPT ![c] = None]
  <2>1. \A u : handlers[Rec] # <<u>>
    BY <1>5
  <2> QED
    BY <1>3, <1>4, <2>1 DEF AckedOutcome, KillSame
<1>7. /\ pc'[t] = (IF t = Proxy THEN "call" ELSE "scan") /\ \A u \in Thread : u # t => pc'[u] = pc[u]
      /\ pc' \in [Thread -> Place]
  BY <1>1, Basics DEF IInv, LibTypeOK, Place, ProxyPlace, EpPlace
<1>8. utcb' \in UtcbType /\ \A u \in Thread : u # t => utcb'[u] = utcb[u]
  BY <1>6, EntrypointAssumption DEF IInv, LibTypeOK, UtcbType, NoData
<1>9. c \in killed =>
        /\ t = Proxy /\ pc[Ep] = "free" /\ c = victim /\ state[Ep] = "AWAITS_SIGNAL_CONTEXT_KILL"
        /\ state'[Proxy] = state[Proxy] /\ state'[Ep] = "ACTIVE"
        /\ killer'[c] = None /\ \A b \in Context : b # c => killer'[b] = killer[b]
  BY <1>1, <1>2, <1>3, <1>6, Basics, KernelTypes DEF IInv, BlockInv
<1>10. \A b \in Context :
          /\ ~Holds(t, b)' /\ (Holds(t, b) <=> b = c)
          /\ \A u \in Thread : u # t => (Holds(u, b)' <=> Holds(u, b)) /\ (Holding(u)' <=> Holding(u))
  <2>1. ~Holding(t)' /\ Holding(t)
    BY <1>1, <1>7 DEF Holding
  <2>2. \A u \in Thread : u # t => (Holding(u)' <=> Holding(u))
    BY <1>6, <1>7, <1>9, Basics DEF Holding
  <2> QED
    BY <1>2, <1>8, <2>1, <2>2 DEF Holds
<1>11. \A u \in Thread : u # t /\ Holding(u) => utcb[u].context # c
  BY <1>1, <1>2, Basics DEF IInv, HoldInv, Holding
<1>12. LibTypeOK'
  BY <1>1, <1>6, <1>7, <1>8, Basics DEF IInv, LibTypeOK, UtcbType, ProxyPlace, EpPlace
<1>13. KernelInv' /\ HandlerInv'
  BY <1>4
<1>14. BlockInv'
  BY <1>1, <1>2, <1>6, <1>7, <1>8, <1>9, Basics DEF IInv, BlockInv
<1>15. MutexInv'
  BY <1>1, <1>2, <1>6, <1>7, <1>8, <1>9, Basics DEF IInv, MutexInv
<1>16. VictimInv'
  <2>1. CASE c \notin killed
    BY <1>1, <1>6, <1>7, <2>1, Basics DEF IInv, VictimInv
  <2>2. CASE c \in killed
    BY <1>1, <1>6, <1>7, <1>9, <2>2, Basics DEF IInv, VictimInv
  <2> QED
    BY <2>1, <2>2
<1>17. HoldInv'
  <2>1. ~Holding(t)' /\ \A u \in Thread : u # t => (Holding(u)' <=> Holding(u)) /\ utcb'[u] = utcb[u]
    BY <1>2, <1>7, <1>8, <1>10, Basics DEF Holding
  <2>2. \A b \in Context : b # c => (b \in ack' <=> b \in ack) /\ (killer'[b] = killer[b])
    BY <1>6, <1>9
  <2>3. \A u \in Thread :
          Holding(u)' =>
            /\ utcb'[u].context \in Context /\ utcb'[u].num >= 1
            /\ utcb'[u].context \notin ack' /\ receiver'[utcb'[u].context] # None
            /\ utcb'[u].context \in killed' => killer'[utcb'[u].context] # None
    BY <1>6, <1>11, <2>1, <2>2 DEF IInv, HoldInv
  <2>4. \A b \in Context \ (ack' \cup killed') : \E u \in Thread : Holds(u, b)'
    BY <1>2, <1>6, <1>10, <2>2 DEF IInv, HoldInv
  <2>5. ~(Holding(Proxy)' /\ Holding(Ep)')
    BY <2>1, Basics
  <2> QED
    BY <2>3, <2>4, <2>5 DEF HoldInv
<1>18. AliveInv'
  BY <1>1, <1>2, <1>6, <1>7, <1>8, <1>9, Basics DEF IInv, AliveInv
<1>19. StackInv'
  BY <1>1, <1>7, Basics DEF IInv, StackInv, Top
<1>20. SignalInv'
  <2>1. \A b \in Context :
          (\E u \in Thread : Holds(u, b) /\ pc[u] # "ack") =>
             \E u \in Thread : Holds(u, b)' /\ pc'[u] # "ack"
    BY <1>1, <1>7, <1>10
  <2> QED
    BY <1>1, <1>6, <2>1 DEF IInv, SignalInv
<1>21. PendingInv'
  <2>1. Marks' = Marks
    BY <1>1, <1>6 DEF Marks
  <2>2. Draining => Draining'
    BY <1>1, <1>7, Basics DEF Draining
  <2>3. ProxyLooks => ProxyLooks'
    BY <1>1, <1>7, <2>2, Basics DEF IInv, MutexInv, ProxyLooks
  <2>4. EpLooks => EpLooks'
    BY <1>1, <1>7, Basics DEF EpLooks
  <2> QED
    BY <1>1, <2>1, <2>3, <2>4 DEF IInv, PendingInv
<1> QED
  BY <1>12, <1>13, <1>14, <1>15, <1>16, <1>17, <1>18, <1>19, <1>20, <1>21 DEF IInv

\* A call has returned.
Returned ==
  /\ stack # <<>> /\ PoppedOff /\ StackInv'
  /\ pc' \in [Thread -> Place] /\ pc'[Ep] \in {"idle", "drain", "user"}
  /\ pc'[Proxy] = pc[Proxy] \/ (pc[Proxy] = "inCall" /\ pc'[Proxy] = "take")
  /\ Draining => Draining'
  /\ ProxyLooks => ProxyLooks'

LEMMA ReturnOutcome ==
  ASSUME IInv, pc[Ep] \in {"poll", "user"}, Return, UNCHANGED delivers
  PROVE  Returned
<1>1. stack \in Seq(Frame) /\ stack # <<>>
  BY DEF IInv, StackInv
<1>2. PoppedOff
  BY <1>1, PopStack DEF Return
<1>3. /\ Len(stack) \in Nat /\ Len(stack) > 0 /\ DOMAIN stack = 1 .. Len(stack)
      /\ stack[Len(stack)] \in Frame /\ Top = stack[Len(stack)]
  BY <1>1 DEF Top, Last
<1>4. Top.kind \in {"signal", "rpc", "item", "wait", "try"}
  BY <1>3 DEF Frame, WaitKind
<1>5. /\ Top.kind \in {"signal", "rpc"} <=> Len(stack) = 1
      /\ Top.kind = "item" => Len(stack) = 2 /\ stack[1].kind = "signal"
      /\ pc[Proxy] = "inCall" <=> stack[1].kind = "signal"
  BY <1>1, <1>3 DEF IInv, StackInv
<1>6. /\ pc' \in [Thread -> Place]
      /\ pc'[Ep] = IF Top.kind \in {"signal", "rpc"} THEN "idle"
                   ELSE IF Top.kind = "item" THEN "drain" ELSE "user"
      /\ pc'[Proxy] = IF Top.kind = "signal" THEN "take" ELSE pc[Proxy]
  BY Basics DEF IInv, LibTypeOK, Return, Place, ProxyPlace, EpPlace
<1>7. /\ pc'[Ep] \in {"idle", "drain", "user"}
      /\ pc'[Proxy] = pc[Proxy] \/ (pc[Proxy] = "inCall" /\ pc'[Proxy] = "take")
  BY <1>3, <1>4, <1>5, <1>6
<1>8. StackInv'
  <2>1. pc'[Ep] = "idle" <=> stack' = <<>>
    BY <1>2, <1>4, <1>5, <1>6 DEF PoppedOff
  <2>2. /\ \A i \in DOMAIN stack' : stack'[i].kind \in {"signal", "rpc"} <=> i = 1
        /\ \A i \in DOMAIN stack' : stack'[i].kind = "item" => i = 2 /\ stack'[1].kind = "signal"
    BY <1>2, <1>3 DEF IInv, StackInv, PoppedOff
  <2>3. pc'[Ep] = "drain" => Len(stack') = 1 /\ stack'[1].kind = "signal"
    BY <1>2, <1>4, <1>5, <1>6 DEF PoppedOff
  <2>4. pc'[Proxy] = "inCall" <=> stack' # <<>> /\ stack'[1].kind = "signal"
    BY <1>2, <1>3, <1>4, <1>5, <1>6 DEF PoppedOff
  <2>5. stack' \in Seq(Frame)
    BY <1>2 DEF PoppedOff
  <2> QED
    BY <1>7, <2>1, <2>2, <2>3, <2>4, <2>5 DEF StackInv
<1>9. ASSUME Draining PROVE Draining'
  <2>1. pc[Proxy] = "inCall" /\ Len(stack) > 1 /\ stack[2].kind = "item"
    BY <1>9 DEF Draining
  <2>2. CASE Len(stack) = 2
    BY <1>3, <1>5, <1>6, <2>1, <2>2 DEF Draining
  <2>3. CASE Len(stack) # 2
    BY <1>2, <1>3, <1>5, <1>6, <2>1, <2>3 DEF Draining, PoppedOff
  <2> QED
    BY <2>2, <2>3
<1>10. ProxyLooks => ProxyLooks'
  BY <1>7, <1>9 DEF ProxyLooks
<1> QED
  BY <1>1, <1>2, <1>6, <1>7, <1>8, <1>9, <1>10 DEF Returned

\* A call returns without a further effect.
LEMMA ReturnKeeps ==
  ASSUME IInv, pc[Ep] \in {"poll", "user"}, Return, KernelInv', HandlerInv', KillSame,
         UNCHANGED <<state, submits, ack, utcb, sum>>,
         UNCHANGED <<libVars, blockMutex, delivers, deferred, victim>>
  PROVE  IInv'
<1>1. /\ KernelInv' /\ HandlerInv' /\ KillSame /\ UNCHANGED <<state, submits, ack, utcb, sum>>
      /\ UNCHANGED <<receiver, killed, killer, pending, curr, ring, reused, blockMutex, delivers, deferred, victim>>
  BY DEF KillSame, libVars
<1>2. Returned
  BY <1>1, ReturnOutcome
<1>3. stack \in Seq(Frame) /\ \A i \in DOMAIN stack' : i \in DOMAIN stack /\ stack'[i] = stack[i]
  BY <1>2 DEF Returned, PoppedOff, IInv, StackInv
<1>4. LibTypeOK'
  BY <1>1, <1>2, <1>3, Basics DEF IInv, LibTypeOK, ProxyPlace, EpPlace, Returned
<1>5. KernelInv' /\ HandlerInv'
  BY <1>1
<1>6. BlockInv'
  BY <1>1, <1>2, <1>3, Basics DEF IInv, BlockInv, Returned
<1>7. MutexInv'
  BY <1>1, <1>2, <1>3, Basics DEF IInv, MutexInv, Returned
<1>8. VictimInv'
  BY <1>1, <1>2, <1>3, Basics DEF IInv, VictimInv, Returned
<1>9. HoldInv'
  BY <1>1, <1>2, <1>3, Basics DEF IInv, HoldInv, Holds, Holding, Returned
<1>10. AliveInv'
  BY <1>1, <1>2, <1>3, Basics DEF IInv, AliveInv, Returned
<1>11. StackInv'
  BY <1>2 DEF Returned
<1>12. SignalInv'
  BY <1>1, <1>2, <1>3, Basics DEF IInv, SignalInv, Holds, Holding, Returned
<1>13. PendingInv'
  BY <1>1, <1>2, <1>3, Basics DEF IInv, PendingInv, Marks, EpLooks, Returned
<1> QED
  BY <1>4, <1>5, <1>6, <1>7, <1>8, <1>9, <1>10, <1>11, <1>12, <1>13 DEF IInv

\* wait_and_dispatch_one_io_signal has found nothing.
LEMMA PollWaitsKeeps ==
  ASSUME IInv, pc[Ep] = "poll", pc' = [pc EXCEPT ![Ep] = "waitBlock"], Top.kind = "wait",
         KernelInv', HandlerInv', KillSame, UNCHANGED <<state, submits, ack, utcb, sum>>,
         UNCHANGED <<libVars, epVars>>
  PROVE  IInv'
<1>1. /\ KernelInv' /\ HandlerInv' /\ KillSame /\ UNCHANGED <<state, submits, ack, utcb, sum>>
      /\ UNCHANGED <<receiver, killed, killer, pending, curr, ring, reused, blockMutex, delivers, deferred, stack, victim>>
  BY DEF KillSame, libVars, epVars
<1>2. pc'[Ep] = "waitBlock" /\ pc'[Proxy] = pc[Proxy] /\ pc' \in [Thread -> Place]
  BY Basics DEF IInv, LibTypeOK, Place, ProxyPlace, EpPlace
<1>3. LibTypeOK'
  BY <1>1, <1>2, Basics DEF IInv, LibTypeOK, ProxyPlace, EpPlace
<1>4. KernelInv' /\ HandlerInv'
  BY <1>1
<1>5. BlockInv'
  BY <1>1, <1>2, Basics DEF IInv, BlockInv
<1>6. MutexInv'
  BY <1>1, <1>2, Basics DEF IInv, MutexInv
<1>7. VictimInv'
  BY <1>1, <1>2, Basics DEF IInv, VictimInv
<1>8. HoldInv'
  BY <1>1, <1>2, Basics DEF IInv, HoldInv, Holds, Holding
<1>9. AliveInv'
  BY <1>1, <1>2, Basics DEF IInv, AliveInv
<1>10. StackInv'
  BY <1>1, <1>2, Basics DEF IInv, StackInv, Top
<1>11. SignalInv'
  BY <1>1, <1>2, Basics DEF IInv, SignalInv, Holds, Holding
<1>12. PendingInv'
  BY <1>1, <1>2, Basics DEF IInv, PendingInv, Marks, ProxyLooks, EpLooks, Draining
<1> QED
  BY <1>3, <1>4, <1>5, <1>6, <1>7, <1>8, <1>9, <1>10, <1>11, <1>12 DEF IInv

LEMMA PollKeeps ==
  ASSUME IInv, Poll
  PROVE  IInv'
<1>1. /\ pc[Ep] = "poll" /\ Kernel!PendingSignal(Ep, Rec) /\ Receives(Ep, 0, utcb)
      /\ UNCHANGED <<libVars, blockMutex, delivers, deferred, victim>>
      /\ \/ Handed # {} /\ pc' = [pc EXCEPT ![Ep] = "pollUpdate"] /\ UNCHANGED <<stack, polled>>
         \/ /\ Handed = {} /\ Top.kind = "wait"
            /\ pc' = [pc EXCEPT ![Ep] = "waitBlock"] /\ UNCHANGED <<stack, polled>>
         \/ Handed = {} /\ Return
  BY DEF Poll, Goto
<1>2. /\ KernelInv' /\ HandlerInv' /\ KillSame /\ state[Ep] = "ACTIVE"
      /\ \/ Handed = {} /\ UNCHANGED <<state, submits, ack, utcb, sum>>
         \/ Handed # {} /\ ArrivesNew(Ep)
  BY <1>1, Basics, LibPoll DEF IInv
<1>3. CASE Handed # {}
  <2>1. ArrivesNew(Ep) /\ pc' = [pc EXCEPT ![Ep] = "pollUpdate"] /\ UNCHANGED <<libVars, epVars>>
    BY <1>1, <1>2, <1>3 DEF epVars
  <2>2. PICK c \in Context : receiver[c] # None /\ c \in ack /\ submits[c] > 0 /\ Arrives(Ep, c, utcb)
    BY <2>1 DEF ArrivesNew
  <2>3. c \in ack \ killed /\ UNCHANGED <<pending, curr, ring, reused, epVars>>
    BY <1>1, <2>1, <2>2 DEF IInv, VictimInv, libVars
  <2> QED
    BY <1>1, <1>2, <2>1, <2>2, <2>3, Basics, AwaitArrivesKeeps
<1>4. CASE Handed = {} /\ Return
  BY <1>1, <1>2, <1>4, ReturnKeeps
<1>5. CASE Handed = {} /\ ~Return
  <2>1. UNCHANGED <<libVars, epVars>>
    BY <1>1, <1>5 DEF epVars
  <2> QED
    BY <1>1, <1>2, <1>5, <2>1, PollWaitsKeeps
<1> QED
  BY <1>3, <1>4, <1>5

\* pending_signal acknowledges the signal that it got from the kernel.
LEMMA PollAckQuietKeeps ==
  ASSUME IInv, pc[Ep] = "pollAck", NEW c \in Context, c = utcb[Ep].context,
         UNCHANGED <<libVars, blockMutex, delivers, victim>>, KernelInv', HandlerInv', KillSame,
         UNCHANGED <<state, submits>>, ack' = ack \cup {c}, utcb' = [utcb EXCEPT ![Ep] = NoData],
         Got(c, 0)
  PROVE  IInv'
<1>1. /\ UNCHANGED <<receiver, killed, killer, pending, curr, ring, reused, blockMutex, delivers, victim>>
      /\ victim = None /\ killed = {} /\ Holding(Ep) /\ c \notin ack /\ receiver[c] # None
  BY Basics DEF IInv, KillSame, libVars, VictimInv, HoldInv, Holding
<1>2. GotParts(c)
  BY GotInParts
<1>3. /\ utcb' \in UtcbType /\ utcb'[Proxy] = utcb[Proxy]
      /\ sum' \in [Context -> 0 .. MaxNum] /\ sum'[c] = 0 /\ \A b \in Context : b # c => sum'[b] = sum[b]
  BY Basics, EntrypointAssumption DEF IInv, LibTypeOK, UtcbType, NoData, Got
<1>4. ~Holding(Ep)' /\ (Holding(Proxy)' <=> Holding(Proxy)) /\ (Holding(Proxy) => utcb[Proxy].context # c)
  BY <1>1, <1>2, Basics DEF Holding, GotParts, IInv, HoldInv
<1>5. \A b \in Context :
        /\ ~Holds(Ep, b)' /\ (Holds(Ep, b) <=> b = c)
        /\ Holds(Proxy, b)' <=> Holds(Proxy, b)
  BY <1>1, <1>3, <1>4 DEF Holds
<1>6. LibTypeOK'
  BY <1>1, <1>2, <1>3, <1>4, <1>5, Basics DEF IInv, LibTypeOK, UtcbType, EpPlace, GotParts
<1>7. KernelInv' /\ HandlerInv'
  OBVIOUS
<1>8. BlockInv'
  BY <1>1, <1>2, <1>3, <1>4, <1>5, Basics DEF IInv, BlockInv, GotParts
<1>9. MutexInv'
  BY <1>1, <1>2, <1>3, <1>4, <1>5, Basics DEF IInv, MutexInv, GotParts
<1>10. VictimInv'
  BY <1>1, <1>2, <1>3, <1>4, <1>5, Basics DEF IInv, VictimInv, GotParts
<1>11. HoldInv'
  BY <1>1, <1>2, <1>3, <1>4, <1>5, Basics DEF IInv, HoldInv, Holds
<1>12. AliveInv'
  BY <1>1, <1>2 DEF IInv, AliveInv, GotParts
<1>13. StackInv'
  BY <1>2, GotStack DEF IInv
<1>14. SignalInv'
  <2>1. pc'[Proxy] = pc[Proxy]
    BY <1>2 DEF GotParts
  <2>2. \A b \in Context :
          b # c /\ (\E t \in Thread : Holds(t, b) /\ pc[t] # "ack") =>
            \E t \in Thread : Holds(t, b)' /\ pc'[t] # "ack"
    BY <1>5, <2>1, Basics
  <2> QED
    BY <1>1, <1>3, <2>2 DEF IInv, SignalInv
<1>15. PendingInv'
  <2>1. ProxyLooks' <=> ProxyLooks
    BY <1>1, <1>2, GotLooks
  <2>2. ~EpLooks
    BY DEF EpLooks
  <2> QED
    BY <1>1, <2>1, <2>2 DEF IInv, PendingInv, Marks
<1> QED
  BY <1>6, <1>7, <1>8, <1>9, <1>10, <1>11, <1>12, <1>13, <1>14, <1>15 DEF IInv

\* The acknowledgement has the kernel hand the next signal to the proxy.
LEMMA PollAckArrivesKeeps ==
  ASSUME IInv, pc[Ep] = "pollAck", NEW c \in Context, c = utcb[Ep].context,
         UNCHANGED <<libVars, blockMutex, delivers, victim>>, KernelInv', HandlerInv', KillSame,
         handlers[Rec] = <<Proxy>>, pc[Proxy] = "woken", state[Proxy] = "AWAITS_SIGNAL", HandedTo(Proxy, c),
         submits[c] > 0, NEW num \in 1 .. MaxNum,
         utcb' = [[utcb EXCEPT ![Ep] = NoData] EXCEPT ![Proxy] = [context |-> c, num |-> num]],
         Got(c, num)
  PROVE  IInv'
<1>1. /\ UNCHANGED <<receiver, killed, killer, pending, curr, ring, reused, blockMutex, delivers, victim>>
      /\ victim = None /\ killed = {} /\ Holding(Ep) /\ c \notin ack /\ receiver[c] # None
  BY Basics DEF IInv, KillSame, libVars, VictimInv, HoldInv, Holding
<1>2. GotParts(c)
  BY GotInParts
<1>3. /\ state'[Proxy] = "ACTIVE" /\ state'[Ep] = state[Ep] /\ ack' = ack
      /\ submits'[c] = 0 /\ \A b \in Context : b # c => submits'[b] = submits[b]
  BY <1>1, Basics, KernelTypes DEF IInv, HandedTo
<1>4. /\ utcb' \in UtcbType /\ utcb'[Proxy].context = c /\ utcb'[Proxy].num >= 1
      /\ sum' \in [Context -> 0 .. MaxNum] /\ \A b \in Context : b # c => sum'[b] = sum[b]
  <2>1. utcb \in UtcbType /\ sum \in [Context -> 0 .. MaxNum] /\ MaxNum \in Nat
    BY EntrypointAssumption DEF IInv, LibTypeOK, UtcbType
  <2>2. utcb' \in UtcbType /\ utcb'[Proxy] = [context |-> c, num |-> num]
    BY <2>1, Basics DEF UtcbType, NoData
  <2>3. sum' \in [Context -> 0 .. MaxNum] /\ \A b \in Context : b # c => sum'[b] = sum[b]
    BY <2>1 DEF Got
  <2> QED
    BY <2>1, <2>2, <2>3
<1>5. ~Holding(Ep)' /\ Holding(Proxy)' /\ ~Holding(Proxy) /\ pc'[Proxy] = "woken"
  BY <1>2, <1>3, Basics DEF Holding, GotParts
<1>6. \A b \in Context :
        /\ ~Holds(Ep, b)' /\ (Holds(Ep, b) <=> b = c)
        /\ ~Holds(Proxy, b) /\ (Holds(Proxy, b)' <=> b = c)
  BY <1>1, <1>4, <1>5 DEF Holds
<1>7. LibTypeOK'
  BY <1>1, <1>2, <1>3, <1>4, <1>5, <1>6, Basics DEF IInv, LibTypeOK, UtcbType, EpPlace, GotParts
<1>8. KernelInv' /\ HandlerInv'
  OBVIOUS
<1>9. BlockInv'
  BY <1>1, <1>2, <1>3, <1>4, <1>5, <1>6, Basics DEF IInv, BlockInv, GotParts
<1>10. MutexInv'
  BY <1>1, <1>2, <1>3, <1>4, <1>5, <1>6, Basics DEF IInv, MutexInv, GotParts
<1>11. VictimInv'
  BY <1>1, <1>2, <1>3, <1>4, <1>5, <1>6, Basics DEF IInv, VictimInv, GotParts
<1>12. HoldInv'
  <2>1. \A b \in Context \ (ack' \cup killed') : Holds(Proxy, b)'
    BY <1>1, <1>3, <1>6, Basics DEF IInv, HoldInv
  <2> QED
    BY <1>1, <1>3, <1>4, <1>5, <2>1, Basics DEF HoldInv
<1>13. AliveInv'
  BY <1>1, <1>2 DEF IInv, AliveInv, GotParts
<1>14. StackInv'
  BY <1>2, GotStack DEF IInv
<1>15. SignalInv'
  BY <1>1, <1>2, <1>3, <1>4, <1>5, <1>6, Basics DEF IInv, SignalInv, GotParts
<1>16. PendingInv'
  <2>1. ProxyLooks' <=> ProxyLooks
    BY <1>1, <1>2, GotLooks
  <2>2. ~EpLooks
    BY DEF EpLooks
  <2> QED
    BY <1>1, <2>1, <2>2 DEF IInv, PendingInv, Marks
<1> QED
  BY <1>7, <1>8, <1>9, <1>10, <1>11, <1>12, <1>13, <1>14, <1>15, <1>16 DEF IInv

LEMMA PollAckKeeps ==
  ASSUME IInv, PollAck
  PROVE  IInv'
<1> DEFINE c == utcb[Ep].context
<1>1. pc[Ep] = "pollAck" /\ UNCHANGED <<libVars, blockMutex, delivers, victim>>
  BY DEF PollAck
<1>2. c \in Context /\ c \notin killed /\ c \notin ack /\ receiver[c] # None
  BY <1>1, Basics DEF IInv, HoldInv, Holding, VictimInv
<1>3. KernelInv' /\ HandlerInv' /\ KillSame /\ PollAcked(c)
  BY <1>2, LibPollAck DEF IInv
<1>4. Got(c, IF Handed = {} THEN 0 ELSE Capped(submits[c]))
  BY <1>1, <1>2, GotOutcome DEF PollAck
<1> HIDE DEF c
<1>5. c = utcb[Ep].context
  BY DEF c
<1>6. CASE Handed = {}
  <2>1. /\ UNCHANGED <<state, submits>> /\ ack' = ack \cup {c}
        /\ utcb' = [utcb EXCEPT ![Ep] = NoData] /\ Got(c, 0)
    BY <1>3, <1>4, <1>6 DEF PollAcked
  <2> QED
    BY <1>1, <1>2, <1>3, <1>5, <2>1, PollAckQuietKeeps
<1>7. CASE Handed # {}
  <2>1. PICK u \in Thread, num \in 1 .. MaxNum :
          /\ handlers[Rec] = <<u>> /\ HandedTo(u, c) /\ num = Capped(submits[c])
          /\ utcb' = [[utcb EXCEPT ![Ep] = NoData] EXCEPT ![u] = [context |-> c, num |-> num]]
    BY <1>3, <1>7 DEF PollAcked
  <2>2. state[u] = "AWAITS_SIGNAL" /\ pc[u] = "woken" /\ u = Proxy
    BY <1>1, <2>1, WaitsWoken, Basics DEF IInv
  <2>3. Got(c, num)
    BY <1>4, <1>7, <2>1
  <2>4. submits[c] > 0
    BY <1>2, <2>1, KernelTypes, EntrypointAssumption DEF IInv, Capped
  <2> QED
    BY <1>1, <1>2, <1>3, <1>5, <2>1, <2>2, <2>3, <2>4, PollAckArrivesKeeps
<1> QED
  BY <1>6, <1>7

\* Kernel::kill_signal_context of the context that is dissolved
LEMMA KillKeeps ==
  ASSUME IInv, Kill
  PROVE  IInv'
<1>1. /\ pc[Ep] = "kill" /\ Kernel!KillContext(Ep, victim) /\ pc' = [pc EXCEPT ![Ep] = "free"]
      /\ UNCHANGED <<utcb, pending, curr, ring, reused, blockMutex, delivers, deferred, stack, victim, sum>>
  BY DEF Kill, Goto, libVars, epVars
<1>2. PICK c \in Context : c = victim /\ c # None /\ killed = {} /\ receiver[c] # None
  BY <1>1, Basics DEF IInv, VictimInv, LibTypeOK
<1>3. /\ KernelInv' /\ HandlerInv' /\ state[Ep] = "ACTIVE" /\ killed' = {c}
      /\ UNCHANGED <<receiver, submits, ack>>
      /\ \A b \in Context : b # c => killer'[b] = killer[b]
      /\ state'[Proxy] = state[Proxy]
      /\ c \in ack => UNCHANGED <<state, killer>>
      /\ c \notin ack => state'[Ep] = "AWAITS_SIGNAL_CONTEXT_KILL" /\ killer'[c] = Ep
  BY <1>1, <1>2, Basics, KillEffect, KernelTypes DEF IInv
<1>4. pc'[Ep] = "free" /\ pc'[Proxy] = pc[Proxy] /\ pc' \in [Thread -> Place]
  BY <1>1, Basics DEF IInv, LibTypeOK, Place, ProxyPlace, EpPlace
<1>5. ~Holding(Ep) /\ ~Holding(Ep)' /\ (Holding(Proxy)' <=> Holding(Proxy))
  BY <1>1, <1>3, <1>4 DEF Holding
<1>6. LibTypeOK'
  BY <1>1, <1>2, <1>3, <1>4, Basics DEF IInv, LibTypeOK, EpPlace
<1>7. KernelInv' /\ HandlerInv'
  BY <1>3
<1>8. BlockInv'
  BY <1>1, <1>2, <1>3, <1>4, Basics DEF IInv, BlockInv
<1>9. MutexInv'
  BY <1>1, <1>2, <1>3, <1>4, Basics DEF IInv, MutexInv
<1>10. VictimInv'
  <2>1. CASE c \in ack
    BY <1>1, <1>2, <1>3, <1>4, <2>1, Basics DEF IInv, VictimInv
  <2>2. CASE c \notin ack
    BY <1>1, <1>2, <1>3, <1>4, <2>2, Basics DEF IInv, VictimInv
  <2> QED
    BY <2>1, <2>2
<1>11. HoldInv'
  BY <1>1, <1>2, <1>3, <1>5, Basics DEF IInv, HoldInv, Holds
<1>12. AliveInv'
  BY <1>1, <1>3 DEF IInv, AliveInv
<1>13. StackInv'
  BY <1>1, <1>4 DEF IInv, StackInv
<1>14. SignalInv'
  BY <1>1, <1>3, <1>4, <1>5, Basics DEF IInv, SignalInv, Holds
<1>15. PendingInv'
  BY <1>1, <1>2, <1>3, <1>4, Basics DEF IInv, PendingInv, Marks, ProxyLooks, EpLooks, Draining
<1> QED
  BY <1>6, <1>7, <1>8, <1>9, <1>10, <1>11, <1>12, <1>13, <1>14, <1>15 DEF IInv

\* The kernel's part of the context ceases to exist.
LEMMA FreeKeeps ==
  ASSUME IInv, Free
  PROVE  IInv'
<1>1. /\ pc[Ep] = "free" /\ state[Ep] = "ACTIVE" /\ Kernel!DeleteContext(victim)
      /\ pc' = [pc EXCEPT ![Ep] = "destroy"]
      /\ ring' = Without(ring, victim) /\ sum' = [sum EXCEPT ![victim] = 0]
      /\ UNCHANGED <<utcb, pending, curr, reused, blockMutex, delivers, deferred, stack, victim>>
  BY DEF Free, Goto, epVars
<1>2. PICK c \in User : c = victim /\ c \in Context /\ c # None /\ killed = {c} /\ killer[c] = None
  BY <1>1, Basics DEF IInv, VictimInv, LibTypeOK
<1>3. /\ KernelInv' /\ HandlerInv' /\ killed' = {}
      /\ receiver'[c] = None /\ \A b \in Context : b # c => receiver'[b] = receiver[b]
      /\ ack' = ack \cup {c} /\ UNCHANGED <<state, killer>>
  BY <1>1, <1>2, DeleteEffect, KernelTypes DEF IInv
<1>4. pc'[Ep] = "destroy" /\ pc'[Proxy] = pc[Proxy] /\ pc' \in [Thread -> Place]
  BY <1>1, Basics DEF IInv, LibTypeOK, Place, ProxyPlace, EpPlace
<1>5. /\ sum' \in [Context -> 0 .. MaxNum] /\ sum'[c] = 0
      /\ \A b \in Context : b # c => sum'[b] = sum[b]
  BY <1>1, <1>2, EntrypointAssumption DEF IInv, LibTypeOK
<1>6. ring' \in Seq(Context) /\ Distinct(ring') /\ \A u : u \in ToSet(ring') <=> u \in ToSet(ring) /\ u # c
  BY <1>1, <1>2, WithoutElements DEF IInv, AliveInv
<1>7. /\ ~Holding(Ep) /\ ~Holding(Ep)' /\ (Holding(Proxy)' <=> Holding(Proxy))
      /\ Holding(Proxy) => utcb[Proxy].context # c
  BY <1>1, <1>2, <1>3, <1>4, Basics DEF Holding, IInv, HoldInv
<1>8. LibTypeOK'
  BY <1>1, <1>2, <1>3, <1>4, <1>5, Basics DEF IInv, LibTypeOK, EpPlace
<1>9. KernelInv' /\ HandlerInv'
  BY <1>3
<1>10. BlockInv'
  BY <1>1, <1>2, <1>3, <1>4, <1>5, Basics DEF IInv, BlockInv
<1>11. MutexInv'
  BY <1>1, <1>2, <1>3, <1>4, <1>5, Basics DEF IInv, MutexInv
<1>12. VictimInv'
  BY <1>1, <1>2, <1>3, <1>4, <1>5, Basics DEF IInv, VictimInv
<1>13. HoldInv'
  BY <1>1, <1>2, <1>3, <1>7, Basics DEF IInv, HoldInv, Holds
<1>14. AliveInv'
  <2>1. \A i \in DOMAIN stack : stack[i].context \in Context \cup {None}
    <3>1. \A i \in DOMAIN stack : stack[i] \in Frame
      BY DEF IInv, StackInv
    <3> QED
      BY <3>1 DEF Frame
  <2>2. receiver'[DeferredHandler] # None
    BY <1>2, <1>3, Basics DEF IInv, AliveInv
  <2>3. \A i \in DOMAIN stack' :
          stack'[i].kind # "item" /\ stack'[i].context # None =>
            receiver'[stack'[i].context] # None \/ stack'[i].context = victim'
    BY <1>1, <1>2, <1>3, <2>1 DEF IInv, AliveInv
  <2>4. \A b \in Context : b \in ToSet(deferred') => receiver'[b] # None \/ b = victim'
    BY <1>1, <1>2, <1>3 DEF IInv, AliveInv
  <2> QED
    BY <1>1, <1>2, <1>3, <1>6, <2>2, <2>3, <2>4 DEF IInv, AliveInv
<1>15. StackInv'
  BY <1>1, <1>4 DEF IInv, StackInv
<1>16. SignalInv'
  BY <1>1, <1>2, <1>3, <1>4, <1>5, <1>7, Basics DEF IInv, SignalInv, Holds, AliveInv
<1>17. PendingInv'
  <2>1. Marks' = Marks /\ UNCHANGED reused
    BY <1>1, <1>2, <1>3 DEF IInv, AliveInv, Marks
  <2>2. (ProxyLooks' <=> ProxyLooks) /\ ~EpLooks /\ ~EpLooks'
    BY <1>1, <1>4 DEF ProxyLooks, EpLooks, Draining
  <2> QED
    BY <2>1, <2>2 DEF IInv, PendingInv
<1> QED
  BY <1>8, <1>9, <1>10, <1>11, <1>12, <1>13, <1>14, <1>15, <1>16, <1>17 DEF IInv

\* Nobody holds a Signal of the context any more: dissolve returns.
LEMMA DestroyKeeps ==
  ASSUME IInv, Destroy
  PROVE  IInv'
<1>1. /\ pc[Ep] = "destroy" /\ ~HasSignal(victim) /\ pc' = [pc EXCEPT ![Ep] = "user"]
      /\ victim' = None /\ deferred' = Without(deferred, victim)
      /\ UNCHANGED <<kernelVars, utcb, libVars, blockMutex, delivers, stack, sum>>
  BY DEF Destroy, Goto, NotDeferred
<1>2. PICK c \in Context : c = victim /\ c # None /\ killed = {} /\ receiver[c] = None
  BY <1>1, Basics DEF IInv, VictimInv, LibTypeOK
<1>3. UNCHANGED <<state, receiver, submits, ack, killed, killer, pending, curr, ring, reused>>
  BY <1>1 DEF kernelVars, libVars
<1>4. pc'[Ep] = "user" /\ pc'[Proxy] = pc[Proxy] /\ pc' \in [Thread -> Place]
  BY <1>1, Basics DEF IInv, LibTypeOK, Place, ProxyPlace, EpPlace
<1>5. /\ deferred' \in Seq(Context) /\ Distinct(deferred')
      /\ \A u : u \in ToSet(deferred') <=> u \in ToSet(deferred) /\ u # c
  BY <1>1, <1>2, WithoutElements DEF IInv, AliveInv
<1>6. LibTypeOK'
  BY <1>1, <1>3, <1>4, Basics DEF IInv, LibTypeOK, EpPlace
<1>7. KernelInv' /\ HandlerInv'
  BY <1>1, KernelFrame
<1>8. BlockInv'
  BY <1>1, <1>3, <1>4, Basics DEF IInv, BlockInv
<1>9. MutexInv'
  BY <1>1, <1>3, <1>4, Basics DEF IInv, MutexInv
<1>10. VictimInv'
  <2>1. \A b \in Context : killer[b] = None
    BY <1>1, Basics DEF IInv, VictimInv, BlockInv
  <2> QED
    BY <1>1, <1>2, <1>3, <1>4, <2>1, Basics DEF IInv, VictimInv
<1>11. HoldInv'
  BY <1>1, <1>3, <1>4, Basics DEF IInv, HoldInv, Holds, Holding
<1>12. AliveInv'
  <2>1. \A i \in DOMAIN stack : stack[i].kind # "item" => stack[i].context # c
    BY <1>1, <1>2 DEF HasSignal
  <2> QED
    BY <1>1, <1>2, <1>3, <1>5, <2>1 DEF IInv, AliveInv
<1>13. StackInv'
  BY <1>1, <1>4 DEF IInv, StackInv
<1>14. SignalInv'
  <2>1. \A b \in Context, t \in Thread : Holds(t, b)' <=> Holds(t, b)
    BY <1>1, <1>3, <1>4, Basics DEF Holds, Holding
  <2>2. \A t \in Thread : pc[t] # "ack" => pc'[t] # "ack"
    BY <1>4, Basics
  <2>3. sum[c] = 0
    BY <1>2 DEF IInv, SignalInv
  <2> QED
    BY <1>1, <1>2, <1>3, <2>1, <2>2, <2>3 DEF IInv, SignalInv
<1>15. PendingInv'
  <2>1. Marks' = Marks /\ UNCHANGED reused
    BY <1>1, <1>2, <1>3, Basics DEF IInv, AliveInv, Marks
  <2>2. (ProxyLooks' <=> ProxyLooks) /\ ~EpLooks /\ ~EpLooks'
    BY <1>1, <1>4 DEF ProxyLooks, EpLooks, Draining
  <2> QED
    BY <2>1, <2>2 DEF IInv, PendingInv
<1> QED
  BY <1>6, <1>7, <1>8, <1>9, <1>10, <1>11, <1>12, <1>13, <1>14, <1>15 DEF IInv

\* The handling of the deferred signals is initiated: the submit is counted.
LEMMA ReturnCountsKeeps ==
  ASSUME IInv, pc[Ep] = "user", Return, KernelInv', HandlerInv', KillSame,
         UNCHANGED <<libVars, blockMutex, delivers, deferred, victim>>,
         UNCHANGED <<state, ack, utcb, sum>>,
         submits' = [submits EXCEPT ![DeferredHandler] = @ + 1]
  PROVE  IInv'
<1>1. UNCHANGED <<receiver, killed, killer, pending, curr, ring, reused, blockMutex, delivers, deferred, victim>>
  BY DEF KillSame, libVars
<1>2. Returned
  BY <1>1, ReturnOutcome
<1>3. /\ stack \in Seq(Frame) /\ \A i \in DOMAIN stack' : i \in DOMAIN stack /\ stack'[i] = stack[i]
      /\ victim = None /\ DeferredHandler \in Context /\ DeferredHandler # victim
  BY <1>2, Basics DEF Returned, PoppedOff, IInv, StackInv, VictimInv
<1>4. \A b \in Context : b # DeferredHandler => submits'[b] = submits[b]
  BY KernelTypes DEF IInv
<1>5. LibTypeOK'
  BY <1>1, <1>2, <1>3, <1>4, Basics DEF IInv, LibTypeOK, ProxyPlace, EpPlace, Returned
<1>6. KernelInv' /\ HandlerInv'
  OBVIOUS
<1>7. BlockInv'
  BY <1>1, <1>2, <1>3, <1>4, Basics DEF IInv, BlockInv, Returned
<1>8. MutexInv'
  BY <1>1, <1>2, <1>3, <1>4, Basics DEF IInv, MutexInv, Returned
<1>9. VictimInv'
  BY <1>1, <1>2, <1>3, <1>4, Basics DEF IInv, VictimInv, Returned
<1>10. HoldInv'
  BY <1>1, <1>2, <1>3, <1>4, Basics DEF IInv, HoldInv, Holds, Holding, Returned
<1>11. AliveInv'
  BY <1>1, <1>2, <1>3, <1>4, Basics DEF IInv, AliveInv, Returned
<1>12. StackInv'
  BY <1>2 DEF Returned
<1>13. SignalInv'
  BY <1>1, <1>2, <1>3, <1>4, Basics DEF IInv, SignalInv, Holds, Holding, Returned
<1>14. PendingInv'
  BY <1>1, <1>2, <1>3, <1>4, Basics DEF IInv, PendingInv, Marks, EpLooks, Returned
<1> QED
  BY <1>5, <1>6, <1>7, <1>8, <1>9, <1>10, <1>11, <1>12, <1>13, <1>14 DEF IInv

\* The handling of the deferred signals is initiated: the submit reaches the proxy.
LEMMA ReturnArrivesKeeps ==
  ASSUME IInv, pc[Ep] = "user", Return, KernelInv', HandlerInv', KillSame,
         UNCHANGED <<libVars, blockMutex, delivers, deferred, victim>>,
         pc[Proxy] = "woken", state[Proxy] = "AWAITS_SIGNAL", Arrives(Proxy, DeferredHandler, utcb)
  PROVE  IInv'
<1>1. UNCHANGED <<receiver, killed, killer, pending, curr, ring, reused, blockMutex, delivers, deferred, victim>>
  BY DEF KillSame, libVars
<1>2. Returned
  BY <1>1, ReturnOutcome
<1>3. /\ stack \in Seq(Frame) /\ \A i \in DOMAIN stack' : i \in DOMAIN stack /\ stack'[i] = stack[i]
      /\ victim = None /\ DeferredHandler \in Context /\ DeferredHandler # victim
  BY <1>2, Basics DEF Returned, PoppedOff, IInv, StackInv, VictimInv
<1>4. /\ utcb' \in UtcbType /\ utcb'[Proxy].context = DeferredHandler /\ utcb'[Proxy].num >= 1
      /\ utcb'[Ep] = utcb[Ep] /\ state'[Ep] = state[Ep] /\ state'[Proxy] = "ACTIVE"
      /\ ack' = ack \ {DeferredHandler} /\ submits'[DeferredHandler] = 0
      /\ \A b \in Context : b # DeferredHandler => submits'[b] = submits[b] /\ sum'[b] = sum[b]
      /\ sum' \in [Context -> 0 .. MaxNum]
  <2>1. utcb \in UtcbType /\ sum \in [Context -> 0 .. MaxNum] /\ KernelInv
    BY DEF IInv, LibTypeOK, UtcbType
  <2> QED
    BY <2>1, Arrived, Basics
<1>5. pc'[Proxy] = "woken" /\ ~Holding(Proxy) /\ Holding(Proxy)' /\ ~Holding(Ep) /\ ~Holding(Ep)'
  BY <1>2, <1>4 DEF Holding, Returned
<1>6. LibTypeOK'
  BY <1>1, <1>2, <1>3, <1>4, <1>5, Basics DEF IInv, LibTypeOK, UtcbType, ProxyPlace, EpPlace, Returned
<1>7. KernelInv' /\ HandlerInv'
  OBVIOUS
<1>8. BlockInv'
  BY <1>1, <1>2, <1>3, <1>4, <1>5, Basics DEF IInv, BlockInv, Returned
<1>9. MutexInv'
  BY <1>1, <1>2, <1>3, <1>4, <1>5, Basics DEF IInv, MutexInv, Returned
<1>10. VictimInv'
  BY <1>1, <1>2, <1>3, <1>4, <1>5, Basics DEF IInv, VictimInv, Returned
<1>11. HoldInv'
  <2>1. \A b \in Context \ (ack' \cup killed') : Holds(Proxy, b)'
    BY <1>1, <1>4, <1>5, Basics DEF IInv, HoldInv, Holds
  <2> QED
    BY <1>1, <1>3, <1>4, <1>5, <2>1, Basics DEF IInv, HoldInv, VictimInv, AliveInv
<1>12. AliveInv'
  BY <1>1, <1>3 DEF IInv, AliveInv
<1>13. StackInv'
  BY <1>2 DEF Returned
<1>14. SignalInv'
  <2>1. receiver[DeferredHandler] # None
    BY DEF Arrives, IInv, AliveInv
  <2>2. \A b \in Context : receiver'[b] = None => sum'[b] = 0
    BY <1>1, <1>4, <2>1 DEF IInv, SignalInv
  <2>3. Holds(Proxy, DeferredHandler)' /\ pc'[Proxy] # "ack"
    BY <1>4, <1>5 DEF Holds
  <2>4. \A b \in Context, u \in Thread : ~Holds(u, b)
    BY <1>5, Basics DEF Holds
  <2>5. reused' \/ \A b \in Context : b # victim' /\ sum'[b] > 0 /\ b # DeferredHandler => b \in pending'
    BY <1>1, <1>4, <2>4 DEF IInv, SignalInv
  <2> QED
    BY <1>1, <2>2, <2>3, <2>5, Basics DEF IInv, SignalInv
<1>15. PendingInv'
  BY <1>1, <1>2 DEF IInv, PendingInv, Marks, EpLooks, Returned
<1> QED
  BY <1>6, <1>7, <1>8, <1>9, <1>10, <1>11, <1>12, <1>13, <1>14, <1>15 DEF IInv

LEMMA UserReturnKeeps ==
  ASSUME IInv, UserReturn
  PROVE  IInv'
<1>1. /\ pc[Ep] = "user" /\ Return
      /\ UNCHANGED <<libVars, blockMutex, delivers, deferred, victim>>
      /\ SubmitSignal(DeferredHandler) \/ UNCHANGED <<kernelVars, utcb, sum>>
  BY DEF UserReturn
<1>2. CASE UNCHANGED <<kernelVars, utcb, sum>>
  <2>1. KernelInv' /\ HandlerInv' /\ KillSame /\ UNCHANGED <<state, submits, ack, utcb, sum>>
    BY <1>2, KernelFrame DEF kernelVars, KillSame
  <2> QED
    BY <1>1, <2>1, ReturnKeeps
<1>3. CASE SubmitSignal(DeferredHandler)
  <2>1. /\ KernelInv' /\ HandlerInv' /\ KillSame
        /\ \/ UNCHANGED <<state, ack, utcb, sum>> /\ submits' = [submits EXCEPT ![DeferredHandler] = @ + 1]
           \/ \E t \in Thread : handlers[Rec] = <<t>> /\ Arrives(t, DeferredHandler, utcb)
    BY <1>3, Basics, LibSubmit DEF IInv
  <2>2. ASSUME NEW t \in Thread, handlers[Rec] = <<t>>
        PROVE  t = Proxy /\ pc[Proxy] = "woken" /\ state[Proxy] = "AWAITS_SIGNAL"
    BY <1>1, <2>2, WaitsWoken, Basics DEF IInv
  <2> QED
    BY <1>1, <2>1, <2>2, ReturnCountsKeeps, ReturnArrivesKeeps
<1> QED
  BY <1>1, <1>2, <1>3

-----------------------------------------------------------------------------
(* The initial states *)

\* The contexts that are managed from the start make up the ring.
LEMMA InitialRing ==
  ASSUME NEW q, q = <<DeferredHandler>> \o SetToSeq(Permanent)
  PROVE  /\ q \in Seq(Context) /\ Distinct(q)
         /\ \A u : u \in ToSet(q) <=> u \in Permanent \cup {DeferredHandler}
<1> DEFINE n == Cardinality(Permanent)
           f == SetToSeq(Permanent)
           d == <<DeferredHandler>>
<1>1. IsFiniteSet(Permanent) /\ Permanent \subseteq Context /\ DeferredHandler \notin Permanent
  BY EntrypointAssumption DEF Context
<1>2. n \in Nat /\ ExistsBijection(1 .. n, Permanent)
  BY <1>1, FS_CardinalityType
<1>3. \E g \in [1 .. n -> Permanent] : IsInjective(g)
  BY <1>2 DEF ExistsBijection, Bijection, Injection
<1>4. f \in [1 .. n -> Permanent] /\ IsInjective(f)
  BY <1>3 DEF SetToSeq
<1> HIDE DEF f, n
<1>5. IsFiniteSet(1 .. n) /\ Cardinality(1 .. n) = n
  BY <1>2, FS_Interval
<1>6. f \in Surjection(1 .. n, Permanent)
  <2>1. f \in Injection(1 .. n, Permanent)
    BY <1>4 DEF Injection
  <2>2. Cardinality(1 .. n) = Cardinality(Permanent)
    BY <1>5 DEF n
  <2> QED
    BY <1>1, <2>1, <2>2, FS_Injection
<1>7. \A u \in Permanent : \E i \in 1 .. n : f[i] = u
  BY <1>6 DEF Surjection
<1>8. f \in Seq(Context) /\ Len(f) = n /\ DOMAIN f = 1 .. n
  BY <1>1, <1>2, <1>4
<1>9. d \in Seq(Context) /\ Len(d) = 1 /\ d[1] = DeferredHandler
  BY Basics
<1> HIDE DEF d
<1>10. /\ q \in Seq(Context) /\ Len(q) = 1 + n /\ DOMAIN q = 1 .. 1 + n
       /\ q[1] = DeferredHandler /\ \A i \in 2 .. 1 + n : q[i] = f[i - 1]
  <2>1. q = d \o f
    BY DEF f, d
  <2>2. /\ d \o f \in Seq(Context) /\ Len(d \o f) = Len(d) + Len(f)
        /\ \A i \in 1 .. Len(d) + Len(f) :
             (d \o f)[i] = IF i <= Len(d) THEN d[i] ELSE f[i - Len(d)]
    BY <1>8, <1>9, ConcatProperties
  <2>3. /\ q \in Seq(Context) /\ Len(q) = 1 + n
        /\ \A i \in 1 .. 1 + n : q[i] = IF i <= 1 THEN d[i] ELSE f[i - 1]
    BY <2>1, <2>2, <1>8, <1>9
  <2> QED
    BY <2>3, <1>2, <1>9
<1>11. Distinct(q)
  <2>1. \A i \in 2 .. 1 + n : q[i] \in Permanent /\ i - 1 \in 1 .. n
    BY <1>2, <1>4, <1>10
  <2>2. ASSUME NEW i \in 1 .. 1 + n, NEW j \in 1 .. 1 + n, q[i] = q[j]
        PROVE  i = j
    <3>1. CASE i = 1 \/ j = 1
      BY <1>1, <1>2, <1>10, <2>1, <2>2, <3>1
    <3>2. CASE i # 1 /\ j # 1
      <4>1. f[i - 1] = f[j - 1] /\ i - 1 \in 1 .. n /\ j - 1 \in 1 .. n
        BY <1>2, <1>10, <2>1, <2>2, <3>2
      <4>2. i - 1 = j - 1
        BY <4>1, <1>4, <1>8 DEF IsInjective
      <4> QED
        BY <4>2, <1>2
    <3> QED
      BY <3>1, <3>2
  <2> QED
    BY <2>2, <1>10 DEF Distinct
<1>12. \A u : u \in ToSet(q) <=> u \in Permanent \cup {DeferredHandler}
  <2> TAKE u
  <2>1. ASSUME u \in ToSet(q) PROVE u \in Permanent \cup {DeferredHandler}
    <3>1. PICK i \in 1 .. 1 + n : u = q[i]
      BY <2>1, <1>10 DEF ToSet
    <3>2. CASE i = 1
      BY <3>1, <3>2, <1>10
    <3>3. CASE i # 1
      <4>1. i - 1 \in 1 .. n /\ u = f[i - 1]
        BY <3>1, <3>3, <1>2, <1>10
      <4> QED
        BY <4>1, <1>4
    <3> QED
      BY <3>2, <3>3
  <2>2. ASSUME u = DeferredHandler PROVE u \in ToSet(q)
    BY <2>2, <1>2, <1>10 DEF ToSet
  <2>3. ASSUME u \in Permanent PROVE u \in ToSet(q)
    <3>1. PICK i \in 1 .. n : f[i] = u
      BY <2>3, <1>7
    <3>2. PICK k \in 2 .. 1 + n : k - 1 = i /\ k \in 1 .. 1 + n
      <4>1. i + 1 \in 2 .. 1 + n /\ (i + 1) - 1 = i /\ i + 1 \in 1 .. 1 + n
        BY <1>2
      <4> QED
        BY <4>1
    <3>3. q[k] = u
      BY <3>1, <3>2, <1>10
    <3> QED
      BY <3>2, <3>3, <1>10 DEF ToSet
  <2> QED
    BY <2>1, <2>2, <2>3
<1> QED
  BY <1>10, <1>11, <1>12

LEMMA InitHolds ==
  ASSUME Init
  PROVE  IInv
<1>1. /\ Rec \in Receiver /\ MaxSubmits \in Nat /\ MaxNum \in Nat /\ None # Rec
      /\ Permanent \subseteq Context
  BY EntrypointAssumption DEF Receiver, Context
<1>2. /\ <<>> \in Seq(Thread) /\ <<>> \in Seq(Context) /\ <<>> \in Seq(Frame)
      /\ DOMAIN <<>> = {} /\ Distinct(<<>>) /\ \A u : u \notin ToSet(<<>>)
  BY DEF Distinct, ToSet
<1>3. \A t : <<t>> # <<>>
  OBVIOUS
<1>4. handlers[Rec] = <<>> /\ deliver[Rec] = <<>>
  BY <1>1 DEF Init
<1>5. LibTypeOK
  <2>1. 0 \in 0 .. MaxNum /\ NoData \in [context : Context \cup {None}, num : 0 .. MaxNum]
    BY <1>1 DEF NoData
  <2>2. /\ utcb \in [Thread -> [context : Context \cup {None}, num : 0 .. MaxNum]]
        /\ curr \in [Context -> 0 .. MaxNum] /\ sum \in [Context -> 0 .. MaxNum]
    BY <2>1 DEF Init
  <2>3. pc \in [Thread -> Place] /\ pc[Proxy] \in ProxyPlace /\ pc[Ep] \in EpPlace
    BY Basics DEF Init, Place, ProxyPlace, EpPlace
  <2> QED
    BY <2>2, <2>3 DEF Init, LibTypeOK
<1>6. KernelInv
  <2>1. Kernel!TypeOK
    <3>1. /\ state \in [Thread -> Kernel!ThreadState]
          /\ awaiting \in [Thread -> Receiver \cup {None}]
          /\ killing \in [Thread -> Context \cup {None}]
          /\ killer \in [Context -> Thread \cup {None}]
      BY DEF Init, Kernel!ThreadState
    <3>2. receiver \in [Context -> Receiver \cup {None}]
      BY <1>1 DEF Init
    <3>3. submits \in [Context -> 0 .. MaxSubmits] /\ owed \in [Context -> Nat]
      BY <1>1 DEF Init
    <3>4. handlers \in [Receiver -> Seq(Thread)] /\ deliver \in [Receiver -> Seq(Context)]
      BY <1>2 DEF Init
    <3>5. cancelNext \subseteq Thread /\ ack \subseteq Context /\ killed \subseteq Context /\ halted \in BOOLEAN
      BY DEF Init
    <3> QED
      BY <3>1, <3>2, <3>3, <3>4, <3>5 DEF Kernel!TypeOK
  <2> QED
    BY <1>1, <1>2, <1>4, <2>1, Basics DEF Init, KernelInv
<1>7. HandlerInv
  BY <1>3, <1>4, Basics DEF Init, HandlerInv
<1>8. BlockInv /\ MutexInv
  BY Basics DEF Init, BlockInv, MutexInv
<1>9. VictimInv
  BY Basics DEF Init, VictimInv
<1>10. \A t \in Thread : ~Holding(t)
  BY Basics DEF Init, Holding
<1>11. HoldInv
  BY <1>10, Basics DEF Init, HoldInv
<1>12. AliveInv
  <2>1. /\ ring \in Seq(Context) /\ Distinct(ring)
        /\ \A u : u \in ToSet(ring) <=> u \in Permanent \cup {DeferredHandler}
    BY InitialRing DEF Init
  <2> QED
    BY <1>1, <1>2, <2>1, Basics DEF Init, AliveInv
<1>13. StackInv
  BY <1>2, Basics DEF Init, StackInv
<1>14. SignalInv /\ PendingInv
  BY Basics DEF Init, SignalInv, PendingInv, Marks
<1> QED
  BY <1>5, <1>6, <1>7, <1>8, <1>9, <1>11, <1>12, <1>13, <1>14 DEF IInv

-----------------------------------------------------------------------------
(* Theorems *)

LEMMA StutterKeeps ==
  ASSUME IInv, UNCHANGED vars
  PROVE  IInv'
<1>1. UNCHANGED <<state, receiver, submits, ack, killed, killer, utcb, pc, pending, curr, ring, reused, blockMutex,
                  delivers, deferred, stack, victim, sum>>
  BY DEF vars, kernelVars, libVars, epVars
<1>2. KernelInv' /\ HandlerInv'
  BY KernelFrame DEF vars
<1>3. LibTypeOK' /\ BlockInv' /\ MutexInv' /\ VictimInv' /\ StackInv'
  BY <1>1 DEF IInv, LibTypeOK, BlockInv, MutexInv, VictimInv, StackInv, Top
<1>4. HoldInv' /\ AliveInv' /\ SignalInv' /\ PendingInv'
  BY <1>1 DEF IInv, HoldInv, AliveInv, SignalInv, PendingInv, Marks, Holds, Holding, ProxyLooks, EpLooks, Draining
<1> QED
  BY <1>2, <1>3, <1>4 DEF IInv

LEMMA NextKeeps ==
  ASSUME IInv, Next, ~late'
  PROVE  IInv'
<1>1. ASSUME NEW t \in Thread, BlockStep(t) PROVE IInv'
  BY <1>1, AwaitKeeps, ReadPendingKeeps, UpdateContextKeeps, AckBlockedKeeps DEF BlockStep
<1>2. ASSUME EpStep PROVE IInv'
  <2>1. CASE Drain
    BY <2>1, DrainEndKeeps, DrainItemKeeps
  <2>2. CASE Scan
    BY <2>2, ScanNoneKeeps, ScanOutcome, ScanInvalidKeeps, ScanReturnsKeeps
  <2> QED
    BY <1>2, <2>1, <2>2, PollKeeps, PollUpdateKeeps, PollAckKeeps, KillKeeps, FreeKeeps, DestroyKeeps DEF EpStep
<1>3. ASSUME NEW kind \in WaitKind, UserWait(kind) PROVE IInv'
  BY <1>3, UserWaitKeeps
<1>4. ASSUME NEW c \in User, Trigger(c) PROVE IInv'
  BY <1>4, TriggerKeeps
<1>5. ASSUME NEW c \in User, NEW new \in BOOLEAN, Manage(c, new) PROVE IInv'
  BY <1>5, ManageKeeps
<1>6. ASSUME NEW c \in User \ Permanent, BeginDissolve(c) PROVE IInv'
  BY <1>6, BeginDissolveKeeps
<1> QED
  BY <1>1, <1>2, <1>3, <1>4, <1>5, <1>6, ProxyBlockKeeps, EpSignalKeeps, EpOtherRpcKeeps, WaitBlockKeeps,
     UserReturnKeeps DEF Next

\* The history variables: what has happened has happened.
History == late \in BOOLEAN /\ reused \in BOOLEAN /\ polled \in BOOLEAN

LEMMA HistoryKept ==
  ASSUME History, [Next]_vars
  PROVE  History' /\ (late => late')
<1>1. ASSUME UNCHANGED <<libVars, epVars>> PROVE History' /\ (late => late')
  BY <1>1 DEF History, libVars, epVars
<1>2. ASSUME UNCHANGED <<libVars, polled>> PROVE History' /\ (late => late')
  BY <1>2 DEF History, libVars
<1>3. ASSUME UNCHANGED <<late, reused, polled>> PROVE History' /\ (late => late')
  BY <1>3 DEF History
<1>4. ASSUME UNCHANGED libVars, polled' \in BOOLEAN PROVE History' /\ (late => late')
  BY <1>4 DEF History, libVars
<1>5. ASSUME NEW t \in Thread, BlockStep(t) PROVE History' /\ (late => late')
  <2>1. CASE Await(t)
    BY <2>1 DEF Await, History, epVars
  <2> QED
    BY <1>1, <1>2, <1>3, <1>5, <2>1 DEF BlockStep, ReadPending, UpdateContext, AckBlocked, epVars
<1>6. ASSUME EpStep PROVE History' /\ (late => late')
  <2>1. CASE Drain \/ Destroy
    BY <1>4, <2>1 DEF Drain, Destroy
  <2>2. CASE Scan
    BY <1>2, <1>3, <2>2 DEF Scan, libVars
  <2>3. CASE Poll
    BY <1>4, <2>3 DEF Poll, History
  <2> QED
    BY <1>1, <1>2, <1>3, <1>6, <2>1, <2>2, <2>3 DEF EpStep, PollUpdate, PollAck, Kill, Free, epVars
<1>7. ASSUME NEW c \in User, NEW new \in BOOLEAN, Manage(c, new) PROVE History' /\ (late => late')
  BY <1>7 DEF Manage, History, epVars
<1>8. ASSUME NEW c \in User, Trigger(c) \/ BeginDissolve(c) PROVE History' /\ (late => late')
  BY <1>1, <1>3, <1>8 DEF Trigger, BeginDissolve
<1>9. ASSUME UserReturn PROVE History' /\ (late => late')
  BY <1>4, <1>9 DEF UserReturn
<1>10. ASSUME NEW kind \in WaitKind, UserWait(kind) PROVE History' /\ (late => late')
  BY <1>2, <1>10 DEF UserWait
<1>11. ASSUME ProxyBlock \/ EpSignal \/ EpOtherRpc \/ WaitBlock PROVE History' /\ (late => late')
  BY <1>2, <1>11 DEF ProxyBlock, EpSignal, EpOtherRpc, WaitBlock
<1>12. ASSUME UNCHANGED vars PROVE History' /\ (late => late')
  BY <1>1, <1>12 DEF vars
<1> QED
  BY <1>5, <1>6, <1>7, <1>8, <1>9, <1>10, <1>11, <1>12 DEF Next

\* The inductive invariant holds of every entrypoint until the kernel delivers a
\* signal of a context that is being dissolved (Signal_receiver::dissolve waits for
\* the acknowledgement of a signal that is being handled, but not for submits that
\* are still queued: Entrypoint_late.cfg). From then on the library works on a
\* context that may be destructed.
THEOREM Invariance == Spec => [](History /\ (late \/ IInv))
<1>1. Init => History /\ IInv
  BY InitHolds DEF Init, History
<1>2. History /\ (late \/ IInv) /\ [Next]_vars => (History /\ (late \/ IInv))'
  BY HistoryKept, NextKeeps, StutterKeeps
<1> QED
  BY <1>1, <1>2, PTL DEF Spec

\* Up to that event types are kept; in particular a context is in the ring of
\* Signal_receiver and in the list of deferred signals once at most, as it has
\* one link for each.
THEOREM TypeCorrect == Spec => [](late \/ TypeOK)
<1>1. History /\ IInv => TypeOK
  <2> SUFFICES ASSUME History, IInv PROVE TypeOK
    OBVIOUS
  <2>1. /\ ring \in Seq(Context) /\ Distinct(ring)
        /\ deferred \in Seq(Context) /\ Distinct(deferred) /\ pending \subseteq Context
    BY DEF IInv, AliveInv
  <2>2. IsInjective(ring) /\ IsInjective(deferred)
    BY <2>1 DEF Distinct, IsInjective
  <2>3. ToSet(ring) \subseteq Context /\ ToSet(deferred) \subseteq Context
    BY <2>1 DEF ToSet
  <2>4. Kernel!TypeOK /\ stack \in Seq(Frame)
    BY DEF IInv, KernelInv, StackInv
  <2> QED
    BY <2>1, <2>2, <2>3, <2>4 DEF TypeOK, IInv, LibTypeOK, History
<1> QED
  BY <1>1, Invariance, PTL

\* Unless the kernel has delivered a signal of a killed context, neither a thread
\* that returns from block_for_signal or pending_signal, nor the list of deferred
\* signals, nor a Signal refers to a context after Signal_receiver::dissolve has
\* returned and the context is destructed, whenever contexts are dissolved, managed
\* again and submitted to, and even though the call may find itself waiting for ever.
THEOREM ContextsStayAlive == Spec => []ContextsAlive
<1>1. IInv => NoDeadContext
  <2> SUFFICES ASSUME IInv PROVE NoDeadContext
    OBVIOUS
  <2>1. ASSUME NEW t \in Thread, state[t] = "ACTIVE",
               pc[t] \in {"woken", "update", "ack", "pollUpdate", "pollAck"}
        PROVE  receiver[utcb[t].context] # None
    BY <2>1 DEF IInv, HoldInv, Holding
  <2>2. ASSUME NEW c \in Context, c \in ToSet(deferred)
        PROVE  receiver[c] # None \/ c = victim
    BY <2>2 DEF IInv, AliveInv
  <2>3. ASSUME NEW c \in Context, HasSignal(c)
        PROVE  receiver[c] # None \/ c = victim
    BY <2>3, Basics DEF HasSignal, IInv, AliveInv
  <2> QED
    BY <2>1, <2>2, <2>3 DEF NoDeadContext
<1>2. late \/ IInv => ContextsAlive
  BY <1>1 DEF ContextsAlive
<1> QED
  BY <1>2, Invariance, PTL

\* Unless the kernel has delivered a signal of a killed context, or a context has
\* been managed again while it looked pending, a signal that the kernel has handed
\* to the proxy or to the entrypoint is not forgotten by the library: it stays
\* pending, or in the hands of a thread that will mark it, until pending_signal
\* returns a Signal of its context.
THEOREM SignalsKept == Spec => []NoSignalLost
<1>1. IInv /\ ~reused => SignalsReturned
  <2> SUFFICES ASSUME IInv, ~reused, NEW c \in Context \ {victim}, sum[c] > 0
               PROVE  ToReport(c) > 0
    BY DEF SignalsReturned
  <2>1. curr[c] \in Nat
    BY EntrypointAssumption DEF IInv, LibTypeOK
  <2>2. \A t \in Thread : utcb[t].num \in Nat
    BY EntrypointAssumption DEF IInv, LibTypeOK
  <2>3. OnItsWay(Proxy, c) \in Nat /\ OnItsWay(Ep, c) \in Nat
    BY <2>2, Basics DEF OnItsWay
  <2>4. (IF c \in pending THEN curr[c] ELSE 0) \in Nat
    BY <2>1
  <2>5. CASE c \in pending
    <3>1. receiver[c] # None
      BY DEF IInv, SignalInv
    <3>2. curr[c] >= 1
      BY <2>5, <3>1 DEF IInv, SignalInv
    <3> QED
      BY <2>1, <2>3, <2>5, <3>2 DEF ToReport
  <2>6. CASE c \notin pending
    <3>1. PICK t \in Thread : Holds(t, c) /\ pc[t] # "ack"
      BY <2>6 DEF IInv, SignalInv
    <3>2. /\ utcb[t].context = c /\ utcb[t].num >= 1
          /\ pc[t] \in {"woken", "update", "pollUpdate", "pollAck"}
      BY <3>1 DEF IInv, HoldInv, Holds, Holding
    <3>3. state[t] = "ACTIVE"
      BY <3>1, <3>2 DEF IInv, HandlerInv, BlockInv, Holds, Holding
    <3>4. OnItsWay(t, c) >= 1
      BY <3>2, <3>3 DEF OnItsWay
    <3> QED
      BY <2>3, <2>4, <3>4, Basics DEF ToReport
  <2> QED
    BY <2>5, <2>6
<1>2. late \/ IInv => NoSignalLost
  BY <1>1 DEF NoSignalLost
<1> QED
  BY <1>2, Invariance, PTL

-----------------------------------------------------------------------------
(* Deferred signals *)

\* A step that neither defers a signal nor ends a wait
LEMMA DefersOn ==
  ASSUME DeferredInv, deferred' # <<>> => deferred # <<>>, Waits => Waits', Comes => Comes',
         submits[DeferredHandler] > 0 => submits'[DeferredHandler] > 0 \/ Comes',
         /\ pc'[Ep] \in {"scan", "poll", "pollUpdate", "pollAck"}
         /\ Top'.kind = "signal"
         => deferred' = <<>>,
         polled => polled' \/ deferred' = <<>>
  PROVE  DeferredInv'
BY DEF DeferredInv

\* The innermost call of an entrypoint that looks for a signal
LEMMA SearchFrame ==
  ASSUME IInv, DeferredInv,
         pc[Ep] \in {"scan", "poll", "pollUpdate", "pollAck", "waitBlock", "await", "woken", "update", "ack"}
  PROVE  /\ stack # <<>> /\ Len(stack) \in DOMAIN stack /\ Top = stack[Len(stack)]
         /\ \/ Top.kind \in WaitKind /\ Waits
            \/ Top.kind = "signal" /\ pc[Ep] \in {"scan", "poll", "pollUpdate", "pollAck"} /\ deferred = <<>>
<1>1. stack \in Seq(Frame) /\ stack # <<>>
  BY DEF IInv, StackInv
<1>2. Len(stack) \in DOMAIN stack /\ Top = stack[Len(stack)]
  BY <1>1 DEF Top, Last
<1>3. Top.kind = "signal" \/ Top.kind \in WaitKind
  BY <1>2 DEF IInv, StackInv, WaitKind
<1>4. Top.kind \in WaitKind => Waits
  BY <1>2 DEF Waits
<1>5. Top.kind = "signal" => pc[Ep] \in {"scan", "poll", "pollUpdate", "pollAck"} /\ deferred = <<>>
  BY DEF IInv, StackInv, DeferredInv
<1> QED
  BY <1>1, <1>2, <1>3, <1>4, <1>5

\* Steps of the proxy that stay in the library
LEMMA ProxyDefers ==
  ASSUME IInv, DeferredInv, ProxyBlock \/ ReadPending(Proxy) \/ UpdateContext(Proxy)
  PROVE  DeferredInv'
<1>1. /\ UNCHANGED <<state, submits, deferred, stack, polled>> /\ pc'[Ep] = pc[Ep]
      /\ \/ pc[Proxy] = "take"
         \/ pc[Proxy] \in {"woken", "update"} /\ pc'[Proxy] \in {"update", "ack"}
  BY Basics DEF ProxyBlock, ReadPending, UpdateContext, Goto, kernelVars, epVars, IInv, LibTypeOK
<1>2. Waits' <=> Waits
  BY <1>1 DEF Waits
<1>3. Comes => Comes'
  BY <1>1 DEF Comes, Draining
<1>4. Top' = Top
  BY <1>1 DEF Top
<1> QED
  BY <1>1, <1>2, <1>3, <1>4, DefersOn DEF DeferredInv

\* Steps of the entrypoint that begin a call
LEMMA EpCallDefers ==
  ASSUME IInv, DeferredInv, EpSignal \/ EpOtherRpc
  PROVE  DeferredInv'
<1>1. PICK kind \in {"signal", "rpc"} :
        /\ pc[Ep] = "idle" /\ Push(kind)
        /\ UNCHANGED <<state, submits, deferred, polled>>
        /\ \/ pc'[Proxy] = "inCall" /\ pc'[Ep] = "drain"
           \/ pc'[Proxy] = pc[Proxy] /\ pc'[Ep] = "user"
  BY Basics DEF EpSignal, EpOtherRpc, Goto, kernelVars, IInv, LibTypeOK
<1>2. Pushed([kind |-> kind, context |-> None]) /\ stack = <<>>
  BY <1>1, PushFrame DEF IInv, StackInv
<1>3. ~Waits
  BY <1>2 DEF Waits
<1>4. Comes => Comes'
  BY <1>1, <1>2 DEF Comes, Draining
<1> QED
  BY <1>1, <1>3, <1>4, DefersOn

\* _process_deferred_signals
LEMMA DrainDefers ==
  ASSUME IInv, DeferredInv, Drain
  PROVE  DeferredInv'
<1>1. stack \in Seq(Frame) /\ pc[Ep] = "drain" /\ Len(stack) = 1 /\ stack[1].kind = "signal" /\ pc[Proxy] = "inCall"
  BY DEF IInv, StackInv, Drain
<1>2. CASE deferred = <<>>
  <2>1. UNCHANGED <<deferred, stack>>
    BY <1>2 DEF Drain
  <2> QED
    BY <1>2, <2>1 DEF DeferredInv
<1>3. CASE deferred # <<>>
  <2> DEFINE f == [kind |-> "item", context |-> Head(deferred)]
  <2>1. stack' = Append(stack, f) /\ pc'[Ep] = "user" /\ pc'[Proxy] = pc[Proxy]
    BY <1>3, Basics DEF Drain, Goto, IInv, LibTypeOK
  <2>2. f \in Frame /\ f.kind = "item"
    BY <1>3 DEF Frame, WaitKind, IInv, AliveInv
  <2> HIDE DEF f
  <2>3. Pushed(f)
    BY <1>1, <2>1, <2>2, PushStack
  <2>4. Len(stack') = 2 /\ stack'[2].kind = "item" /\ stack'[1] = stack[1] /\ DOMAIN stack' = 1 .. 2
    BY <1>1, <2>2, <2>3 DEF Pushed
  <2>5. Comes'
    BY <1>1, <2>1, <2>4 DEF Comes, Draining
  <2> QED
    BY <2>1, <2>5 DEF DeferredInv
<1> QED
  BY <1>2, <1>3

\* Steps of the entrypoint between places of a search that stay in the library
LEMMA SearchDefers ==
  ASSUME IInv, DeferredInv,
         \/ Scan /\ UNCHANGED <<deferred, stack>>
         \/ PollUpdate \/ WaitBlock \/ ReadPending(Ep) \/ UpdateContext(Ep)
  PROVE  DeferredInv'
<1>1. /\ UNCHANGED <<deferred, stack>>
      /\ pc[Ep] \in {"scan", "pollUpdate", "waitBlock", "woken", "update"}
  BY DEF Scan, PollUpdate, WaitBlock, ReadPending, UpdateContext, epVars
<1>2. (Waits' <=> Waits) /\ Top' = Top
  BY <1>1 DEF Waits, Top
<1>3. (Top.kind # "signal" /\ Waits) \/ (Top.kind = "signal" /\ deferred = <<>>)
  BY <1>1, SearchFrame DEF WaitKind
<1> QED
  BY <1>1, <1>2, <1>3 DEF DeferredInv

\* pending_signal has returned a signal: it is deferred only by a call that waits.
LEMMA GotDefers ==
  ASSUME IInv, DeferredInv, pc[Ep] \in {"scan", "pollAck"}, NEW c \in Context, NEW next, GotSignal(c, next)
  PROVE  DeferredInv'
<1>1. /\ stack # <<>> /\ Len(stack) \in DOMAIN stack /\ Top = stack[Len(stack)]
      /\ Top.kind \in WaitKind \/ (Top.kind = "signal" /\ deferred = <<>>)
  BY SearchFrame
<1>2. Got(c, next) /\ GotParts(c)
  BY GotOutcome, GotInParts
<1>3. Top.kind \in WaitKind => Waits' /\ Top.kind # "signal"
  BY <1>1, <1>2 DEF Waits, GotParts, WaitKind
<1>4. Top.kind = "signal" => deferred' = <<>>
  BY <1>1, <1>2 DEF Got, WaitKind
<1>5. Top'.kind = Top.kind
  BY <1>2 DEF GotParts
<1> QED
  BY <1>1, <1>3, <1>4, <1>5 DEF DeferredInv

LEMMA ScanDefers ==
  ASSUME IInv, DeferredInv, Scan
  PROVE  DeferredInv'
<1>1. CASE pending \cap ToSet(ring) = {}
  <2>1. UNCHANGED <<deferred, stack>>
    BY <1>1 DEF Scan
  <2> QED
    BY <2>1, SearchDefers
<1>2. CASE pending \cap ToSet(ring) # {}
  <2>1. PICK c \in Context : ScanHits(c) /\ (ScanInvalid(c) \/ GotSignal(c, 0))
    BY <1>2, ScanOutcome
  <2>2. CASE ScanInvalid(c)
    BY <2>2, SearchDefers DEF ScanInvalid
  <2>3. CASE GotSignal(c, 0)
    BY <2>1, <2>3, GotDefers DEF ScanHits
  <2> QED
    BY <2>1, <2>2, <2>3
<1> QED
  BY <1>1, <1>2

LEMMA PollAckDefers ==
  ASSUME IInv, DeferredInv, PollAck
  PROVE  DeferredInv'
<1>1. pc[Ep] = "pollAck" /\ utcb[Ep].context \in Context
  BY Basics DEF PollAck, IInv, HoldInv, Holding
<1> QED
  BY <1>1, GotDefers DEF PollAck

LEMMA PollDefers ==
  ASSUME IInv, DeferredInv, Poll
  PROVE  DeferredInv'
<1>1. /\ pc[Ep] = "poll" /\ UNCHANGED deferred
      /\ \/ UNCHANGED stack
         \/ Return /\ polled' = (polled \/ (Top.kind = "try" /\ deferred # <<>>)) /\ Top.kind # "wait"
  BY DEF Poll
<1>2. (Top.kind \in WaitKind /\ Waits) \/ (Top.kind = "signal" /\ deferred = <<>>)
  BY <1>1, SearchFrame
<1>3. CASE UNCHANGED stack
  <2>1. (Waits' <=> Waits) /\ Top' = Top
    BY <1>3 DEF Waits, Top
  <2> QED
    BY <1>1, <1>2, <1>3, <2>1 DEF DeferredInv, WaitKind
<1>4. CASE Return /\ polled' = (polled \/ (Top.kind = "try" /\ deferred # <<>>)) /\ Top.kind # "wait"
  <2>1. pc'[Ep] \in {"idle", "drain", "user"}
    BY <1>4, Basics DEF Return, IInv, LibTypeOK
  <2>2. deferred' # <<>> => polled'
    BY <1>1, <1>2, <1>4 DEF WaitKind
  <2> QED
    BY <2>1, <2>2 DEF DeferredInv
<1> QED
  BY <1>1, <1>3, <1>4

\* block_for_signal, called by a wait of the entrypoint
LEMMA EpBlockDefers ==
  ASSUME IInv, DeferredInv, Await(Ep) \/ AckBlocked(Ep)
  PROVE  DeferredInv'
<1>1. UNCHANGED <<deferred, stack>> /\ pc[Ep] \in {"await", "ack"}
  BY DEF Await, AckBlocked, epVars
<1>2. Top.kind \in WaitKind /\ Waits
  BY <1>1, SearchFrame
<1>3. Waits' /\ Top' = Top
  BY <1>1, <1>2 DEF Waits, Top
<1> QED
  BY <1>1, <1>2, <1>3 DEF DeferredInv, WaitKind

\* block_for_signal, called by the proxy
LEMMA ProxyBlockDefers ==
  ASSUME IInv, DeferredInv, Await(Proxy) \/ AckBlocked(Proxy)
  PROVE  DeferredInv'
<1>1. /\ UNCHANGED <<deferred, stack, polled>> /\ pc'[Ep] = pc[Ep]
      /\ \/ Await(Proxy) /\ pc[Proxy] = "await" /\ pc'[Proxy] = "woken"
         \/ pc'[Proxy] = "call"
  BY Basics DEF Await, AckBlocked, Goto, epVars, IInv, LibTypeOK
<1>2. (Waits' <=> Waits) /\ Top' = Top
  BY <1>1 DEF Waits, Top
<1>3. CASE pc'[Proxy] = "call"
  BY <1>1, <1>2, <1>3 DEF DeferredInv, Comes
<1>4. CASE Await(Proxy) /\ pc[Proxy] = "await" /\ pc'[Proxy] = "woken"
  <2>1. handlers[Rec] = <<>>
    BY <1>4, Basics, NobodyWaits
  <2>2. submits' = submits \/ ArrivesNew(Proxy)
    BY <1>4, <2>1, Basics, LibAwait DEF Await, IInv
  <2>3. ArrivesNew(Proxy) => state'[Proxy] = "ACTIVE"
    BY Basics, KernelTypes DEF ArrivesNew, Arrives, HandedTo, IInv
  <2>4. ~Comes
    BY <1>4 DEF Comes, Draining
  <2>5. ArrivesNew(Proxy) => Comes'
    BY <1>4, <2>3 DEF Comes
  <2> QED
    BY <1>1, <1>2, <2>2, <2>4, <2>5, DefersOn DEF DeferredInv
<1> QED
  BY <1>1, <1>3, <1>4

\* Steps that dissolve or manage a context, and submits of other contexts
LEMMA DissolveDefers ==
  ASSUME IInv, DeferredInv,
         \/ \E c \in User : Trigger(c) \/ (\E new \in BOOLEAN : Manage(c, new)) \/ BeginDissolve(c)
         \/ Kill \/ Free \/ Destroy
  PROVE  DeferredInv'
<1>1. UNCHANGED stack /\ pc'[Proxy] = pc[Proxy]
  BY Basics DEF Trigger, Manage, BeginDissolve, Kill, Free, Destroy, Goto, epVars, IInv, LibTypeOK
<1>2. \/ UNCHANGED pc
      \/ /\ pc[Ep] \in {"user", "kill", "free", "destroy"}
         /\ pc'[Ep] \in {"user", "kill", "free", "destroy"}
  BY Basics DEF Trigger, Manage, BeginDissolve, InUserCode, Kill, Free, Destroy, Goto, IInv, LibTypeOK
<1>3. (deferred' # <<>> => deferred # <<>>) /\ (polled => polled' \/ deferred' = <<>>)
  <2>1. CASE Destroy
    <3>1. ASSUME deferred = <<>> PROVE deferred' = <<>>
      <4>1. victim \notin ToSet(deferred)
        BY <3>1 DEF ToSet
      <4> QED
        BY <2>1, <3>1, <4>1 DEF Destroy, NotDeferred, Without
    <3> QED
      BY <2>1, <3>1 DEF Destroy
  <2> QED
    BY <2>1 DEF Trigger, Manage, BeginDissolve, Kill, Free, epVars
<1> DEFINE ProxyServed ==
             /\ submits'[DeferredHandler] = submits[DeferredHandler]
             /\ state'[Proxy] = state[Proxy] \/ state'[Proxy] = "ACTIVE"
<1>4. ProxyServed
  <2>0. state \in [Thread -> Kernel!ThreadState] /\ submits \in [Context -> Nat] /\ KernelInv /\ HandlerInv
    BY KernelTypes DEF IInv
  <2>1. ASSUME NEW c \in User, Trigger(c)
        PROVE  ProxyServed
    <3>1. c \in Context /\ c # DeferredHandler /\ SubmitSignal(c)
      BY <2>1, Basics DEF Trigger
    <3>2. \/ UNCHANGED state /\ submits' = [submits EXCEPT ![c] = @ + 1]
          \/ \E t \in Thread : HandedTo(t, c)
      BY <3>1, <2>0, LibSubmit DEF Arrives
    <3> QED
      BY <2>0, <3>1, <3>2, Basics DEF HandedTo
  <2>2. ASSUME NEW c \in User, NEW new \in BOOLEAN, Manage(c, new)
        PROVE  ProxyServed
    BY <2>0, <2>2, NewEffect, Basics DEF Manage
  <2>3. ASSUME NEW c \in User, BeginDissolve(c)
        PROVE  ProxyServed
    BY <2>3 DEF BeginDissolve, kernelVars
  <2>4. ASSUME Kill
        PROVE  ProxyServed
    <3>1. victim \in Context
      BY <2>4, Basics DEF Kill, IInv, VictimInv, LibTypeOK
    <3> QED
      BY <2>0, <2>4, <3>1, KillEffect, Basics DEF Kill
  <2>5. ASSUME Free
        PROVE  ProxyServed
    <3>1. victim \in Context /\ victim # DeferredHandler /\ killer[victim] = None
      BY <2>5, Basics DEF Free, IInv, VictimInv, LibTypeOK
    <3> QED
      BY <2>0, <2>5, <3>1, DeleteEffect, Basics DEF Free
  <2>6. ASSUME Destroy
        PROVE  ProxyServed
    BY <2>6 DEF Destroy, kernelVars
  <2> QED
    BY <2>1, <2>2, <2>3, <2>4, <2>5, <2>6
<1>5. (Waits' <=> Waits) /\ Top' = Top
  BY <1>1 DEF Waits, Top
<1>6. Comes => Comes'
  BY <1>1, <1>2, <1>4 DEF Comes, Draining
<1> QED
  BY <1>1, <1>2, <1>3, <1>4, <1>5, <1>6, DefersOn DEF DeferredInv

\* A wait for I/O begins.
LEMMA UserWaitDefers ==
  ASSUME IInv, DeferredInv, NEW kind \in WaitKind, UserWait(kind)
  PROVE  DeferredInv'
<1>1. Pushed([kind |-> kind, context |-> None])
  BY PushFrame DEF UserWait, IInv, StackInv, WaitKind
<1>2. Waits' /\ Top'.kind \in WaitKind
  <2>1. Len(stack) + 1 \in DOMAIN stack'
    BY <1>1 DEF Pushed, IInv, StackInv
  <2> QED
    BY <1>1, <2>1 DEF Pushed, Waits
<1> QED
  BY <1>2 DEF DeferredInv, WaitKind

\* User code returns. At the end of a wait, the entrypoint has itself called by
\* the proxy to handle the deferred signals, unless that is under way.
LEMMA UserReturnDefers ==
  ASSUME IInv, DeferredInv, UserReturn
  PROVE  DeferredInv'
<1>1. pc[Ep] = "user" /\ Return /\ UNCHANGED <<delivers, deferred>>
  BY DEF UserReturn
<1>2. Returned
  BY <1>1, ReturnOutcome
<1>3. /\ Len(stack) \in DOMAIN stack /\ Top = stack[Len(stack)] /\ Len(stack) \in Nat
      /\ DOMAIN stack = 1 .. Len(stack)
  BY <1>2 DEF Returned, Top, Last, IInv, StackInv
<1>4. Top.kind \notin WaitKind => (polled => polled')
  BY DEF UserReturn
<1>5. \/ UNCHANGED <<state, submits>>
      \/ SubmitSignal(DeferredHandler)
  BY DEF UserReturn, kernelVars
<1>6. state \in [Thread -> Kernel!ThreadState] /\ submits \in [Context -> Nat] /\ DeferredHandler \in Context
  BY KernelTypes, Basics DEF IInv
<1>7. SubmitSignal(DeferredHandler) =>
        \/ UNCHANGED state /\ submits' = [submits EXCEPT ![DeferredHandler] = @ + 1]
        \/ pc[Proxy] = "woken" /\ state'[Proxy] = "ACTIVE"
  <2> SUFFICES ASSUME SubmitSignal(DeferredHandler), NEW t \in Thread, handlers[Rec] = <<t>>,
                      HandedTo(t, DeferredHandler)
               PROVE  pc[Proxy] = "woken" /\ state'[Proxy] = "ACTIVE"
    BY <1>6, LibSubmit DEF Arrives, IInv
  <2>1. t = Proxy /\ pc[t] = "woken"
    BY <1>1, WaitsWoken, Basics DEF IInv
  <2> QED
    BY <1>6, <2>1 DEF HandedTo
<1>8. SubmitSignal(DeferredHandler) => submits'[DeferredHandler] > 0 \/ Comes'
  <2>1. CASE pc[Proxy] = "woken" /\ state'[Proxy] = "ACTIVE"
    BY <1>2, <2>1 DEF Returned, Comes
  <2> QED
    BY <1>6, <1>7, <2>1
<1>9. Comes => Comes'
  <2>1. state'[Proxy] = state[Proxy] \/ state'[Proxy] = "ACTIVE"
    BY <1>5, <1>7
  <2> QED
    BY <1>2, <2>1 DEF Returned, Comes
<1>10. submits[DeferredHandler] > 0 => submits'[DeferredHandler] > 0 \/ Comes'
  BY <1>5, <1>8
<1>11. CASE Top.kind \notin WaitKind
  <2>1. Waits => Waits'
    BY <1>2, <1>3, <1>11 DEF Returned, PoppedOff, Waits
  <2> QED
    BY <1>1, <1>2, <1>4, <1>9, <1>10, <1>11, <2>1, DefersOn DEF Returned
<1>12. CASE Top.kind \in WaitKind /\ deferred # <<>>
  <2>1. CASE Kernel!CanSubmit(DeferredHandler, 1)
    <3>1. SubmitSignal(DeferredHandler)
      BY <1>12, <2>1 DEF UserReturn, Initiates
    <3> QED
      BY <1>2, <1>8, <3>1 DEF DeferredInv, Returned
  <2>2. CASE ~Kernel!CanSubmit(DeferredHandler, 1)
    <3>1. killed = {}
      BY <1>1 DEF IInv, VictimInv
    <3>2. submits[DeferredHandler] > 0
      BY <1>6, <2>2, <3>1, EntrypointAssumption DEF Kernel!CanSubmit
    <3> QED
      BY <1>2, <1>10, <3>2 DEF DeferredInv, Returned
  <2> QED
    BY <2>1, <2>2
<1>13. CASE deferred = <<>>
  BY <1>1, <1>2, <1>13 DEF DeferredInv, Returned
<1> QED
  BY <1>11, <1>12, <1>13

LEMMA NextDefers ==
  ASSUME IInv, DeferredInv, Next
  PROVE  DeferredInv'
<1>1. ASSUME NEW t \in Thread, BlockStep(t) PROVE DeferredInv'
  <2>1. CASE t = Proxy
    BY <1>1, <2>1, ProxyDefers, ProxyBlockDefers DEF BlockStep
  <2>2. CASE t = Ep
    BY <1>1, <2>2, SearchDefers, EpBlockDefers DEF BlockStep
  <2> QED
    BY <2>1, <2>2, Basics
<1>2. ASSUME EpStep PROVE DeferredInv'
  BY <1>2, DrainDefers, ScanDefers, PollDefers, SearchDefers, PollAckDefers, DissolveDefers DEF EpStep
<1>3. ASSUME NEW kind \in WaitKind, UserWait(kind) PROVE DeferredInv'
  BY <1>3, UserWaitDefers
<1>4. ASSUME NEW c \in User, Trigger(c) PROVE DeferredInv'
  BY <1>4, DissolveDefers
<1>5. ASSUME NEW c \in User, NEW new \in BOOLEAN, Manage(c, new) PROVE DeferredInv'
  BY <1>5, DissolveDefers
<1>6. ASSUME NEW c \in User \ Permanent, BeginDissolve(c) PROVE DeferredInv'
  BY <1>6, DissolveDefers
<1> QED
  BY <1>1, <1>2, <1>3, <1>4, <1>5, <1>6, ProxyDefers, EpCallDefers, SearchDefers, UserReturnDefers DEF Next

LEMMA DeferredStutter ==
  ASSUME DeferredInv, UNCHANGED vars
  PROVE  DeferredInv'
<1>1. UNCHANGED <<state, submits, pc, deferred, stack, polled>>
  BY DEF vars, kernelVars, epVars
<1> QED
  BY <1>1 DEF DeferredInv, Waits, Comes, Draining, Top

\* The entrypoint and the proxy do not both wait for something new while a signal
\* is pending or deferred: _process_deferred_signals will be called. Only signals
\* that dispatch_pending_io_signal left when it found no I/O signal may stay behind
\* (Entrypoint_poll.cfg), and nothing is said once the kernel has delivered a signal
\* of a killed context or a context was managed again while it looked pending.
THEOREM IdleWhenDone == Spec => []IdleOnlyIfDone
<1>1. Init => History /\ IInv /\ DeferredInv
  <2>1. DOMAIN <<>> = {}
    OBVIOUS
  <2> QED
    BY <2>1, InitHolds, Basics DEF Init, History, DeferredInv
<1> DEFINE Inv == History /\ (late \/ (IInv /\ DeferredInv))
<1>2. Inv /\ [Next]_vars => Inv'
  BY HistoryKept, NextKeeps, StutterKeeps, NextDefers, DeferredStutter
<1>3. IInv /\ DeferredInv => IdleOnlyIfDone
  <2> SUFFICES ASSUME IInv, DeferredInv, ~reused,
                      pc[Ep] = "idle", pc[Proxy] = "woken", state[Proxy] = "AWAITS_SIGNAL"
               PROVE  pending \cap ToSet(ring) = {} /\ (deferred = <<>> \/ polled)
    BY DEF IdleOnlyIfDone, Idle
  <2>1. victim = None /\ killed = {} /\ stack = <<>> /\ None \notin pending
    BY Basics DEF IInv, VictimInv, StackInv, AliveInv
  <2>2. ~ProxyLooks /\ ~EpLooks /\ ~Comes /\ ~Waits
    BY <2>1 DEF ProxyLooks, EpLooks, Draining, Comes, Waits
  <2>3. Marks = {}
    BY <2>2 DEF IInv, PendingInv
  <2>4. pending \cap ToSet(ring) = {}
    BY <2>1, <2>3 DEF Marks, IInv, AliveInv
  <2>5. handlers[Rec] = <<Proxy>> /\ deliver[Rec] = <<>>
    BY Basics DEF IInv, HandlerInv
  <2>6. ~Holding(Proxy) /\ ~Holding(Ep)
    BY DEF Holding
  <2>7. DeferredHandler \in ack
    BY <2>1, <2>6, Basics DEF IInv, HoldInv, Holds
  <2>8. DeferredHandler \notin ToSet(deliver[Rec])
    BY <2>5 DEF ToSet
  <2>9. ~(submits[DeferredHandler] > 0)
    BY <2>7, <2>8, Basics, KernelTypes DEF IInv, KernelInv, AliveInv
  <2> QED
    BY <2>2, <2>4, <2>9 DEF DeferredInv
<1>4. Inv => IdleOnlyIfDone
  BY <1>3 DEF IdleOnlyIfDone
<1> QED
  BY <1>1, <1>2, <1>4, PTL DEF Spec

=============================================================================

--------------------------- MODULE CapabilityProof ----------------------------
(* Proofs about Capability, for any number of threads, protection domains,    *)
(* capability IDs and identities                                              *)
EXTENDS Capability, FiniteSetTheorems, TLAPS

-----------------------------------------------------------------------------
(* The capability spaces: a kernel state s, the places pcs of the threads, their
   reference counters cnt, capability objects cop and messages sn, the IDs dy that
   are being deleted and the sizes sz of the slabs *)

KernelType ==
  [ref : [Pd -> [CapId -> Identity \cup {Invalid, None}]],
   inUtcbs : [Pd -> [CapId -> Nat]],
   slab : [Pd -> Nat],
   slot : SUBSET User,
   utcb : [Thread -> CapId \cup {None}]]

Sends(sn, p, id) == {t \in Threads(p) : sn[t] = id}
Pends(s, pcs, p, id) == {t \in Threads(p) : pcs[t] \in {"import", "ack"} /\ s.utcb[t] = id}
Acks(s, pcs, p, id) == {t \in Threads(p) : pcs[t] = "ack" /\ s.utcb[t] = id}
Refs(s, p) == {id \in CapId : s.ref[p][id] # None}

\* A thread that may receive a message has a block for its capability, core
\* receives none.
SlotsReady(s, pcs) ==
  /\ \A t \in User : pcs[t] \in {"wait", "queued", "called"} => t \in s.slot
  /\ \A t \in Thread : PdOf[t] = Core => s.utcb[t] = None

\* _in_utcbs counts the UTCBs with a received ID, and they are referenced.
UtcbsCounted(s, pcs) ==
  \A p \in Pd, id \in CapId :
    /\ s.inUtcbs[p][id] = Cardinality(Pends(s, pcs, p, id))
    /\ Pends(s, pcs, p, id) # {} => s.ref[p][id] # None

\* The reference counter counts the capability objects, and they are referenced.
ObjectsCounted(s, pcs, cnt, cop, sn) ==
  \A p \in Pd, id \in CapId :
    /\ cnt[p][id] = cop[p][id] + Cardinality(Sends(sn, p, id)) + Cardinality(Acks(s, pcs, p, id))
    /\ cop[p][id] > 0 \/ Sends(sn, p, id) # {} => s.ref[p][id] # None

\* Somebody uses a reference, or is about to delete it.
RefsUsed(s, pcs, cop, sn, dy) ==
  \A p \in Pd, id \in CapId :
    s.ref[p][id] # None =>
      \/ cop[p][id] > 0 \/ Sends(sn, p, id) # {}
      \/ Pends(s, pcs, p, id) # {}
      \/ dy[p] = id

RefsUnique(s) ==
  \A p \in Pd, id1, id2 \in CapId :
    s.ref[p][id1] = s.ref[p][id2] /\ s.ref[p][id1] \in Identity => id1 = id2

SlabCounted(s, sz) ==
  \A p \in Pd :
    sz[p] = s.slab[p] + Cardinality(Refs(s, p)) + Cardinality(s.slot \cap Threads(p))

SpaceInv(s, pcs, cnt, cop, sn, dy, sz) ==
  /\ s \in KernelType
  /\ SlotsReady(s, pcs)
  /\ UtcbsCounted(s, pcs)
  /\ ObjectsCounted(s, pcs, cnt, cop, sn)
  /\ RefsUsed(s, pcs, cop, sn, dy)
  /\ RefsUnique(s)
  /\ SlabCounted(s, sz)

-----------------------------------------------------------------------------
(* Counting *)

LEMMA ThreadsFinite ==
  ASSUME NEW p, NEW A, A \subseteq Threads(p)
  PROVE  /\ IsFiniteSet(A) /\ Cardinality(A) \in Nat
         /\ Cardinality(A) <= Cardinality(Thread)
         /\ Cardinality(A) > 0 <=> A # {}
<1>1. A \subseteq Thread /\ IsFiniteSet(Thread)
  BY CapabilityAssumption DEF Threads
<1>2. IsFiniteSet(A) /\ Cardinality(A) <= Cardinality(Thread)
  BY <1>1, FS_Subset
<1>3. Cardinality(A) \in Nat /\ (Cardinality(A) = 0 <=> A = {})
  BY <1>2, FS_CardinalityType, FS_EmptySet
<1>4. QED
  BY <1>2, <1>3

LEMMA IdsFinite ==
  ASSUME NEW A, A \subseteq CapId
  PROVE  IsFiniteSet(A) /\ Cardinality(A) \in Nat
<1>1. IsFiniteSet(CapId)
  BY CapabilityAssumption
<1>2. QED
  BY <1>1, FS_Subset, FS_CardinalityType

LEMMA OneMore ==
  ASSUME NEW A, IsFiniteSet(A), NEW x, x \notin A
  PROVE  Cardinality(A \cup {x}) = Cardinality(A) + 1
BY FS_AddElement

LEMMA OneLess ==
  ASSUME NEW A, IsFiniteSet(A), NEW x \in A
  PROVE  Cardinality(A \ {x}) = Cardinality(A) - 1
BY FS_RemoveElement

-----------------------------------------------------------------------------
(* The transfer of a capability *)

\* Kernel state r is s after a message without a capability for thread to, with
\* a capability that its protection domain has as id, and with identity i that
\* it gets to know as id.
NothingCopied(s, r, to) ==
  /\ r.ref = s.ref /\ r.inUtcbs = s.inUtcbs /\ r.slab = s.slab /\ r.slot = s.slot
  /\ r.utcb = [s.utcb EXCEPT ![to] = None]
KnownCopied(s, r, to, id) ==
  /\ id \in CapId /\ s.ref[PdOf[to]][id] # None
  /\ r.ref = s.ref /\ r.slab = s.slab /\ r.slot = s.slot
  /\ r.inUtcbs = [s.inUtcbs EXCEPT ![PdOf[to]][id] = @ + 1]
  /\ r.utcb = [s.utcb EXCEPT ![to] = id]
NewCopied(s, r, to, id, i) ==
  /\ id \in CapId /\ s.ref[PdOf[to]][id] = None
  /\ i \in Identity /\ \A o \in CapId : s.ref[PdOf[to]][o] # i
  /\ r.ref = [s.ref EXCEPT ![PdOf[to]][id] = i]
  /\ r.slab = s.slab /\ r.slot = s.slot \ {to}
  /\ r.inUtcbs = [s.inUtcbs EXCEPT ![PdOf[to]][id] = 1]
  /\ r.utcb = [s.utcb EXCEPT ![to] = id]

LEMMA PdOfUser ==
  /\ \A t \in Thread : PdOf[t] \in Pd \cup {Core}
  /\ \A t \in Thread : PdOf[t] # Core => t \in User /\ PdOf[t] \in Pd
  /\ \A t \in User : t \in Thread /\ PdOf[t] # Core /\ PdOf[t] \in Pd
  /\ \A p \in Pd : Threads(p) \subseteq User /\ p # Core
BY CapabilityAssumption DEF User, Threads

LEMMA CopyMsgEffect ==
  ASSUME NEW s \in KernelType, NEW from \in Thread, NEW to \in Thread,
         NEW new \in NewIds(from, to, s), object \subseteq Identity
  PROVE  LET r == CopyMsg(s, from, to, new) IN
         /\ r \in KernelType
         /\ \/ NothingCopied(s, r, to)
            \/ PdOf[to] \in Pd /\ \E id \in CapId : KnownCopied(s, r, to, id)
            \/ PdOf[to] \in Pd /\ \E id \in CapId, i \in Identity : NewCopied(s, r, to, id, i)
<1> DEFINE r == CopyMsg(s, from, to, new)
           p == PdOf[to]
<1>1. None \notin Identity
  BY CapabilityAssumption
<1>2. CASE ~Translates(from, to, s)
  <2>1. r = [s EXCEPT !.utcb[to] = None]
    BY <1>2 DEF CopyMsg
  <2>2. NothingCopied(s, r, to)
    BY <2>1 DEF KernelType, NothingCopied
  <2>3. r = [ref |-> s.ref, inUtcbs |-> s.inUtcbs, slab |-> s.slab, slot |-> s.slot,
             utcb |-> [s.utcb EXCEPT ![to] = None]]
    BY <2>1 DEF KernelType
  <2>4. r \in KernelType
    BY <2>3 DEF KernelType
  <2>5. QED
    BY <2>2, <2>4
<1>3. CASE Creates(from, to, s)
  <2> DEFINE i == Sent(s, from)
  <2>1. p \in Pd /\ i \in object /\ i \in Identity /\ to \in User
    BY <1>1, <1>3, PdOfUser DEF Creates, Translates, Sent
  <2>2. new \in CapId /\ s.ref[p][new] = None
    BY <1>3 DEF NewIds
  <2>3. \A o \in CapId : s.ref[p][o] # i
    BY <1>3 DEF Creates, Known
  <2> HIDE DEF i
  <2>4. r = [s EXCEPT !.ref[p][new] = i, !.slot = s.slot \ {to},
                      !.inUtcbs[p][new] = 1, !.utcb[to] = new]
    BY <1>3 DEF CopyMsg, TakeSlot, AddToUtcb, Creates, i
  <2>5. r \in KernelType
    <3>1. r = [ref |-> [s.ref EXCEPT ![p][new] = i], inUtcbs |-> [s.inUtcbs EXCEPT ![p][new] = 1],
               slab |-> s.slab, slot |-> s.slot \ {to}, utcb |-> [s.utcb EXCEPT ![to] = new]]
      BY <2>4 DEF KernelType
    <3>2. [s.ref EXCEPT ![p][new] = i] \in [Pd -> [CapId -> Identity \cup {Invalid, None}]]
      BY <2>1, <2>2 DEF KernelType
    <3>3. [s.inUtcbs EXCEPT ![p][new] = 1] \in [Pd -> [CapId -> Nat]]
      BY <2>1, <2>2 DEF KernelType
    <3>4. QED
      BY <2>2, <3>1, <3>2, <3>3 DEF KernelType
  <2>6. NewCopied(s, r, to, new, i)
    BY <2>1, <2>2, <2>3, <2>4 DEF KernelType, NewCopied
  <2>7. QED
    BY <2>1, <2>2, <2>5, <2>6
<1>4. CASE Translates(from, to, s) /\ ~Creates(from, to, s)
  <2> DEFINE id == CHOOSE id \in Known(s, from, to) : TRUE
  <2>1. p \in Pd /\ Sent(s, from) # None
    BY <1>4, PdOfUser DEF Translates
  <2>2. id \in Known(s, from, to)
    BY <1>4 DEF Creates
  <2>3. id \in CapId /\ s.ref[p][id] # None
    BY <2>1, <2>2 DEF Known
  <2>4. r = [s EXCEPT !.inUtcbs[p][id] = @ + 1, !.utcb[to] = id]
    BY <1>4 DEF CopyMsg, AddToUtcb
  <2> HIDE DEF id
  <2>5. r \in KernelType
    <3>1. r = [ref |-> s.ref, inUtcbs |-> [s.inUtcbs EXCEPT ![p][id] = @ + 1],
               slab |-> s.slab, slot |-> s.slot, utcb |-> [s.utcb EXCEPT ![to] = id]]
      BY <2>4 DEF KernelType
    <3>2. [s.inUtcbs EXCEPT ![p][id] = @ + 1] \in [Pd -> [CapId -> Nat]]
      BY <2>1, <2>3 DEF KernelType
    <3>3. QED
      BY <2>3, <3>1, <3>2 DEF KernelType
  <2>6. KnownCopied(s, r, to, id)
    BY <2>1, <2>3, <2>4 DEF KernelType, KnownCopied
  <2>7. QED
    BY <2>1, <2>3, <2>5, <2>6
<1>5. QED
  BY <1>2, <1>3, <1>4 DEF Creates

Places == {"run", "delete", "send", "queued", "called", "reply", "wait", "upgrade",
           "import", "ack"}

\* The receiver is the only thread that has something new in its UTCB.
UtcbSet(s, r, pcs, now, to, v) ==
  \A p \in Pd, id \in CapId :
    /\ to \notin Pends(s, pcs, p, id)
    /\ Pends(r, now, p, id) = IF p = PdOf[to] /\ id = v THEN Pends(s, pcs, p, id) \cup {to}
                              ELSE Pends(s, pcs, p, id)
    /\ Acks(r, now, p, id) = Acks(s, pcs, p, id)

LEMMA PendsAfter ==
  ASSUME NEW s \in KernelType, NEW r, NEW pcs \in [Thread -> Places], NEW to \in Thread, NEW v,
         r.utcb = [s.utcb EXCEPT ![to] = v], pcs[to] \notin {"import", "ack"}
  PROVE  UtcbSet(s, r, pcs, [pcs EXCEPT ![to] = "import"], to, v)
<1> DEFINE now == [pcs EXCEPT ![to] = "import"]
<1>1. s.utcb \in [Thread -> CapId \cup {None}]
  BY DEF KernelType
<1>2. now[to] = "import" /\ \A t \in Thread : t # to => now[t] = pcs[t]
  OBVIOUS
<1>3. r.utcb[to] = v /\ \A t \in Thread : t # to => r.utcb[t] = s.utcb[t]
  BY <1>1
<1> HIDE DEF now
<1> SUFFICES ASSUME NEW p \in Pd, NEW id \in CapId
             PROVE  /\ to \notin Pends(s, pcs, p, id)
                    /\ Pends(r, now, p, id) = IF p = PdOf[to] /\ id = v
                                              THEN Pends(s, pcs, p, id) \cup {to}
                                              ELSE Pends(s, pcs, p, id)
                    /\ Acks(r, now, p, id) = Acks(s, pcs, p, id)
  BY DEF UtcbSet, now
<1>4. to \notin Pends(s, pcs, p, id)
  BY DEF Pends
<1>5. Pends(r, now, p, id) = IF p = PdOf[to] /\ id = v THEN Pends(s, pcs, p, id) \cup {to}
                             ELSE Pends(s, pcs, p, id)
  BY <1>2, <1>3, <1>4 DEF Pends, Threads
<1>6. Acks(r, now, p, id) = Acks(s, pcs, p, id)
  BY <1>2, <1>3 DEF Acks, Threads
<1>7. QED
  BY <1>4, <1>5, <1>6

\* Thread::ipc_copy_msg keeps the capability spaces in order: it counts the UTCB
\* of the receiver, uses the block of the receiver for a new reference, and makes
\* none for an identity that the receiver knows.
LEMMA Delivered ==
  ASSUME NEW s, NEW pcs \in [Thread -> Places], NEW cnt, NEW cop, NEW sn, NEW dy, NEW sz,
         SpaceInv(s, pcs, cnt, cop, sn, dy, sz), object \subseteq Identity,
         NEW from \in Thread, NEW to \in Thread, pcs[to] \in {"wait", "called"},
         NEW new \in NewIds(from, to, s)
  PROVE  SpaceInv(CopyMsg(s, from, to, new), [pcs EXCEPT ![to] = "import"],
                  cnt, cop, sn, dy, sz)
<1> DEFINE r == CopyMsg(s, from, to, new)
           now == [pcs EXCEPT ![to] = "import"]
           q == PdOf[to]
<1>1. s \in KernelType /\ SlotsReady(s, pcs) /\ UtcbsCounted(s, pcs)
      /\ ObjectsCounted(s, pcs, cnt, cop, sn) /\ RefsUsed(s, pcs, cop, sn, dy) /\ RefsUnique(s)
      /\ SlabCounted(s, sz)
  BY DEF SpaceInv
<1>2. /\ r \in KernelType
      /\ \/ NothingCopied(s, r, to)
         \/ q \in Pd /\ \E id \in CapId : KnownCopied(s, r, to, id)
         \/ q \in Pd /\ \E id \in CapId, i \in Identity : NewCopied(s, r, to, id, i)
  BY <1>1, CopyMsgEffect
<1>3. to \in User => to \in s.slot
  BY <1>1 DEF SlotsReady
<1>4. now[to] = "import" /\ \A t \in Thread : t # to => now[t] = pcs[t]
  OBVIOUS
<1>5. pcs[to] \notin {"import", "ack"} /\ None \notin CapId
  BY CapabilityAssumption
<1> HIDE DEF r
<1>6. CASE NothingCopied(s, r, to)
  <2>1. /\ r.ref = s.ref /\ r.inUtcbs = s.inUtcbs /\ r.slab = s.slab /\ r.slot = s.slot
        /\ r.utcb = [s.utcb EXCEPT ![to] = None]
    BY <1>6 DEF NothingCopied
  <2>2. \A p \in Pd, id \in CapId : /\ Pends(r, now, p, id) = Pends(s, pcs, p, id)
                                    /\ Acks(r, now, p, id) = Acks(s, pcs, p, id)
    <3>1. UtcbSet(s, r, pcs, now, to, None)
      BY <1>1, <1>5, <2>1, PendsAfter
    <3>2. QED
      BY <1>5, <3>1 DEF UtcbSet
  <2>3. \A p : Refs(r, p) = Refs(s, p)
    BY <2>1 DEF Refs
  <2>4. SlotsReady(r, now)
    BY <1>1, <1>4, <2>1 DEF SlotsReady, KernelType, User
  <2> HIDE DEF now
  <2>5. UtcbsCounted(r, now) /\ ObjectsCounted(r, now, cnt, cop, sn)
    BY <1>1, <2>1, <2>2 DEF UtcbsCounted, ObjectsCounted
  <2>6. RefsUsed(r, now, cop, sn, dy) /\ RefsUnique(r)
    BY <1>1, <2>1, <2>2 DEF RefsUsed, RefsUnique
  <2>7. SlabCounted(r, sz)
    BY <1>1, <2>1, <2>3 DEF SlabCounted
  <2>8. SpaceInv(r, now, cnt, cop, sn, dy, sz)
    BY <1>2, <2>4, <2>5, <2>6, <2>7 DEF SpaceInv
  <2>9. QED
    BY <2>8 DEF r, now
<1>7. ASSUME q \in Pd, NEW id \in CapId, KnownCopied(s, r, to, id)
      PROVE  SpaceInv(r, now, cnt, cop, sn, dy, sz)
  <2>1. /\ s.ref[q][id] # None
        /\ r.ref = s.ref /\ r.slab = s.slab /\ r.slot = s.slot
        /\ r.inUtcbs = [s.inUtcbs EXCEPT ![q][id] = @ + 1]
        /\ r.utcb = [s.utcb EXCEPT ![to] = id]
    BY <1>7 DEF KnownCopied
  <2>2. \A p \in Pd, o \in CapId :
          /\ to \notin Pends(s, pcs, p, o)
          /\ Pends(r, now, p, o) = IF p = q /\ o = id THEN Pends(s, pcs, p, o) \cup {to}
                                   ELSE Pends(s, pcs, p, o)
          /\ Acks(r, now, p, o) = Acks(s, pcs, p, o)
    <3>1. UtcbSet(s, r, pcs, now, to, id)
      BY <1>1, <1>5, <2>1, PendsAfter
    <3>2. QED
      BY <1>5, <3>1 DEF UtcbSet
  <2>3. \A p : Refs(r, p) = Refs(s, p)
    BY <2>1 DEF Refs
  <2>4. SlotsReady(r, now)
    BY <1>1, <1>4, <1>7, <2>1, PdOfUser DEF SlotsReady, KernelType
  <2> HIDE DEF now
  <2>5. UtcbsCounted(r, now)
    <3> SUFFICES ASSUME NEW p \in Pd, NEW o \in CapId
                 PROVE  /\ r.inUtcbs[p][o] = Cardinality(Pends(r, now, p, o))
                        /\ Pends(r, now, p, o) # {} => r.ref[p][o] # None
      BY DEF UtcbsCounted
    <3>1. /\ s.inUtcbs[p][o] = Cardinality(Pends(s, pcs, p, o))
          /\ Pends(s, pcs, p, o) # {} => s.ref[p][o] # None
      BY <1>1 DEF UtcbsCounted
    <3>2. CASE p = q /\ o = id
      <4>1. r.inUtcbs[p][o] = s.inUtcbs[p][o] + 1
        BY <1>1, <2>1, <3>2 DEF KernelType
      <4>2. IsFiniteSet(Pends(s, pcs, p, o))
        BY ThreadsFinite DEF Pends
      <4>3. Cardinality(Pends(s, pcs, p, o) \cup {to}) = Cardinality(Pends(s, pcs, p, o)) + 1
        BY <2>2, <4>2, OneMore
      <4>4. QED
        BY <2>1, <2>2, <3>1, <3>2, <4>1, <4>3
    <3>3. CASE ~(p = q /\ o = id)
      <4>1. r.inUtcbs[p][o] = s.inUtcbs[p][o]
        BY <1>1, <2>1, <3>3 DEF KernelType
      <4>2. QED
        BY <2>1, <2>2, <3>1, <3>3, <4>1
    <3>4. QED
      BY <3>2, <3>3
  <2>6. ObjectsCounted(r, now, cnt, cop, sn)
    BY <1>1, <2>1, <2>2 DEF ObjectsCounted
  <2>7. RefsUsed(r, now, cop, sn, dy) /\ RefsUnique(r)
    <3>1. \A p \in Pd, o \in CapId : Pends(s, pcs, p, o) # {} => Pends(r, now, p, o) # {}
      BY <2>2
    <3>2. QED
      BY <1>1, <2>1, <3>1 DEF RefsUsed, RefsUnique
  <2>8. SlabCounted(r, sz)
    BY <1>1, <2>1, <2>3 DEF SlabCounted
  <2>9. QED
    BY <1>2, <2>4, <2>5, <2>6, <2>7, <2>8 DEF SpaceInv
<1>8. ASSUME q \in Pd, NEW id \in CapId, NEW i \in Identity, NewCopied(s, r, to, id, i)
      PROVE  SpaceInv(r, now, cnt, cop, sn, dy, sz)
  <2>1. /\ s.ref[q][id] = None /\ \A o \in CapId : s.ref[q][o] # i
        /\ r.ref = [s.ref EXCEPT ![q][id] = i]
        /\ r.slab = s.slab /\ r.slot = s.slot \ {to}
        /\ r.inUtcbs = [s.inUtcbs EXCEPT ![q][id] = 1]
        /\ r.utcb = [s.utcb EXCEPT ![to] = id]
    BY <1>8 DEF NewCopied
  <2>2. \A p \in Pd, o \in CapId :
          /\ to \notin Pends(s, pcs, p, o)
          /\ Pends(r, now, p, o) = IF p = q /\ o = id THEN Pends(s, pcs, p, o) \cup {to}
                                   ELSE Pends(s, pcs, p, o)
          /\ Acks(r, now, p, o) = Acks(s, pcs, p, o)
    <3>1. UtcbSet(s, r, pcs, now, to, id)
      BY <1>1, <1>5, <2>1, PendsAfter
    <3>2. QED
      BY <1>5, <3>1 DEF UtcbSet
  <2>3. /\ r.ref[q][id] = i /\ i # None
        /\ \A p \in Pd, o \in CapId : ~(p = q /\ o = id) => r.ref[p][o] = s.ref[p][o]
    BY <1>1, <1>8, <2>1, CapabilityAssumption DEF KernelType
  <2>4. to \in User /\ to \in s.slot /\ to \in Threads(q)
    BY <1>3, <1>8, PdOfUser DEF Threads
  <2>5. SlotsReady(r, now)
    BY <1>1, <1>4, <1>8, <2>1, <2>4, PdOfUser DEF SlotsReady, KernelType
  <2> HIDE DEF now
  <2>6. UtcbsCounted(r, now)
    <3> SUFFICES ASSUME NEW p \in Pd, NEW o \in CapId
                 PROVE  /\ r.inUtcbs[p][o] = Cardinality(Pends(r, now, p, o))
                        /\ Pends(r, now, p, o) # {} => r.ref[p][o] # None
      BY DEF UtcbsCounted
    <3>1. /\ s.inUtcbs[p][o] = Cardinality(Pends(s, pcs, p, o))
          /\ Pends(s, pcs, p, o) # {} => s.ref[p][o] # None
      BY <1>1 DEF UtcbsCounted
    <3>2. CASE p = q /\ o = id
      <4>1. r.inUtcbs[p][o] = 1
        BY <1>1, <2>1, <3>2 DEF KernelType
      <4>2. Pends(r, now, p, o) = {to}
        BY <2>1, <2>2, <3>1, <3>2
      <4>3. QED
        BY <2>3, <3>2, <4>1, <4>2, FS_Singleton
    <3>3. CASE ~(p = q /\ o = id)
      <4>1. r.inUtcbs[p][o] = s.inUtcbs[p][o]
        BY <1>1, <2>1, <3>3 DEF KernelType
      <4>2. QED
        BY <2>2, <2>3, <3>1, <3>3, <4>1
    <3>4. QED
      BY <3>2, <3>3
  <2>7. ObjectsCounted(r, now, cnt, cop, sn)
    BY <1>1, <2>1, <2>2, <2>3 DEF ObjectsCounted
  <2>8. RefsUsed(r, now, cop, sn, dy)
    <3>1. \A p \in Pd, o \in CapId : Pends(s, pcs, p, o) # {} => Pends(r, now, p, o) # {}
      BY <2>2
    <3>2. Pends(r, now, q, id) # {}
      BY <1>8, <2>2
    <3>3. QED
      BY <1>1, <2>3, <3>1, <3>2 DEF RefsUsed
  <2>9. RefsUnique(r)
    BY <1>1, <2>1, <2>3 DEF RefsUnique
  <2>10. SlabCounted(r, sz)
    <3> SUFFICES ASSUME NEW p \in Pd
                 PROVE  sz[p] = r.slab[p] + Cardinality(Refs(r, p)) + Cardinality(r.slot \cap Threads(p))
      BY DEF SlabCounted
    <3> DEFINE A == Refs(s, p)
               B == s.slot \cap Threads(p)
    <3>1. sz[p] = s.slab[p] + Cardinality(A) + Cardinality(B) /\ s.slab[p] \in Nat
      BY <1>1 DEF SlabCounted, KernelType
    <3>2. IsFiniteSet(A) /\ Cardinality(A) \in Nat
      BY IdsFinite DEF Refs
    <3>3. IsFiniteSet(B) /\ Cardinality(B) \in Nat
      BY ThreadsFinite
    <3>4. CASE p = q
      <4>1. Refs(r, p) = A \cup {id} /\ id \notin A
        BY <1>8, <2>1, <2>3, <3>4 DEF Refs
      <4>2. r.slot \cap Threads(p) = B \ {to} /\ to \in B
        BY <2>1, <2>4, <3>4
      <4> HIDE DEF A, B
      <4>3. Cardinality(A \cup {id}) = Cardinality(A) + 1 /\ Cardinality(B \ {to}) = Cardinality(B) - 1
        BY <3>2, <3>3, <4>1, <4>2, OneMore, OneLess
      <4>4. QED
        <5> DEFINE a == Cardinality(A)
                   b == Cardinality(B)
        <5>1. Cardinality(Refs(r, p)) = a + 1 /\ Cardinality(r.slot \cap Threads(p)) = b - 1
          BY <4>1, <4>2, <4>3
        <5> HIDE DEF a, b
        <5>2. sz[p] = s.slab[p] + a + b /\ a \in Nat /\ b \in Nat /\ r.slab[p] = s.slab[p]
          BY <2>1, <3>1, <3>2, <3>3 DEF a, b
        <5>3. QED
          BY <3>1, <5>1, <5>2
    <3>5. CASE p # q
      <4>1. Refs(r, p) = A
        BY <2>3, <3>5 DEF Refs
      <4>2. r.slot \cap Threads(p) = B
        BY <2>1, <2>4, <3>5 DEF Threads
      <4>3. QED
        BY <2>1, <3>1, <4>1, <4>2
    <3>6. QED
      BY <3>4, <3>5
  <2>11. QED
    BY <1>2, <2>5, <2>6, <2>7, <2>8, <2>9, <2>10 DEF SpaceInv
<1>9. QED
  BY <1>2, <1>6, <1>7, <1>8 DEF r

\* Thread::_ipc_alloc_recv_caps takes the block from the slab.
LEMMA Allocated ==
  ASSUME NEW s, NEW pcs, NEW cnt, NEW cop, NEW sn, NEW dy, NEW sz,
         SpaceInv(s, pcs, cnt, cop, sn, dy, sz), NEW t \in Thread, CanAlloc(t, s)
  PROVE  /\ SpaceInv(Alloc(t, s), pcs, cnt, cop, sn, dy, sz)
         /\ t \in User => t \in Alloc(t, s).slot
<1> DEFINE r == Alloc(t, s)
           q == PdOf[t]
<1>1. s \in KernelType /\ SlotsReady(s, pcs) /\ UtcbsCounted(s, pcs)
      /\ ObjectsCounted(s, pcs, cnt, cop, sn) /\ RefsUsed(s, pcs, cop, sn, dy) /\ RefsUnique(s)
      /\ SlabCounted(s, sz)
  BY DEF SpaceInv
<1>2. CASE q = Core \/ t \in s.slot
  BY <1>2, PdOfUser DEF Alloc
<1>3. CASE ~(q = Core \/ t \in s.slot)
  <2>1. q \in Pd /\ t \in User /\ s.slab[q] > 0 /\ t \in Threads(q)
    BY <1>3, PdOfUser DEF CanAlloc, Threads
  <2>2. s.slab[q] - 1 \in Nat
    BY <1>1, <2>1 DEF KernelType
  <2>3. r = [ref |-> s.ref, inUtcbs |-> s.inUtcbs, slab |-> [s.slab EXCEPT ![q] = s.slab[q] - 1],
             slot |-> s.slot \cup {t}, utcb |-> s.utcb]
    BY <1>1, <1>3, <2>1 DEF Alloc, KernelType
  <2>4. r \in KernelType
    BY <1>1, <2>1, <2>2, <2>3 DEF KernelType
  <2>5. /\ r.ref = s.ref /\ r.inUtcbs = s.inUtcbs /\ r.slot = s.slot \cup {t} /\ r.utcb = s.utcb
        /\ r.slab[q] = s.slab[q] - 1 /\ \A p \in Pd : p # q => r.slab[p] = s.slab[p]
    BY <1>1, <2>1, <2>3 DEF KernelType
  <2> HIDE DEF r
  <2>6. \A p, id : /\ Pends(r, pcs, p, id) = Pends(s, pcs, p, id)
                   /\ Acks(r, pcs, p, id) = Acks(s, pcs, p, id) /\ Refs(r, p) = Refs(s, p)
    BY <2>5 DEF Pends, Acks, Refs
  <2>7. SlotsReady(r, pcs) /\ UtcbsCounted(r, pcs) /\ ObjectsCounted(r, pcs, cnt, cop, sn)
    BY <1>1, <2>5, <2>6 DEF SlotsReady, UtcbsCounted, ObjectsCounted
  <2>8. RefsUsed(r, pcs, cop, sn, dy) /\ RefsUnique(r)
    BY <1>1, <2>5, <2>6 DEF RefsUsed, RefsUnique
  <2>9. SlabCounted(r, sz)
    <3> SUFFICES ASSUME NEW p \in Pd
                 PROVE  sz[p] = r.slab[p] + Cardinality(Refs(r, p)) + Cardinality(r.slot \cap Threads(p))
      BY DEF SlabCounted
    <3> DEFINE a == Cardinality(Refs(s, p))
               B == s.slot \cap Threads(p)
               b == Cardinality(B)
    <3>1. sz[p] = s.slab[p] + a + b /\ s.slab[p] \in Nat
      BY <1>1 DEF SlabCounted, KernelType
    <3>2. a \in Nat
      BY IdsFinite DEF Refs
    <3>3. IsFiniteSet(B) /\ b \in Nat
      BY ThreadsFinite
    <3>4. CASE p = q
      <4>1. r.slot \cap Threads(p) = B \cup {t} /\ t \notin B
        BY <1>3, <2>1, <2>5, <3>4
      <4> HIDE DEF B
      <4>2. Cardinality(B \cup {t}) = b + 1
        BY <3>3, <4>1, OneMore
      <4>3. Cardinality(r.slot \cap Threads(p)) = b + 1 /\ Cardinality(Refs(r, p)) = a
            /\ r.slab[p] = s.slab[p] - 1
        BY <2>5, <2>6, <3>4, <4>1, <4>2
      <4> HIDE DEF a, b
      <4>4. QED
        BY <3>1, <3>2, <3>3, <4>3
    <3>5. CASE p # q
      <4>1. r.slot \cap Threads(p) = B
        BY <2>1, <2>5, <3>5 DEF Threads
      <4>2. QED
        BY <2>5, <2>6, <3>1, <3>5, <4>1
    <3>6. QED
      BY <3>4, <3>5
  <2>10. QED
    BY <2>4, <2>5, <2>7, <2>8, <2>9 DEF SpaceInv, r
<1>4. QED
  BY <1>2, <1>3

\* A thread that has nothing in its UTCB moves on.
LEMMA Moved ==
  ASSUME NEW s, NEW pcs \in [Thread -> Places], NEW cnt, NEW cop, NEW sn, NEW dy, NEW sz,
         SpaceInv(s, pcs, cnt, cop, sn, dy, sz),
         NEW t \in Thread, NEW place \in Places,
         pcs[t] \notin {"import", "ack"} \/ s.utcb[t] = None,
         place \notin {"import", "ack"},
         t \in User /\ place \in {"wait", "queued", "called"} => t \in s.slot
  PROVE  SpaceInv(s, [pcs EXCEPT ![t] = place], cnt, cop, sn, dy, sz)
<1> DEFINE now == [pcs EXCEPT ![t] = place]
<1>1. now[t] = place /\ \A u \in Thread : u # t => now[u] = pcs[u]
  OBVIOUS
<1> HIDE DEF now
<1>2. \A p \in Pd, id \in CapId : Pends(s, now, p, id) = Pends(s, pcs, p, id)
                                  /\ Acks(s, now, p, id) = Acks(s, pcs, p, id)
  BY <1>1, CapabilityAssumption DEF Pends, Acks, Threads
<1>3. SlotsReady(s, now)
  BY <1>1, PdOfUser DEF SpaceInv, SlotsReady
<1>4. UtcbsCounted(s, now) /\ ObjectsCounted(s, now, cnt, cop, sn)
  BY <1>2 DEF SpaceInv, UtcbsCounted, ObjectsCounted
<1>5. RefsUsed(s, now, cop, sn, dy)
  BY <1>2 DEF SpaceInv, RefsUsed
<1>6. QED
  BY <1>3, <1>4, <1>5 DEF SpaceInv, now

-----------------------------------------------------------------------------
(* The inductive invariant *)

TypeInv ==
  /\ object \subseteq created /\ created \subseteq Identity
  /\ counter \in [Pd -> [CapId -> 0 .. RefMod - 1]]
  /\ copies \in [Pd -> [CapId -> Nat]]
  /\ snd \in [Thread -> CapId \cup Identity \cup {None}]
  /\ dying \in [Pd -> CapId \cup {None}]
  /\ size \in [Pd -> 0 .. MaxSlab]
  /\ peer \in [Thread -> Thread \cup {None}]
  /\ pc \in [Thread -> Places]

\* Messages are sent and received in order: who serves a client has its call,
\* and a message exists only during a call.
CallsMatch ==
  /\ \A t \in Thread : PdOf[t] = Core => /\ pc[t] \notin {"upgrade", "ack", "delete"}
                                         /\ snd[t] \in Identity \cup {None}
  /\ \A t \in User : snd[t] \in CapId \cup {None}
  /\ \A c \in Client : /\ pc[c] \notin {"reply", "wait"}
                       /\ pc[c] \in {"send", "queued", "called", "upgrade"} => peer[c] \in Server
  /\ \A s \in Server : /\ pc[s] \notin {"send", "queued", "called"}
                       /\ peer[s] # None => /\ peer[s] \in Client /\ pc[peer[s]] = "called"
                                            /\ peer[peer[s]] = s
  /\ \A t \in Thread : snd[t] # None => pc[t] \notin {"run", "delete"}

Busy(pcs, p) == {t \in Threads(p) : pcs[t] \notin {"run", "delete"}}

\* The capability objects of a protection domain, and those that may still come
\* with the calls of its threads
Bounded(pcs, cop, sn) ==
  \A p \in Pd, id \in CapId :
    cop[p][id] + Cardinality(Sends(sn, p, id)) + Cardinality(Busy(pcs, p))
      <= MaxCopies[p] + 2 * Cardinality(Thread)

\* A capability is deleted by one thread, and nobody has it any more.
DyingInv ==
  /\ \A p \in Pd : dying[p] # None => counter[p][dying[p]] = 0
  /\ \A t \in User : pc[t] = "delete" => dying[PdOf[t]] # None
  /\ \A t, u \in User : pc[t] = "delete" /\ pc[u] = "delete" /\ PdOf[t] = PdOf[u] => t = u

CapInv ==
  /\ TypeInv
  /\ CallsMatch
  /\ Bounded(pc, copies, snd)
  /\ DyingInv
  /\ SpaceInv(k, pc, counter, copies, snd, dying, size)

\* A counter that does not become zero has not wrapped around.
LEMMA NoWrap ==
  ASSUME NEW n \in 0 .. RefMod - 1, Incremented(n) # 0
  PROVE  Incremented(n) = n + 1 /\ n + 1 \in 0 .. RefMod - 1
<1>1. RefMod \in Nat \ {0}
  BY CapabilityAssumption
<1>2. CASE n = RefMod - 1
  BY <1>1, <1>2 DEF Incremented
<1>3. CASE n # RefMod - 1
  BY <1>1, <1>3 DEF Incremented
<1>4. QED
  BY <1>2, <1>3

LEMMA ModSmall ==
  ASSUME NEW n \in Nat, n < RefMod
  PROVE  n % RefMod = n
BY CapabilityAssumption

LEMMA Bounds ==
  ASSUME NEW pcs, NEW sn, NEW s, NEW p, NEW id
  PROVE  /\ Cardinality(Sends(sn, p, id)) \in Nat
         /\ Cardinality(Sends(sn, p, id)) <= Cardinality(Thread)
         /\ Cardinality(Sends(sn, p, id)) > 0 <=> Sends(sn, p, id) # {}
         /\ Cardinality(Busy(pcs, p)) \in Nat
         /\ Cardinality(Busy(pcs, p)) <= Cardinality(Thread)
         /\ Cardinality(Acks(s, pcs, p, id)) \in Nat
         /\ Cardinality(Acks(s, pcs, p, id)) <= Cardinality(Busy(pcs, p))
         /\ Cardinality(Acks(s, pcs, p, id)) > 0 <=> Acks(s, pcs, p, id) # {}
         /\ Cardinality(Pends(s, pcs, p, id)) \in Nat
         /\ Cardinality(Pends(s, pcs, p, id)) <= Cardinality(Thread)
         /\ Cardinality(Pends(s, pcs, p, id)) > 0 <=> Pends(s, pcs, p, id) # {}
         /\ Cardinality(Thread) \in Nat
<1>1. /\ Sends(sn, p, id) \subseteq Threads(p) /\ Busy(pcs, p) \subseteq Threads(p)
      /\ Acks(s, pcs, p, id) \subseteq Threads(p) /\ Pends(s, pcs, p, id) \subseteq Threads(p)
  BY DEF Sends, Busy, Acks, Pends
<1>2. Acks(s, pcs, p, id) \subseteq Busy(pcs, p)
  BY DEF Acks, Busy
<1>3. IsFiniteSet(Busy(pcs, p))
  BY <1>1, ThreadsFinite
<1>4. Cardinality(Acks(s, pcs, p, id)) <= Cardinality(Busy(pcs, p))
  BY <1>2, <1>3, FS_Subset
<1>5. Cardinality(Thread) \in Nat
  BY CapabilityAssumption, FS_CardinalityType
<1>6. /\ Cardinality(Sends(sn, p, id)) \in Nat
      /\ Cardinality(Sends(sn, p, id)) <= Cardinality(Thread)
      /\ Cardinality(Sends(sn, p, id)) > 0 <=> Sends(sn, p, id) # {}
  BY <1>1, ThreadsFinite
<1>7. Cardinality(Busy(pcs, p)) \in Nat /\ Cardinality(Busy(pcs, p)) <= Cardinality(Thread)
  BY <1>1, ThreadsFinite
<1>8. /\ Cardinality(Acks(s, pcs, p, id)) \in Nat
      /\ Cardinality(Acks(s, pcs, p, id)) > 0 <=> Acks(s, pcs, p, id) # {}
  BY <1>1, ThreadsFinite
<1>9. /\ Cardinality(Pends(s, pcs, p, id)) \in Nat
      /\ Cardinality(Pends(s, pcs, p, id)) <= Cardinality(Thread)
      /\ Cardinality(Pends(s, pcs, p, id)) > 0 <=> Pends(s, pcs, p, id) # {}
  BY <1>1, ThreadsFinite
<1>10. QED
  BY <1>4, <1>5, <1>6, <1>7, <1>8, <1>9

LEMMA EmptyCount == Cardinality({}) = 0
BY FS_EmptySet

LEMMA InitCapInv == Init => CapInv
<1> SUFFICES ASSUME Init PROVE CapInv
  OBVIOUS
<1> USE CapabilityAssumption
<1>1. TypeInv
  BY DEF Init, TypeInv, Places
<1>2. CallsMatch /\ DyingInv
  <2>1. \A t \in Thread : /\ pc[t] = IF t \in Server THEN "reply" ELSE "run"
                          /\ snd[t] = None /\ peer[t] = None
    BY DEF Init
  <2>2. \A p \in Pd : dying[p] = None
    BY DEF Init
  <2>3. CallsMatch
    BY <2>1 DEF CallsMatch, Client, User
  <2>4. DyingInv
    BY <2>1, <2>2 DEF DyingInv, User
  <2>5. QED
    BY <2>3, <2>4
<1>3. \A p \in Pd, id \in CapId : Sends(snd, p, id) = {} /\ Acks(k, pc, p, id) = {} /\ Pends(k, pc, p, id) = {}
  BY DEF Init, Sends, Acks, Pends, Threads
<1>4. Bounded(pc, copies, snd)
  <2> SUFFICES ASSUME NEW p \in Pd, NEW id \in CapId
               PROVE  copies[p][id] + Cardinality(Sends(snd, p, id)) + Cardinality(Busy(pc, p))
                        <= MaxCopies[p] + 2 * Cardinality(Thread)
    BY DEF Bounded
  <2>1. copies[p][id] = 0 /\ Cardinality(Sends(snd, p, id)) = 0 /\ MaxCopies[p] \in Nat
    BY <1>3, EmptyCount DEF Init
  <2>2. Cardinality(Busy(pc, p)) \in Nat /\ Cardinality(Busy(pc, p)) <= Cardinality(Thread)
        /\ Cardinality(Thread) \in Nat
    BY Bounds
  <2>3. QED
    BY <2>1, <2>2
<1>5. SpaceInv(k, pc, counter, copies, snd, dying, size)
  <2>1. k \in KernelType
    BY DEF Init, KernelType
  <2>2. SlotsReady(k, pc)
    <3>1. \A t \in Thread : pc[t] \in {"reply", "run"} /\ k.utcb[t] = None
      BY DEF Init
    <3>2. QED
      BY <3>1, PdOfUser DEF SlotsReady
  <2>3. UtcbsCounted(k, pc) /\ ObjectsCounted(k, pc, counter, copies, snd)
    <3>1. \A p \in Pd, id \in CapId : /\ k.inUtcbs[p][id] = 0 /\ counter[p][id] = 0
                                      /\ copies[p][id] = 0
      BY DEF Init
    <3>2. \A p \in Pd, id \in CapId : /\ Cardinality(Sends(snd, p, id)) = 0
                                      /\ Cardinality(Acks(k, pc, p, id)) = 0
                                      /\ Cardinality(Pends(k, pc, p, id)) = 0
      BY <1>3, EmptyCount
    <3>3. UtcbsCounted(k, pc)
      BY <1>3, <3>1, <3>2 DEF UtcbsCounted
    <3>4. ObjectsCounted(k, pc, counter, copies, snd)
      BY <1>3, <3>1, <3>2 DEF ObjectsCounted
    <3>5. QED
      BY <3>3, <3>4
  <2>4. RefsUsed(k, pc, copies, snd, dying) /\ RefsUnique(k)
    BY DEF Init, RefsUsed, RefsUnique
  <2>5. SlabCounted(k, size)
    <3>1. \A p \in Pd : Refs(k, p) = {} /\ k.slot \cap Threads(p) = {} /\ k.slab[p] = 0 /\ size[p] = 0
      BY DEF Init, Refs
    <3> SUFFICES ASSUME NEW p \in Pd
                 PROVE  size[p] = k.slab[p] + Cardinality(Refs(k, p)) + Cardinality(k.slot \cap Threads(p))
      BY DEF SlabCounted
    <3>2. Cardinality(Refs(k, p)) = 0 /\ Cardinality(k.slot \cap Threads(p)) = 0
      BY <3>1, EmptyCount
    <3>3. QED
      BY <3>1, <3>2
  <2>6. QED
    BY <2>1, <2>2, <2>3, <2>4, <2>5 DEF SpaceInv
<1>6. QED
  BY <1>1, <1>2, <1>4, <1>5 DEF CapInv

LEMMA CapInvImplies ==
  ASSUME CapInv, wrapped \in BOOLEAN
  PROVE  SpacesConsistent /\ HeldIsReferenced /\ UnusedIsDeleted
<1> USE DEF CapInv
<1>1. k \in KernelType /\ SlotsReady(k, pc) /\ UtcbsCounted(k, pc)
      /\ ObjectsCounted(k, pc, counter, copies, snd) /\ RefsUsed(k, pc, copies, snd, dying)
      /\ RefsUnique(k) /\ SlabCounted(k, size)
  BY DEF SpaceInv
<1>2. \A p \in Pd : MaxCopies[p] \in Nat
  BY CapabilityAssumption
<1>3. ASSUME NEW p \in Pd, NEW id \in CapId
      PROVE  /\ copies[p][id] <= MaxCopies[p] + 2 * Cardinality(Thread)
             /\ k.inUtcbs[p][id] \in 0 .. Cardinality(Thread)
  <2> DEFINE m == Cardinality(Thread)
             b == Cardinality(Busy(pc, p))
             c == Cardinality(Sends(snd, p, id))
             d == Cardinality(Pends(k, pc, p, id))
  <2>1. m \in Nat /\ b \in Nat /\ c \in Nat /\ d \in Nat /\ d <= m
    BY Bounds
  <2>2. /\ k.inUtcbs[p][id] = d
        /\ copies[p][id] + c + b <= MaxCopies[p] + 2 * m /\ copies[p][id] \in Nat
    BY <1>1 DEF UtcbsCounted, Bounded, TypeInv
  <2>3. MaxCopies[p] \in Nat
    BY <1>2
  <2> HIDE DEF m, b, c, d
  <2>4. /\ copies[p][id] <= MaxCopies[p] + 2 * m
        /\ k.inUtcbs[p][id] \in 0 .. m
    BY <2>1, <2>2, <2>3
  <2>5. QED
    BY <2>4 DEF m
<1>4. \A p \in Pd : k.slab[p] \in 0 .. MaxSlab
  <2> TAKE p \in Pd
  <2> DEFINE a == Cardinality(Refs(k, p))
             b == Cardinality(k.slot \cap Threads(p))
  <2>1. a \in Nat /\ b \in Nat
    BY IdsFinite, ThreadsFinite DEF Refs
  <2>2. size[p] = k.slab[p] + a + b /\ k.slab[p] \in Nat /\ size[p] \in 0 .. MaxSlab
    BY <1>1 DEF SlabCounted, KernelType, TypeInv
  <2>3. MaxSlab \in Nat
    BY CapabilityAssumption
  <2> HIDE DEF a, b
  <2>4. QED
    BY <2>1, <2>2, <2>3
<1>5. TypeOK
  <2>1. k = [ref |-> k.ref, inUtcbs |-> k.inUtcbs, slab |-> k.slab, slot |-> k.slot, utcb |-> k.utcb]
    BY <1>1 DEF KernelType
  <2>2. k.inUtcbs \in [Pd -> [CapId -> 0 .. Cardinality(Thread)]]
    BY <1>1, <1>3 DEF KernelType
  <2>3. k.slab \in [Pd -> 0 .. MaxSlab]
    BY <1>1, <1>4 DEF KernelType
  <2>4. k \in KernelState
    BY <1>1, <2>1, <2>2, <2>3 DEF KernelType, KernelState
  <2>5. QED
    BY <1>3, <2>4 DEF TypeInv, TypeOK, Places
<1>6. OneReference
  BY <1>1 DEF RefsUnique, OneReference
<1>7. BlocksAccounted
  BY <1>1 DEF SlabCounted, BlocksAccounted, Refs
<1>8. \A p \in Pd, id \in CapId :
        /\ Held(p, id) <=> copies[p][id] > 0 \/ Sends(snd, p, id) # {} \/ Acks(k, pc, p, id) # {}
        /\ Arriving(p, id) <=> Pends(k, pc, p, id) # {}
        /\ Acks(k, pc, p, id) \subseteq Pends(k, pc, p, id)
  BY CapabilityAssumption DEF Held, Arriving, Sends, Acks, Pends, Pending
<1>9. HeldIsReferenced
  BY <1>1, <1>8 DEF HeldIsReferenced, HeldHasReference, UtcbsCounted, ObjectsCounted
<1>10. UnusedIsDeleted
  BY <1>1, <1>8 DEF UnusedIsDeleted, RefsUsed
<1>11. QED
  BY <1>5, <1>6, <1>7, <1>9, <1>10 DEF SpacesConsistent

-----------------------------------------------------------------------------
(* User code: capability objects *)

\* What CapInv says about one capability ID of one protection domain.
LEMMA Numbers ==
  ASSUME CapInv, NEW p \in Pd, NEW id \in CapId
  PROVE  LET c == Cardinality(Sends(snd, p, id))
             a == Cardinality(Acks(k, pc, p, id))
             b == Cardinality(Busy(pc, p))
         IN /\ copies[p][id] \in Nat /\ counter[p][id] \in Nat
            /\ c \in Nat /\ a \in Nat /\ b \in Nat /\ Cardinality(Thread) \in Nat
            /\ a <= b /\ b <= Cardinality(Thread) /\ c <= Cardinality(Thread)
            /\ counter[p][id] = copies[p][id] + c + a
            /\ copies[p][id] + c + b <= MaxCopies[p] + 2 * Cardinality(Thread)
            /\ MaxCopies[p] \in Nat /\ RefMod \in Nat
<1>1. copies[p][id] \in Nat /\ counter[p][id] \in Nat
  BY DEF CapInv, TypeInv
<1>2. counter[p][id] = copies[p][id] + Cardinality(Sends(snd, p, id)) + Cardinality(Acks(k, pc, p, id))
  BY DEF CapInv, SpaceInv, ObjectsCounted
<1>3. copies[p][id] + Cardinality(Sends(snd, p, id)) + Cardinality(Busy(pc, p))
        <= MaxCopies[p] + 2 * Cardinality(Thread)
  BY DEF CapInv, Bounded
<1>4. MaxCopies[p] \in Nat /\ RefMod \in Nat
  BY CapabilityAssumption
<1>5. QED
  BY <1>1, <1>2, <1>3, <1>4, Bounds

LEMMA CopyCapInv ==
  ASSUME CapInv, NEW t \in User, NEW id \in CapId, CopyCap(t, id), ~wrapped'
  PROVE  CapInv'
<1> DEFINE p == PdOf[t]
<1>1. p \in Pd /\ t \in Thread
  BY PdOfUser
<1>2. /\ pc[t] = "run" /\ dying[p] = None /\ copies[p][id] > 0 /\ copies[p][id] < MaxCopies[p]
      /\ counter' = [counter EXCEPT ![p][id] = Incremented(counter[p][id])]
      /\ copies' = [copies EXCEPT ![p][id] = copies[p][id] + 1]
      /\ UNCHANGED <<object, created, k, snd, dying, size, peer, pc>>
      /\ Incremented(counter[p][id]) # 0
  BY DEF CopyCap, Unlocked, objectVars
<1>3. /\ Incremented(counter[p][id]) = counter[p][id] + 1
      /\ counter[p][id] + 1 \in 0 .. RefMod - 1
  <2>1. counter[p][id] \in 0 .. RefMod - 1
    BY <1>1 DEF CapInv, TypeInv
  <2>2. QED
    BY <1>2, <2>1, NoWrap
<1>4. TypeInv'
  BY <1>1, <1>2, <1>3, Numbers DEF CapInv, TypeInv
<1>5. /\ copies'[p][id] = copies[p][id] + 1 /\ counter'[p][id] = counter[p][id] + 1
      /\ \A q \in Pd, o \in CapId : ~(q = p /\ o = id) => /\ copies'[q][o] = copies[q][o]
                                                          /\ counter'[q][o] = counter[q][o]
  BY <1>1, <1>2, <1>3 DEF CapInv, TypeInv
<1>6. CallsMatch'
  BY <1>2 DEF CapInv, CallsMatch
<1> HIDE DEF p
<1>7. DyingInv'
  <2>1. \A q \in Pd : dying'[q] # None => counter'[q][dying'[q]] = 0
    BY <1>2, <1>5 DEF CapInv, DyingInv, TypeInv
  <2>2. QED
    BY <1>2, <2>1 DEF CapInv, DyingInv
<1>8. Bounded(pc, copies', snd)
  <2> SUFFICES ASSUME NEW q \in Pd, NEW o \in CapId
               PROVE  copies'[q][o] + Cardinality(Sends(snd, q, o)) + Cardinality(Busy(pc, q))
                        <= MaxCopies[q] + 2 * Cardinality(Thread)
    BY DEF Bounded
  <2>1. CASE q = p /\ o = id
    BY <1>1, <1>2, <1>5, <2>1, Numbers
  <2>2. CASE ~(q = p /\ o = id)
    BY <1>5, <2>2, Numbers
  <2>3. QED
    BY <2>1, <2>2
<1>9. ObjectsCounted(k, pc, counter', copies', snd)
  <2> SUFFICES ASSUME NEW q \in Pd, NEW o \in CapId
               PROVE  /\ counter'[q][o] = copies'[q][o] + Cardinality(Sends(snd, q, o))
                                            + Cardinality(Acks(k, pc, q, o))
                      /\ copies'[q][o] > 0 \/ Sends(snd, q, o) # {} => k.ref[q][o] # None
    BY DEF ObjectsCounted
  <2>1. copies[q][o] > 0 \/ Sends(snd, q, o) # {} => k.ref[q][o] # None
    BY DEF CapInv, SpaceInv, ObjectsCounted
  <2>2. CASE q = p /\ o = id
    BY <1>1, <1>2, <1>5, <2>1, <2>2, Numbers
  <2>3. CASE ~(q = p /\ o = id)
    BY <1>5, <2>1, <2>3, Numbers
  <2>4. QED
    BY <2>2, <2>3
<1>10. RefsUsed(k, pc, copies', snd, dying)
  <2>1. \A q \in Pd, o \in CapId : copies[q][o] > 0 => copies'[q][o] > 0
    BY <1>1, <1>5, Numbers
  <2>2. QED
    BY <2>1 DEF CapInv, SpaceInv, RefsUsed
<1>11. SpaceInv(k, pc, counter', copies', snd, dying, size)
  BY <1>9, <1>10 DEF CapInv, SpaceInv
<1>12. QED
  BY <1>2, <1>4, <1>6, <1>7, <1>8, <1>11 DEF CapInv

LEMMA DropCapInv ==
  ASSUME CapInv, NEW t \in User, NEW id \in CapId, DropCap(t, id)
  PROVE  CapInv'
<1> DEFINE p == PdOf[t]
           n == counter[p][id]
<1>1. p \in Pd /\ t \in Thread /\ None \notin CapId
  BY PdOfUser, CapabilityAssumption
<1>2. /\ pc[t] = "run" /\ dying[p] = None /\ copies[p][id] > 0
      /\ counter' = [counter EXCEPT ![p][id] = Decremented(n)]
      /\ copies' = [copies EXCEPT ![p][id] = copies[p][id] - 1]
      /\ UNCHANGED <<object, created, k, snd, size, peer>>
      /\ dying' = IF LastCopy(n) THEN [dying EXCEPT ![p] = id] ELSE dying
      /\ pc' = IF LastCopy(n) THEN [pc EXCEPT ![t] = "delete"] ELSE pc
  BY DEF DropCap, Unlocked, objectVars
<1>3. Decremented(n) = n - 1 /\ n - 1 \in Nat /\ n - 1 \in 0 .. RefMod - 1
  <2>1. n \in 0 .. RefMod - 1 /\ RefMod \in Nat
    BY <1>1, CapabilityAssumption DEF CapInv, TypeInv
  <2>2. n > 0
    BY <1>1, <1>2, Numbers
  <2>3. n - 1 \in Nat /\ n - 1 < RefMod
    BY <2>1, <2>2
  <2>4. QED
    BY <2>1, <2>3, ModSmall DEF Decremented
<1>4. TypeInv'
  <2>1. copies[p][id] - 1 \in Nat
    BY <1>1, <1>2, Numbers
  <2>2. counter' \in [Pd -> [CapId -> 0 .. RefMod - 1]] /\ copies' \in [Pd -> [CapId -> Nat]]
    BY <1>1, <1>2, <1>3, <2>1 DEF CapInv, TypeInv
  <2>3. dying' \in [Pd -> CapId \cup {None}] /\ pc' \in [Thread -> Places]
    BY <1>1, <1>2 DEF CapInv, TypeInv, Places
  <2>4. QED
    BY <1>2, <2>2, <2>3 DEF CapInv, TypeInv
<1>5. /\ copies'[p][id] = copies[p][id] - 1 /\ counter'[p][id] = n - 1
      /\ \A q \in Pd, o \in CapId : ~(q = p /\ o = id) => /\ copies'[q][o] = copies[q][o]
                                                          /\ counter'[q][o] = counter[q][o]
  BY <1>1, <1>2, <1>3 DEF CapInv, TypeInv
<1>6. LastCopy(n) <=> counter'[p][id] = 0
  BY <1>3, <1>5 DEF LastCopy
<1>7. /\ \A u \in Thread : pc'[u] = pc[u] \/ (u = t /\ pc'[u] = "delete" /\ LastCopy(n))
      /\ \A q \in Pd : dying'[q] = dying[q] \/ (q = p /\ dying'[q] = id /\ LastCopy(n))
      /\ LastCopy(n) => dying'[p] = id
  BY <1>1, <1>2 DEF CapInv, TypeInv
<1>8. CallsMatch'
  <2>1. snd[t] = None /\ (t \in Server => peer[t] = None \/ peer[t] # t)
    BY <1>1, <1>2 DEF CapInv, CallsMatch, Client
  <2>2. \A s \in Server : peer[s] # None => peer[s] # t
    BY <1>2 DEF CapInv, CallsMatch
  <2>3. PdOf[t] # Core
    BY PdOfUser
  <2>4. QED
    BY <1>2, <1>7, <2>1, <2>2, <2>3 DEF CapInv, CallsMatch, TypeInv, Client
<1>9. DyingInv'
  <2>1. \A q \in Pd : dying'[q] # None => counter'[q][dying'[q]] = 0
    <3> TAKE q \in Pd
    <3>1. CASE q = p
      BY <1>2, <1>6, <1>7, <3>1
    <3>2. CASE q # p
      BY <1>1, <1>5, <1>7, <3>2 DEF CapInv, DyingInv, TypeInv
    <3>3. QED
      BY <3>1, <3>2
  <2>2. \A u \in User : PdOf[u] = p => pc[u] # "delete"
    BY <1>2 DEF CapInv, DyingInv
  <2>3. \A u \in User : u \in Thread /\ PdOf[u] \in Pd
    BY PdOfUser
  <2>4. \A u \in User : pc'[u] = "delete" => dying'[PdOf[u]] # None
    BY <1>1, <1>7, <2>3 DEF CapInv, DyingInv
  <2>5. \A u, v \in User : pc'[u] = "delete" /\ pc'[v] = "delete" /\ PdOf[u] = PdOf[v] => u = v
    BY <1>7, <2>2, <2>3 DEF CapInv, DyingInv
  <2>6. QED
    BY <2>1, <2>4, <2>5 DEF DyingInv
<1>10. Bounded(pc', copies', snd)
  <2> SUFFICES ASSUME NEW q \in Pd, NEW o \in CapId
               PROVE  copies'[q][o] + Cardinality(Sends(snd, q, o)) + Cardinality(Busy(pc', q))
                        <= MaxCopies[q] + 2 * Cardinality(Thread)
    BY DEF Bounded
  <2>1. Busy(pc', q) = Busy(pc, q)
    BY <1>2, <1>7 DEF Busy, Threads
  <2> HIDE DEF p, n
  <2>2. copies'[q][o] \in Nat /\ copies'[q][o] <= copies[q][o]
    <3>1. copies'[q][o] \in Nat /\ copies[q][o] \in Nat
      BY <1>4 DEF TypeInv, CapInv
    <3>2. copies'[q][o] = copies[q][o] \/ copies'[q][o] = copies[q][o] - 1
      BY <1>5
    <3>3. QED
      BY <3>1, <3>2
  <2>3. QED
    BY <2>1, <2>2, Numbers
<1>11. ObjectsCounted(k, pc, counter', copies', snd)
  <2> SUFFICES ASSUME NEW q \in Pd, NEW o \in CapId
               PROVE  /\ counter'[q][o] = copies'[q][o] + Cardinality(Sends(snd, q, o))
                                            + Cardinality(Acks(k, pc, q, o))
                      /\ copies'[q][o] > 0 \/ Sends(snd, q, o) # {} => k.ref[q][o] # None
    BY DEF ObjectsCounted
  <2>1. copies[q][o] > 0 \/ Sends(snd, q, o) # {} => k.ref[q][o] # None
    BY DEF CapInv, SpaceInv, ObjectsCounted
  <2>2. CASE q = p /\ o = id
    <3>1. counter'[q][o] = counter[q][o] - 1 /\ copies'[q][o] = copies[q][o] - 1
      BY <1>5, <2>2
    <3>2. k.ref[q][o] # None
      BY <1>2, <2>1, <2>2
    <3> HIDE DEF p, n
    <3>3. QED
      BY <3>1, <3>2, Numbers
  <2>3. CASE ~(q = p /\ o = id)
    BY <1>5, <2>1, <2>3, Numbers
  <2>4. QED
    BY <2>2, <2>3
<1>12. RefsUsed(k, pc, copies', snd, dying')
  <2> SUFFICES ASSUME NEW q \in Pd, NEW o \in CapId, k.ref[q][o] # None
               PROVE  \/ copies'[q][o] > 0 \/ Sends(snd, q, o) # {}
                      \/ Pends(k, pc, q, o) # {} \/ dying'[q] = o
    BY DEF RefsUsed
  <2>1. CASE q = p /\ o = id
    <3>1. Acks(k, pc, q, o) \subseteq Pends(k, pc, q, o)
      BY DEF Acks, Pends
    <3>2. /\ counter'[q][o] = copies'[q][o] + Cardinality(Sends(snd, q, o))
                                + Cardinality(Acks(k, pc, q, o))
          /\ copies'[q][o] \in Nat /\ counter'[q][o] \in Nat
      BY <1>4, <1>11 DEF ObjectsCounted, TypeInv
    <3>3. counter'[q][o] = 0 => dying'[q] = o
      BY <1>6, <1>7, <2>1
    <3>4. /\ Cardinality(Sends(snd, q, o)) \in Nat /\ Cardinality(Acks(k, pc, q, o)) \in Nat
          /\ (Cardinality(Sends(snd, q, o)) > 0 <=> Sends(snd, q, o) # {})
          /\ (Cardinality(Acks(k, pc, q, o)) > 0 <=> Acks(k, pc, q, o) # {})
      BY Bounds
    <3>5. counter'[q][o] > 0 => copies'[q][o] > 0 \/ Sends(snd, q, o) # {} \/ Acks(k, pc, q, o) # {}
      BY <3>2, <3>4
    <3>6. counter'[q][o] = 0 \/ counter'[q][o] > 0
      BY <3>2
    <3>7. QED
      BY <3>1, <3>3, <3>5, <3>6
  <2>2. CASE ~(q = p /\ o = id)
    <3>1. copies[q][o] > 0 \/ Sends(snd, q, o) # {} \/ Pends(k, pc, q, o) # {} \/ dying[q] = o
      BY DEF CapInv, SpaceInv, RefsUsed
    <3>2. dying[q] = o => dying'[q] = o
      BY <1>1, <1>2, <1>7
    <3>3. QED
      BY <1>5, <2>2, <3>1, <3>2
  <2>3. QED
    BY <2>1, <2>2
<1>13. SpaceInv(k, pc, counter', copies', snd, dying', size)
  BY <1>11, <1>12 DEF CapInv, SpaceInv
<1>14. SpaceInv(k, pc', counter', copies', snd, dying', size)
  <2>1. CASE LastCopy(n)
    <3>1. pc' = [pc EXCEPT ![t] = "delete"] /\ pc \in [Thread -> Places] /\ "delete" \in Places
      BY <1>2, <2>1 DEF CapInv, TypeInv, Places
    <3>2. SpaceInv(k, [pc EXCEPT ![t] = "delete"], counter', copies', snd, dying', size)
      BY <1>1, <1>2, <1>13, <3>1, Moved
    <3>3. QED
      BY <3>1, <3>2
  <2>2. CASE ~LastCopy(n)
    BY <1>2, <1>13, <2>2
  <2>3. QED
    BY <2>1, <2>2
<1>15. QED
  BY <1>2, <1>4, <1>8, <1>9, <1>10, <1>14 DEF CapInv

LEMMA DeleteCapInv ==
  ASSUME CapInv, NEW t \in User, DeleteCap(t)
  PROVE  CapInv'
<1> DEFINE p == PdOf[t]
           id == dying[p]
<1>1. p \in Pd /\ t \in Thread /\ None \notin CapId
  BY PdOfUser, CapabilityAssumption
<1>2. /\ pc[t] = "delete"
      /\ k' = IF MayDelete(p, id) THEN [k EXCEPT !.ref[p][id] = None, !.slab[p] = @ + 1] ELSE k
      /\ dying' = [dying EXCEPT ![p] = None]
      /\ pc' = [pc EXCEPT ![t] = "run"]
      /\ UNCHANGED <<object, created, counter, copies, snd, size, peer>>
  BY DEF DeleteCap, objectVars
<1>3. id \in CapId /\ counter[p][id] = 0
  BY <1>1, <1>2 DEF CapInv, DyingInv, TypeInv
<1>4. TypeInv'
  BY <1>1, <1>2 DEF CapInv, TypeInv, Places
<1>5. /\ \A u \in Thread : u # t => pc'[u] = pc[u]
      /\ pc'[t] = "run"
      /\ \A q \in Pd : q # p => dying'[q] = dying[q]
      /\ dying'[p] = None
  BY <1>1, <1>2 DEF CapInv, TypeInv
<1>6. CallsMatch'
  <2>1. snd[t] = None
    BY <1>1, <1>2 DEF CapInv, CallsMatch
  <2>2. \A s \in Server : peer[s] # None => peer[s] # t
    BY <1>2 DEF CapInv, CallsMatch
  <2>3. QED
    BY <1>2, <1>5, <2>1, <2>2 DEF CapInv, CallsMatch, TypeInv, Client
<1>7. DyingInv'
  <2>1. \A u \in User : u \in Thread /\ PdOf[u] \in Pd
    BY PdOfUser
  <2>2. \A u \in User : PdOf[u] = p /\ u # t => pc[u] # "delete"
    BY <1>2 DEF CapInv, DyingInv
  <2>3. \A q \in Pd : dying'[q] # None => counter'[q][dying'[q]] = 0
    BY <1>2, <1>5 DEF CapInv, DyingInv
  <2>4. \A u \in User : pc'[u] = "delete" => dying'[PdOf[u]] # None
    BY <1>5, <2>1, <2>2 DEF CapInv, DyingInv
  <2>5. \A u, v \in User : pc'[u] = "delete" /\ pc'[v] = "delete" /\ PdOf[u] = PdOf[v] => u = v
    BY <1>5, <2>1 DEF CapInv, DyingInv
  <2>6. QED
    BY <2>3, <2>4, <2>5 DEF DyingInv
<1>8. Bounded(pc', copies, snd)
  <2>1. \A q : Busy(pc', q) = Busy(pc, q)
    BY <1>2, <1>5 DEF Busy, Threads
  <2>2. QED
    BY <2>1 DEF CapInv, Bounded
<1>9. SpaceInv(k, pc', counter, copies, snd, dying, size)
  <2>1. pc \in [Thread -> Places] /\ "run" \in Places
    BY DEF CapInv, TypeInv, Places
  <2>2. SpaceInv(k, [pc EXCEPT ![t] = "run"], counter, copies, snd, dying, size)
    BY <1>1, <1>2, <2>1, Moved DEF CapInv
  <2>3. QED
    BY <1>2, <2>2
<1>10. /\ k \in KernelType /\ SlotsReady(k, pc') /\ UtcbsCounted(k, pc')
       /\ ObjectsCounted(k, pc', counter, copies, snd) /\ RefsUsed(k, pc', copies, snd, dying)
       /\ RefsUnique(k) /\ SlabCounted(k, size)
  BY <1>9 DEF SpaceInv
\* Nobody has a capability object with this ID.
<1>11. copies[p][id] = 0 /\ Sends(snd, p, id) = {}
  <2> DEFINE n == copies[p][id]
             c == Cardinality(Sends(snd, p, id))
             a == Cardinality(Acks(k, pc, p, id))
  <2>1. c \in Nat /\ a \in Nat /\ (c > 0 <=> Sends(snd, p, id) # {})
    BY Bounds
  <2>2. counter[p][id] = n + c + a /\ n \in Nat
    BY <1>1, <1>3, Numbers
  <2>3. n + c + a = 0
    BY <1>3, <2>2
  <2> HIDE DEF n, c, a
  <2>4. n = 0 /\ c = 0
    BY <2>1, <2>2, <2>3
  <2>5. QED
    BY <2>1, <2>4 DEF n
<1>12. SpaceInv(k', pc', counter, copies, snd, dying', size)
  <2>1. CASE MayDelete(p, id)
    <3>1. k.ref[p][id] # None /\ k.inUtcbs[p][id] = 0
      BY <2>1 DEF MayDelete
    <3>2. k.slab[p] + 1 \in Nat /\ k.slab[p] \in Nat
      BY <1>1, <1>10 DEF KernelType
    <3>3. k' = [ref |-> [k.ref EXCEPT ![p][id] = None], inUtcbs |-> k.inUtcbs,
                slab |-> [k.slab EXCEPT ![p] = k.slab[p] + 1], slot |-> k.slot, utcb |-> k.utcb]
      BY <1>1, <1>2, <1>10, <2>1 DEF KernelType
    <3> HIDE DEF p, id
    <3>4. k' \in KernelType
      <4>1. [k.ref EXCEPT ![p][id] = None] \in [Pd -> [CapId -> Identity \cup {Invalid, None}]]
        BY <1>1, <1>3, <1>10 DEF KernelType
      <4>2. [k.slab EXCEPT ![p] = k.slab[p] + 1] \in [Pd -> Nat]
        BY <1>1, <1>10, <3>2 DEF KernelType
      <4>3. QED
        BY <1>10, <3>3, <4>1, <4>2 DEF KernelType
    <3>5. /\ k'.inUtcbs = k.inUtcbs /\ k'.slot = k.slot /\ k'.utcb = k.utcb
          /\ k'.ref[p][id] = None
          /\ \A q \in Pd, o \in CapId : ~(q = p /\ o = id) => k'.ref[q][o] = k.ref[q][o]
          /\ k'.slab[p] = k.slab[p] + 1 /\ \A q \in Pd : q # p => k'.slab[q] = k.slab[q]
      BY <1>1, <1>3, <1>10, <3>3 DEF KernelType
    <3>6. \A q, o : /\ Pends(k', pc', q, o) = Pends(k, pc', q, o)
                    /\ Acks(k', pc', q, o) = Acks(k, pc', q, o)
      BY <3>5 DEF Pends, Acks
    <3>7. Pends(k, pc', p, id) = {}
      <4>1. Cardinality(Pends(k, pc', p, id)) = 0
        BY <1>1, <1>3, <1>10, <3>1 DEF UtcbsCounted
      <4>2. Cardinality(Pends(k, pc', p, id)) > 0 <=> Pends(k, pc', p, id) # {}
        BY Bounds
      <4>3. QED
        BY <4>1, <4>2
    <3>8. SlotsReady(k', pc') /\ UtcbsCounted(k', pc')
      BY <1>10, <3>5, <3>6, <3>7 DEF SlotsReady, UtcbsCounted
    <3>9. ObjectsCounted(k', pc', counter, copies, snd)
      BY <1>10, <1>11, <3>5, <3>6 DEF ObjectsCounted
    <3>10. RefsUsed(k', pc', copies, snd, dying')
      <4> SUFFICES ASSUME NEW q \in Pd, NEW o \in CapId, k'.ref[q][o] # None
                   PROVE  \/ copies[q][o] > 0 \/ Sends(snd, q, o) # {}
                          \/ Pends(k', pc', q, o) # {} \/ dying'[q] = o
        BY DEF RefsUsed
      <4>1. ~(q = p /\ o = id)
        BY <3>5
      <4>2. dying[q] = o => dying'[q] = o
        BY <1>5, <4>1 DEF id
      <4>3. QED
        BY <1>10, <3>5, <3>6, <4>1, <4>2 DEF RefsUsed
    <3>11. RefsUnique(k')
      BY <1>10, <3>5, CapabilityAssumption DEF RefsUnique
    <3>12. SlabCounted(k', size)
      <4> SUFFICES ASSUME NEW q \in Pd
                   PROVE  size[q] = k'.slab[q] + Cardinality(Refs(k', q))
                                      + Cardinality(k'.slot \cap Threads(q))
        BY DEF SlabCounted
      <4> DEFINE A == Refs(k, q)
                 a == Cardinality(A)
                 b == Cardinality(k.slot \cap Threads(q))
      <4>1. size[q] = k.slab[q] + a + b /\ k.slab[q] \in Nat
        BY <1>10 DEF SlabCounted, KernelType
      <4>2. IsFiniteSet(A) /\ a \in Nat /\ b \in Nat
        BY IdsFinite, ThreadsFinite DEF Refs
      <4>3. CASE q = p
        <5>1. Refs(k', q) = A \ {id} /\ id \in A
          BY <1>3, <3>1, <3>5, <4>3 DEF Refs
        <5> HIDE DEF A
        <5>2. Cardinality(Refs(k', q)) = a - 1
          BY <4>2, <5>1, OneLess
        <5>3. Cardinality(k'.slot \cap Threads(q)) = b /\ k'.slab[q] = k.slab[q] + 1
          BY <3>5, <4>3
        <5> HIDE DEF a, b
        <5>4. QED
          BY <4>1, <4>2, <5>2, <5>3
      <4>4. CASE q # p
        <5>1. Refs(k', q) = A
          BY <3>5, <4>4 DEF Refs
        <5>2. QED
          BY <3>5, <4>1, <4>4, <5>1
      <4>5. QED
        BY <4>3, <4>4
    <3>13. QED
      BY <3>4, <3>8, <3>9, <3>10, <3>11, <3>12 DEF SpaceInv
  <2>2. CASE ~MayDelete(p, id)
    <3>1. k' = k
      BY <1>2, <2>2
    <3>2. k.ref[p][id] # None => Pends(k, pc', p, id) # {}
      <4>1. k.ref[p][id] # None => k.inUtcbs[p][id] # 0
        BY <2>2 DEF MayDelete
      <4>2. k.inUtcbs[p][id] = Cardinality(Pends(k, pc', p, id))
        BY <1>1, <1>3, <1>10 DEF UtcbsCounted
      <4>3. QED
        BY <4>1, <4>2, EmptyCount
    <3>3. RefsUsed(k, pc', copies, snd, dying')
      <4> SUFFICES ASSUME NEW q \in Pd, NEW o \in CapId, k.ref[q][o] # None
                   PROVE  \/ copies[q][o] > 0 \/ Sends(snd, q, o) # {}
                          \/ Pends(k, pc', q, o) # {} \/ dying'[q] = o
        BY DEF RefsUsed
      <4>1. copies[q][o] > 0 \/ Sends(snd, q, o) # {} \/ Pends(k, pc', q, o) # {} \/ dying[q] = o
        BY <1>10 DEF RefsUsed
      <4>2. dying[q] = o => Pends(k, pc', q, o) # {} \/ dying'[q] = o
        BY <1>5, <3>2
      <4>3. QED
        BY <4>1, <4>2
    <3>4. QED
      BY <1>10, <3>1, <3>3 DEF SpaceInv
  <2>3. QED
    BY <2>1, <2>2
<1>13. QED
  BY <1>2, <1>4, <1>6, <1>7, <1>8, <1>12 DEF CapInv
-----------------------------------------------------------------------------
(* User code and kernel: calls *)

\* A capability object goes into the message of thread t, which then moves on.
LEMMA Marshalled ==
  ASSUME CapInv, NEW t \in Thread, NEW place \in {"send", "reply"}, NEW cap,
         cap \in IF PdOf[t] = Core THEN Identity \cup {None} ELSE CapId \cup {None},
         pc[t] = "run", Marshal(t, cap), BelowBound(t),
         pc' = [pc EXCEPT ![t] = place], k' = k, counter' = counter, dying' = dying, size' = size
  PROVE  /\ copies' \in [Pd -> [CapId -> Nat]]
         /\ snd' \in [Thread -> CapId \cup Identity \cup {None}]
         /\ pc' \in [Thread -> Places]
         /\ DyingInv'
         /\ Bounded(pc', copies', snd')
         /\ SpaceInv(k', pc', counter', copies', snd', dying', size')
<1> DEFINE p == PdOf[t]
<1>1. snd' = [snd EXCEPT ![t] = cap]
  BY DEF Marshal
<1>2. snd[t] = None
  BY DEF CapInv, CallsMatch
<1>3. snd' \in [Thread -> CapId \cup Identity \cup {None}]
  BY <1>1 DEF CapInv, TypeInv
<1>4. pc \in [Thread -> Places] /\ place \in Places /\ pc' \in [Thread -> Places]
  BY DEF CapInv, TypeInv, Places
<1>5. pc'[t] = place /\ \A u \in Thread : u # t => pc'[u] = pc[u]
  BY <1>4
<1>6. snd'[t] = cap /\ \A u \in Thread : u # t => snd'[u] = snd[u]
  BY <1>1 DEF CapInv, TypeInv
<1>7. None \notin CapId
  BY CapabilityAssumption
<1>8. \A q \in Pd, o \in CapId :
        Sends(snd', q, o) = IF q = p /\ o = cap THEN Sends(snd, q, o) \cup {t} ELSE Sends(snd, q, o)
  BY <1>2, <1>6, <1>7 DEF Sends, Threads
<1>9. \A q \in Pd : q # p => Busy(pc', q) = Busy(pc, q)
  BY <1>5 DEF Busy, Threads
<1>10. DyingInv'
  <2>1. \A u \in User : u \in Thread
    BY PdOfUser
  <2>2. QED
    BY <1>5, <2>1 DEF CapInv, DyingInv
<1>11. SpaceInv(k, pc', counter, copies, snd, dying, size)
  <2>1. SpaceInv(k, [pc EXCEPT ![t] = place], counter, copies, snd, dying, size)
    BY <1>4, Moved DEF CapInv
  <2>2. QED
    BY <2>1
<1>12. /\ k \in KernelType /\ SlotsReady(k, pc') /\ UtcbsCounted(k, pc')
       /\ ObjectsCounted(k, pc', counter, copies, snd) /\ RefsUsed(k, pc', copies, snd, dying)
       /\ RefsUnique(k) /\ SlabCounted(k, size)
  BY <1>11 DEF SpaceInv
<1>13. CASE p \in Pd /\ cap \in CapId
  <2>1. p # Core /\ t \in Threads(p)
    BY <1>13, PdOfUser DEF Threads
  <2>2. copies[p][cap] > 0 /\ copies' = [copies EXCEPT ![p][cap] = copies[p][cap] - 1]
    BY <1>7, <1>13, <2>1 DEF Marshal
  <2>3. copies[p][cap] - 1 \in Nat
    BY <1>13, <2>2, Numbers
  <2>4. copies' \in [Pd -> [CapId -> Nat]]
    BY <1>13, <2>2, <2>3 DEF CapInv, TypeInv
  <2>5. /\ copies'[p][cap] = copies[p][cap] - 1
        /\ \A q \in Pd, o \in CapId : ~(q = p /\ o = cap) => copies'[q][o] = copies[q][o]
    BY <1>13, <2>2, <2>3 DEF CapInv, TypeInv
  <2>6. Sends(snd', p, cap) = Sends(snd, p, cap) \cup {t} /\ t \notin Sends(snd, p, cap)
    BY <1>2, <1>7, <1>8, <1>13 DEF Sends
  <2>7. Cardinality(Sends(snd', p, cap)) = Cardinality(Sends(snd, p, cap)) + 1
    <3>1. IsFiniteSet(Sends(snd, p, cap))
      BY ThreadsFinite DEF Sends
    <3>2. QED
      BY <2>6, <3>1, OneMore
  <2>8. Bounded(pc', copies', snd')
    <3> SUFFICES ASSUME NEW q \in Pd, NEW o \in CapId
                 PROVE  copies'[q][o] + Cardinality(Sends(snd', q, o)) + Cardinality(Busy(pc', q))
                          <= MaxCopies[q] + 2 * Cardinality(Thread)
      BY DEF Bounded
    <3>1. CASE q = p
      <4> DEFINE m == Cardinality(Thread)
                 b == Cardinality(Busy(pc', q))
                 c == Cardinality(Sends(snd', q, o))
                 n == copies'[q][o]
      <4>1. m \in Nat /\ b \in Nat /\ c \in Nat /\ b <= m /\ c <= m
        BY Bounds
      <4>2. n < MaxCopies[q] /\ n \in Nat /\ MaxCopies[q] \in Nat
        BY <1>13, <2>1, <2>4, <3>1, CapabilityAssumption DEF BelowBound
      <4> HIDE DEF m, b, c, n
      <4>3. n + c + b <= MaxCopies[q] + 2 * m
        BY <4>1, <4>2
      <4>4. QED
        BY <4>3 DEF m, b, c, n
    <3>2. CASE q # p
      <4>1. copies'[q][o] = copies[q][o] /\ Sends(snd', q, o) = Sends(snd, q, o)
            /\ Busy(pc', q) = Busy(pc, q)
        BY <1>8, <1>9, <2>5, <3>2
      <4>2. QED
        BY <4>1 DEF CapInv, Bounded
    <3>3. QED
      BY <3>1, <3>2
  <2>9. ObjectsCounted(k, pc', counter, copies', snd')
    <3> SUFFICES ASSUME NEW q \in Pd, NEW o \in CapId
                 PROVE  /\ counter[q][o] = copies'[q][o] + Cardinality(Sends(snd', q, o))
                                             + Cardinality(Acks(k, pc', q, o))
                        /\ copies'[q][o] > 0 \/ Sends(snd', q, o) # {} => k.ref[q][o] # None
      BY DEF ObjectsCounted
    <3>1. /\ counter[q][o] = copies[q][o] + Cardinality(Sends(snd, q, o))
                               + Cardinality(Acks(k, pc', q, o))
          /\ copies[q][o] > 0 \/ Sends(snd, q, o) # {} => k.ref[q][o] # None
      BY <1>12 DEF ObjectsCounted
    <3>2. CASE q = p /\ o = cap
      <4> DEFINE a == Cardinality(Acks(k, pc', q, o))
                 c == Cardinality(Sends(snd, q, o))
                 n == copies[q][o]
      <4>1. a \in Nat /\ c \in Nat /\ n \in Nat
        BY Bounds DEF CapInv, TypeInv
      <4>2. Cardinality(Sends(snd', q, o)) = c + 1 /\ copies'[q][o] = n - 1
        BY <2>5, <2>7, <3>2
      <4>3. k.ref[q][o] # None
        BY <2>2, <3>1, <3>2
      <4> HIDE DEF a, c, n
      <4>4. n + c + a = (n - 1) + (c + 1) + a
        BY <4>1
      <4>5. QED
        BY <3>1, <4>2, <4>3, <4>4 DEF a, c, n
    <3>3. CASE ~(q = p /\ o = cap)
      <4>1. copies'[q][o] = copies[q][o] /\ Sends(snd', q, o) = Sends(snd, q, o)
        BY <1>8, <2>5, <3>3
      <4>2. QED
        BY <3>1, <4>1
    <3>4. QED
      BY <3>2, <3>3
  <2>10. RefsUsed(k, pc', copies', snd', dying)
    <3>1. Sends(snd', p, cap) # {}
      BY <2>6
    <3>2. QED
      BY <1>8, <1>12, <2>5, <3>1 DEF RefsUsed
  <2>11. SpaceInv(k, pc', counter, copies', snd', dying, size)
    BY <1>12, <2>9, <2>10 DEF SpaceInv
  <2>12. QED
    BY <1>3, <1>4, <1>10, <2>4, <2>8, <2>11
<1>14. CASE ~(p \in Pd /\ cap \in CapId)
  <2>1. copies' = copies
    BY <1>14, PdOfUser DEF Marshal
  <2>2. \A q \in Pd, o \in CapId : Sends(snd', q, o) = Sends(snd, q, o)
    BY <1>8, <1>14
  <2>3. Bounded(pc', copies', snd')
    <3> SUFFICES ASSUME NEW q \in Pd, NEW o \in CapId
                 PROVE  copies'[q][o] + Cardinality(Sends(snd', q, o)) + Cardinality(Busy(pc', q))
                          <= MaxCopies[q] + 2 * Cardinality(Thread)
      BY DEF Bounded
    <3>1. CASE q = p
      <4> DEFINE m == Cardinality(Thread)
                 b == Cardinality(Busy(pc', q))
                 c == Cardinality(Sends(snd', q, o))
                 n == copies'[q][o]
      <4>1. m \in Nat /\ b \in Nat /\ c \in Nat /\ b <= m /\ c <= m
        BY Bounds
      <4>2. n < MaxCopies[q] /\ n \in Nat /\ MaxCopies[q] \in Nat
        <5>1. p # Core
          BY <3>1, PdOfUser
        <5>2. n \in Nat
          BY <2>1 DEF CapInv, TypeInv
        <5>3. QED
          BY <3>1, <5>1, <5>2, CapabilityAssumption DEF BelowBound
      <4> HIDE DEF m, b, c, n
      <4>3. n + c + b <= MaxCopies[q] + 2 * m
        BY <4>1, <4>2
      <4>4. QED
        BY <4>3 DEF m, b, c, n
    <3>2. CASE q # p
      <4>1. copies'[q][o] = copies[q][o] /\ Sends(snd', q, o) = Sends(snd, q, o)
            /\ Busy(pc', q) = Busy(pc, q)
        BY <1>9, <2>1, <2>2, <3>2
      <4>2. QED
        BY <4>1 DEF CapInv, Bounded
    <3>3. QED
      BY <3>1, <3>2
  <2>4. ObjectsCounted(k, pc', counter, copies', snd') /\ RefsUsed(k, pc', copies', snd', dying)
    BY <1>12, <2>1, <2>2 DEF ObjectsCounted, RefsUsed
  <2>5. SpaceInv(k, pc', counter, copies', snd', dying, size)
    BY <1>12, <2>4 DEF SpaceInv
  <2>6. QED
    BY <1>3, <1>4, <1>10, <2>1, <2>3, <2>5 DEF CapInv, TypeInv
<1>15. QED
  BY <1>13, <1>14

LEMMA CallCapInv ==
  ASSUME CapInv, NEW t \in User, NEW cap \in CapId \cup {None}, NEW s \in Server, Call(t, s, cap)
  PROVE  CapInv'
<1>1. t \in Thread /\ PdOf[t] # Core
  BY PdOfUser
<1>2. /\ t \in Client /\ pc[t] = "run" /\ Marshal(t, cap) /\ BelowBound(t)
      /\ peer' = [peer EXCEPT ![t] = s] /\ pc' = [pc EXCEPT ![t] = "send"]
      /\ UNCHANGED <<object, created, k, counter, dying, size>>
  BY DEF Call, objectVars
<1>3. /\ copies' \in [Pd -> [CapId -> Nat]]
      /\ snd' \in [Thread -> CapId \cup Identity \cup {None}]
      /\ pc' \in [Thread -> Places]
      /\ DyingInv'
      /\ Bounded(pc', copies', snd')
      /\ SpaceInv(k', pc', counter', copies', snd', dying', size')
  BY <1>1, <1>2, Marshalled
<1>4. s \in Thread
  BY CapabilityAssumption
<1>5. TypeInv'
  BY <1>2, <1>3, <1>4 DEF CapInv, TypeInv
<1>6. /\ pc'[t] = "send" /\ \A u \in Thread : u # t => pc'[u] = pc[u]
      /\ peer'[t] = s /\ \A u \in Thread : u # t => peer'[u] = peer[u]
      /\ snd'[t] = cap /\ \A u \in Thread : u # t => snd'[u] = snd[u]
  BY <1>1, <1>2 DEF CapInv, TypeInv, Marshal
<1>7. CallsMatch'
  <2>1. \A u \in Thread : PdOf[u] = Core => /\ pc'[u] \notin {"upgrade", "ack", "delete"}
                                            /\ snd'[u] \in Identity \cup {None}
    BY <1>1, <1>6 DEF CapInv, CallsMatch
  <2>2. \A u \in User : snd'[u] \in CapId \cup {None}
    BY <1>6, PdOfUser DEF CapInv, CallsMatch
  <2>3. \A c \in Client : /\ pc'[c] \notin {"reply", "wait"}
                          /\ pc'[c] \in {"send", "queued", "called", "upgrade"} => peer'[c] \in Server
    BY <1>6 DEF CapInv, CallsMatch, Client
  <2>4. \A v \in Server : /\ pc'[v] \notin {"send", "queued", "called"}
                          /\ peer'[v] # None => /\ peer'[v] \in Client /\ pc'[peer'[v]] = "called"
                                                /\ peer'[peer'[v]] = v
    <3> TAKE v \in Server
    <3>1. v \in Thread /\ v # t
      BY <1>2, CapabilityAssumption DEF Client
    <3>2. peer[v] # None => peer[v] \in Client /\ pc[peer[v]] = "called" /\ peer[peer[v]] = v
          /\ peer[v] # t /\ peer[v] \in Thread
      BY <1>2 DEF CapInv, CallsMatch, Client
    <3>3. QED
      BY <1>6, <3>1, <3>2 DEF CapInv, CallsMatch
  <2>5. \A u \in Thread : snd'[u] # None => pc'[u] \notin {"run", "delete"}
    BY <1>6 DEF CapInv, CallsMatch
  <2>6. QED
    BY <2>1, <2>2, <2>3, <2>4, <2>5 DEF CallsMatch
<1>8. QED
  BY <1>3, <1>5, <1>7 DEF CapInv

LEMMA ReplyCapInv ==
  ASSUME CapInv, NEW t \in Thread, NEW cap, Reply(t, cap),
         cap \in IF PdOf[t] = Core THEN Identity \cup {None} ELSE CapId \cup {None}
  PROVE  CapInv'
<1>2. /\ t \in Server /\ pc[t] = "run" /\ Marshal(t, cap) /\ BelowBound(t)
      /\ pc' = [pc EXCEPT ![t] = "reply"]
      /\ UNCHANGED <<object, created, k, counter, dying, size, peer>>
  BY DEF Reply, objectVars
<1>3. /\ copies' \in [Pd -> [CapId -> Nat]]
      /\ snd' \in [Thread -> CapId \cup Identity \cup {None}]
      /\ pc' \in [Thread -> Places]
      /\ DyingInv'
      /\ Bounded(pc', copies', snd')
      /\ SpaceInv(k', pc', counter', copies', snd', dying', size')
  BY <1>2, Marshalled
<1>5. TypeInv'
  BY <1>2, <1>3 DEF CapInv, TypeInv
<1>6. /\ pc'[t] = "reply" /\ \A u \in Thread : u # t => pc'[u] = pc[u]
      /\ snd'[t] = cap /\ \A u \in Thread : u # t => snd'[u] = snd[u]
  BY <1>2 DEF CapInv, TypeInv, Marshal
<1>7. CallsMatch'
  <2>1. \A u \in Thread : PdOf[u] = Core => /\ pc'[u] \notin {"upgrade", "ack", "delete"}
                                            /\ snd'[u] \in Identity \cup {None}
    BY <1>6 DEF CapInv, CallsMatch
  <2>2. \A u \in User : snd'[u] \in CapId \cup {None}
    BY <1>6, PdOfUser DEF CapInv, CallsMatch
  <2>3. \A c \in Client : /\ pc'[c] \notin {"reply", "wait"}
                          /\ pc'[c] \in {"send", "queued", "called", "upgrade"} => peer'[c] \in Server
    BY <1>2, <1>6 DEF CapInv, CallsMatch, Client
  <2>4. \A v \in Server : /\ pc'[v] \notin {"send", "queued", "called"}
                          /\ peer'[v] # None => /\ peer'[v] \in Client /\ pc'[peer'[v]] = "called"
                                                /\ peer'[peer'[v]] = v
    <3> TAKE v \in Server
    <3>1. v \in Thread
      BY CapabilityAssumption
    <3>2. peer[v] # None => peer[v] \in Client /\ pc[peer[v]] = "called" /\ peer[peer[v]] = v
          /\ peer[v] # t /\ peer[v] \in Thread
      BY <1>2 DEF CapInv, CallsMatch, Client
    <3>3. QED
      BY <1>2, <1>6, <3>1, <3>2 DEF CapInv, CallsMatch
  <2>5. \A u \in Thread : snd'[u] # None => pc'[u] \notin {"run", "delete"}
    BY <1>6 DEF CapInv, CallsMatch
  <2>6. QED
    BY <2>1, <2>2, <2>3, <2>4, <2>5 DEF CallsMatch
<1>8. QED
  BY <1>3, <1>5, <1>7 DEF CapInv

LEMMA UpgradeCapInv ==
  ASSUME CapInv, NEW t \in Thread, UpgradeSlab(t)
  PROVE  CapInv'
<1> DEFINE p == PdOf[t]
           place == IF t \in Server THEN "reply" ELSE "send"
<1>1. /\ pc[t] = "upgrade" /\ size[p] < MaxSlab /\ size' = [size EXCEPT ![p] = size[p] + 1]
      /\ k' = [k EXCEPT !.slab[p] = k.slab[p] + 1] /\ pc' = [pc EXCEPT ![t] = place]
      /\ UNCHANGED <<object, created, counter, copies, snd, dying, peer>>
  BY DEF UpgradeSlab, objectVars
<1>2. p \in Pd /\ t \in User
  BY <1>1, PdOfUser DEF CapInv, CallsMatch
<1>3. size[p] \in 0 .. MaxSlab /\ MaxSlab \in Nat
  BY <1>2, CapabilityAssumption DEF CapInv, TypeInv
<1>4. place \in Places /\ pc \in [Thread -> Places] /\ pc' \in [Thread -> Places]
  BY <1>1 DEF CapInv, TypeInv, Places
<1>5. size' \in [Pd -> 0 .. MaxSlab]
  <2>1. size[p] + 1 \in 0 .. MaxSlab
    BY <1>1, <1>3
  <2>2. QED
    BY <1>1, <1>2, <2>1 DEF CapInv, TypeInv
<1>6. TypeInv'
  BY <1>1, <1>4, <1>5 DEF CapInv, TypeInv
<1>7. pc'[t] = place /\ \A u \in Thread : u # t => pc'[u] = pc[u]
  BY <1>1, <1>4
<1>8. CallsMatch'
  <2>1. t \in Client => place = "send" /\ peer[t] \in Server
    BY <1>1 DEF CapInv, CallsMatch, Client
  <2>2. t \in Server => place = "reply"
    OBVIOUS
  <2>3. place \in {"send", "reply"} /\ (t \in Server <=> t \notin Client)
    BY DEF Client
  <2> HIDE DEF place
  <2>4. \A v \in Server : /\ pc'[v] \notin {"send", "queued", "called"}
                          /\ peer'[v] # None => /\ peer'[v] \in Client /\ pc'[peer'[v]] = "called"
                                                /\ peer'[peer'[v]] = v
    <3> TAKE v \in Server
    <3>1. v \in Thread
      BY CapabilityAssumption
    <3>2. peer[v] # None => peer[v] \in Client /\ pc[peer[v]] = "called" /\ peer[peer[v]] = v
          /\ peer[v] # t /\ peer[v] \in Thread
      BY <1>1 DEF CapInv, CallsMatch, Client
    <3>3. QED
      BY <1>1, <1>7, <2>2, <3>1, <3>2 DEF CapInv, CallsMatch
  <2>5. \A c \in Client : /\ pc'[c] \notin {"reply", "wait"}
                          /\ pc'[c] \in {"send", "queued", "called", "upgrade"} => peer'[c] \in Server
    BY <1>1, <1>7, <2>1 DEF CapInv, CallsMatch, Client
  <2>6. \A u \in Thread : /\ snd'[u] # None => pc'[u] \notin {"run", "delete"}
                          /\ PdOf[u] = Core => /\ pc'[u] \notin {"upgrade", "ack", "delete"}
                                               /\ snd'[u] \in Identity \cup {None}
    BY <1>1, <1>7, <2>3 DEF CapInv, CallsMatch
  <2>7. QED
    BY <1>1, <2>4, <2>5, <2>6 DEF CapInv, CallsMatch
<1>9. DyingInv'
  <2>1. \A u \in User : u \in Thread
    BY PdOfUser
  <2>2. QED
    BY <1>1, <1>7, <2>1 DEF CapInv, DyingInv
<1>10. Bounded(pc', copies, snd)
  <2>1. \A q : Busy(pc', q) = Busy(pc, q)
    BY <1>1, <1>7 DEF Busy, Threads
  <2>2. QED
    BY <2>1 DEF CapInv, Bounded
<1>11. SpaceInv(k, pc', counter, copies, snd, dying, size)
  <2>1. place \notin {"import", "ack"} /\ place \notin {"wait", "queued", "called"}
    OBVIOUS
  <2> HIDE DEF place
  <2>2. SpaceInv(k, [pc EXCEPT ![t] = place], counter, copies, snd, dying, size)
    BY <1>1, <1>4, <2>1, Moved DEF CapInv
  <2>3. QED
    BY <1>1, <2>2
<1>12. SpaceInv(k', pc', counter, copies, snd, dying, size')
  <2>1. /\ k \in KernelType /\ SlotsReady(k, pc') /\ UtcbsCounted(k, pc')
        /\ ObjectsCounted(k, pc', counter, copies, snd) /\ RefsUsed(k, pc', copies, snd, dying)
        /\ RefsUnique(k) /\ SlabCounted(k, size)
    BY <1>11 DEF SpaceInv
  <2>2. k' = [ref |-> k.ref, inUtcbs |-> k.inUtcbs, slab |-> [k.slab EXCEPT ![p] = k.slab[p] + 1],
              slot |-> k.slot, utcb |-> k.utcb]
    BY <1>1, <2>1 DEF KernelType
  <2>3. k.slab \in [Pd -> Nat] /\ [k.slab EXCEPT ![p] = k.slab[p] + 1] \in [Pd -> Nat]
    BY <1>2, <2>1 DEF KernelType
  <2>4. k' \in KernelType
    BY <2>1, <2>2, <2>3 DEF KernelType
  <2>5. /\ k'.ref = k.ref /\ k'.inUtcbs = k.inUtcbs /\ k'.slot = k.slot /\ k'.utcb = k.utcb
        /\ k'.slab[p] = k.slab[p] + 1 /\ \A q \in Pd : q # p => k'.slab[q] = k.slab[q]
    BY <1>2, <2>2, <2>3
  <2>6. \A q, o : /\ Pends(k', pc', q, o) = Pends(k, pc', q, o)
                  /\ Acks(k', pc', q, o) = Acks(k, pc', q, o) /\ Refs(k', q) = Refs(k, q)
    BY <2>5 DEF Pends, Acks, Refs
  <2>7. SlotsReady(k', pc') /\ UtcbsCounted(k', pc') /\ ObjectsCounted(k', pc', counter, copies, snd)
    BY <2>1, <2>5, <2>6 DEF SlotsReady, UtcbsCounted, ObjectsCounted
  <2>8. RefsUsed(k', pc', copies, snd, dying) /\ RefsUnique(k')
    BY <2>1, <2>5, <2>6 DEF RefsUsed, RefsUnique
  <2>9. SlabCounted(k', size')
    <3> SUFFICES ASSUME NEW q \in Pd
                 PROVE  size'[q] = k'.slab[q] + Cardinality(Refs(k', q))
                                     + Cardinality(k'.slot \cap Threads(q))
      BY DEF SlabCounted
    <3> DEFINE a == Cardinality(Refs(k, q))
               b == Cardinality(k.slot \cap Threads(q))
    <3>1. size[q] = k.slab[q] + a + b /\ k.slab[q] \in Nat
      BY <2>1, <2>3 DEF SlabCounted
    <3>2. a \in Nat /\ b \in Nat
      BY IdsFinite, ThreadsFinite DEF Refs
    <3>3. Cardinality(Refs(k', q)) = a /\ Cardinality(k'.slot \cap Threads(q)) = b
      BY <2>5, <2>6
    <3>4. size'[q] = IF q = p THEN size[q] + 1 ELSE size[q]
      BY <1>1, <1>2 DEF CapInv, TypeInv
    <3>5. k'.slab[q] = IF q = p THEN k.slab[q] + 1 ELSE k.slab[q]
      BY <2>5
    <3> HIDE DEF a, b, p
    <3>6. QED
      BY <3>1, <3>2, <3>3, <3>4, <3>5
  <2>10. QED
    BY <2>4, <2>7, <2>8, <2>9 DEF SpaceInv
<1>13. QED
  BY <1>1, <1>6, <1>8, <1>9, <1>10, <1>12 DEF CapInv

LEMMA CountWithout ==
  ASSUME NEW A, IsFiniteSet(A), NEW x
  PROVE  Cardinality(A \ {x}) = Cardinality(A) - One(x \in A) /\ Cardinality(A) \in Nat
<1>1. Cardinality(A) \in Nat
  BY FS_CardinalityType
<1>2. CASE x \in A
  <2>1. One(x \in A) = 1
    BY <1>2 DEF One
  <2>2. QED
    BY <1>1, <1>2, <2>1, OneLess
<1>3. CASE x \notin A
  <2>1. A \ {x} = A
    BY <1>3
  <2>2. One(x \in A) = 0
    BY <1>3 DEF One
  <2>3. Cardinality(A \ {x}) = Cardinality(A)
    BY <2>1
  <2> DEFINE n == Cardinality(A)
             e == One(x \in A)
  <2>4. n \in Nat /\ e = 0
    BY <1>1, <2>2
  <2> HIDE DEF n, e
  <2>5. n = n - e
    BY <2>4
  <2>6. QED
    BY <1>1, <2>3, <2>5 DEF n, e
<1>4. QED
  BY <1>2, <1>3

LEMMA ImportCapInv ==
  ASSUME CapInv, NEW t \in User, Import(t), ~wrapped'
  PROVE  CapInv'
<1> DEFINE p == PdOf[t]
           id == k.utcb[t]
<1>1. p \in Pd /\ t \in Thread /\ t \in Threads(p) /\ p # Core
  BY PdOfUser DEF Threads
<1>2. /\ pc[t] = "import" /\ id # None /\ dying[p] = None
      /\ counter' = [counter EXCEPT ![p][id] = Incremented(counter[p][id])]
      /\ pc' = [pc EXCEPT ![t] = "ack"]
      /\ UNCHANGED <<object, created, k, copies, snd, dying, size, peer>>
      /\ Incremented(counter[p][id]) # 0
  BY DEF Import, Unlocked, objectVars
<1>3. /\ k \in KernelType /\ SlotsReady(k, pc) /\ UtcbsCounted(k, pc)
      /\ ObjectsCounted(k, pc, counter, copies, snd) /\ RefsUsed(k, pc, copies, snd, dying)
      /\ RefsUnique(k) /\ SlabCounted(k, size)
  BY DEF CapInv, SpaceInv
<1>4. id \in CapId
  BY <1>1, <1>2, <1>3 DEF KernelType
<1>5. pc'[t] = "ack" /\ (\A u \in Thread : u # t => pc'[u] = pc[u]) /\ pc' \in [Thread -> Places]
  BY <1>1, <1>2 DEF CapInv, TypeInv, Places
<1> HIDE DEF p, id
<1>6. \A q \in Pd, o \in CapId : /\ Pends(k, pc', q, o) = Pends(k, pc, q, o)
                                 /\ Acks(k, pc', q, o) = IF q = p /\ o = id THEN Acks(k, pc, q, o) \cup {t}
                                                         ELSE Acks(k, pc, q, o)
                                 /\ Busy(pc', q) = Busy(pc, q)
  BY <1>1, <1>2, <1>5 DEF Pends, Acks, Busy, Threads, p, id
<1>7. t \notin Acks(k, pc, p, id) /\ IsFiniteSet(Acks(k, pc, p, id))
  BY <1>2, ThreadsFinite DEF Acks
<1>8. Cardinality(Acks(k, pc', p, id)) = Cardinality(Acks(k, pc, p, id)) + 1
  BY <1>1, <1>4, <1>6, <1>7, OneMore
<1>9. /\ Incremented(counter[p][id]) = counter[p][id] + 1
      /\ counter[p][id] + 1 \in 0 .. RefMod - 1 /\ counter[p][id] + 1 \in Nat
  <2>1. counter[p][id] \in 0 .. RefMod - 1
    BY <1>1, <1>4 DEF CapInv, TypeInv
  <2>2. QED
    BY <1>2, <2>1, NoWrap
<1>10. TypeInv'
  <2>1. counter' \in [Pd -> [CapId -> 0 .. RefMod - 1]]
    BY <1>1, <1>2, <1>4, <1>9 DEF CapInv, TypeInv
  <2>2. QED
    BY <1>2, <1>5, <2>1 DEF CapInv, TypeInv
<1>11. /\ counter'[p][id] = counter[p][id] + 1
       /\ \A q \in Pd, o \in CapId : ~(q = p /\ o = id) => counter'[q][o] = counter[q][o]
  BY <1>1, <1>2, <1>4, <1>9 DEF CapInv, TypeInv
<1>12. CallsMatch'
  <2>1. \A v \in Server : peer[v] # None => peer[v] # t
    BY <1>2 DEF CapInv, CallsMatch
  <2>2. QED
    BY <1>1, <1>2, <1>5, <2>1 DEF CapInv, CallsMatch, TypeInv, Client, p
<1>13. DyingInv'
  <2>1. \A u \in User : u \in Thread
    BY PdOfUser
  <2>2. \A q \in Pd : dying'[q] # None => counter'[q][dying'[q]] = 0
    BY <1>2, <1>11 DEF CapInv, DyingInv, TypeInv
  <2>3. QED
    BY <1>2, <1>5, <2>1, <2>2 DEF CapInv, DyingInv
<1>14. Bounded(pc', copies, snd)
  BY <1>6 DEF CapInv, Bounded
<1>15. SlotsReady(k, pc')
  BY <1>3, <1>5, PdOfUser DEF SlotsReady
<1>16. ObjectsCounted(k, pc', counter', copies, snd)
  <2> SUFFICES ASSUME NEW q \in Pd, NEW o \in CapId
               PROVE  /\ counter'[q][o] = copies[q][o] + Cardinality(Sends(snd, q, o))
                                            + Cardinality(Acks(k, pc', q, o))
                      /\ copies[q][o] > 0 \/ Sends(snd, q, o) # {} => k.ref[q][o] # None
    BY DEF ObjectsCounted
  <2>1. copies[q][o] > 0 \/ Sends(snd, q, o) # {} => k.ref[q][o] # None
    BY <1>3 DEF ObjectsCounted
  <2> DEFINE a == Cardinality(Acks(k, pc, q, o))
             c == Cardinality(Sends(snd, q, o))
  <2>2. a \in Nat /\ c \in Nat /\ copies[q][o] \in Nat /\ counter[q][o] = copies[q][o] + c + a
    BY Numbers
  <2>3. CASE q = p /\ o = id
    <3>1. counter'[q][o] = counter[q][o] + 1 /\ Cardinality(Acks(k, pc', q, o)) = a + 1
      BY <1>8, <1>11, <2>3
    <3> HIDE DEF a
    <3>2. counter'[q][o] = copies[q][o] + c + (a + 1)
      <4> HIDE DEF c
      <4>1. QED
        BY <2>2, <3>1
    <3>3. QED
      BY <2>1, <3>1, <3>2
  <2>4. CASE ~(q = p /\ o = id)
    BY <1>6, <1>11, <2>1, <2>2, <2>4
  <2>5. QED
    BY <2>3, <2>4
<1>17. UtcbsCounted(k, pc') /\ RefsUsed(k, pc', copies, snd, dying)
  BY <1>3, <1>6 DEF UtcbsCounted, RefsUsed
<1>18. SpaceInv(k, pc', counter', copies, snd, dying, size)
  BY <1>3, <1>15, <1>16, <1>17 DEF SpaceInv
<1>19. QED
  BY <1>2, <1>10, <1>12, <1>13, <1>14, <1>18 DEF CapInv

\* The kernel state after thread t took the received capability from its UTCB.
UtcbCleared(r, t) ==
  /\ r \in KernelType
  /\ r.ref = k.ref /\ r.slab = k.slab /\ r.slot = k.slot
  /\ r.utcb = [k.utcb EXCEPT ![t] = None]
  /\ \A p \in Pd, id \in CapId :
       r.inUtcbs[p][id] = k.inUtcbs[p][id] - One(p = PdOf[t] /\ id = k.utcb[t])

\* A call of thread t ends: every capability object of its messages is one of the
\* copies now.
LEMMA Released ==
  ASSUME CapInv, NEW t \in Thread, pc[t] \in {"import", "ack"},
         k.utcb[t] # None => pc[t] = "ack",
         ReleaseMsgs(t, k.utcb[t]), UtcbCleared(k', t),
         pc' = [pc EXCEPT ![t] = "run"],
         peer' = IF t \in Server THEN peer ELSE [peer EXCEPT ![t] = None],
         UNCHANGED <<object, created, counter, dying, size>>
  PROVE  CapInv'
<1> DEFINE p == PdOf[t]
           got == k.utcb[t]
           sent == snd[t]
<1>1. /\ k \in KernelType /\ SlotsReady(k, pc) /\ UtcbsCounted(k, pc)
      /\ ObjectsCounted(k, pc, counter, copies, snd) /\ RefsUsed(k, pc, copies, snd, dying)
      /\ RefsUnique(k) /\ SlabCounted(k, size)
  BY DEF CapInv, SpaceInv
<1>2. /\ k' \in KernelType /\ k'.ref = k.ref /\ k'.slab = k.slab /\ k'.slot = k.slot
      /\ k'.utcb = [k.utcb EXCEPT ![t] = None]
      /\ \A q \in Pd, o \in CapId : k'.inUtcbs[q][o] = k.inUtcbs[q][o] - One(q = p /\ o = got)
  BY DEF UtcbCleared
<1>3. snd' = [snd EXCEPT ![t] = None] /\ None \notin CapId
  BY CapabilityAssumption DEF ReleaseMsgs
<1>4. \A q \in Pd, o \in CapId :
        /\ copies[q][o] \in Nat
        /\ copies'[q][o] = copies[q][o] + One(q = p /\ o = sent) + One(q = p /\ o = got)
  <2> SUFFICES ASSUME NEW q \in Pd, NEW o \in CapId
               PROVE  /\ copies[q][o] \in Nat
                      /\ copies'[q][o] = copies[q][o] + One(q = p /\ o = sent) + One(q = p /\ o = got)
    OBVIOUS
  <2>1. copies[q][o] \in Nat /\ copies[q] \in [CapId -> Nat] /\ copies \in [Pd -> [CapId -> Nat]]
    BY DEF CapInv, TypeInv
  <2>2. CASE q = p
    <3>1. copies' = [copies EXCEPT ![p] = [i \in CapId |->
                       copies[p][i] + One(i = sent) + One(i = got)]]
      BY <2>2, PdOfUser DEF ReleaseMsgs
    <3>2. copies'[q][o] = copies[q][o] + One(o = sent) + One(o = got)
      BY <2>1, <2>2, <3>1
    <3>3. QED
      BY <2>1, <2>2, <3>2
  <2>3. CASE q # p
    <3>1. copies'[q][o] = copies[q][o]
      BY <2>1, <2>3 DEF ReleaseMsgs
    <3>2. One(q = p /\ o = sent) = 0 /\ One(q = p /\ o = got) = 0
      BY <2>3 DEF One
    <3>3. QED
      BY <2>1, <3>1, <3>2
  <2>4. QED
    BY <2>2, <2>3
<1>5. copies' \in [Pd -> [CapId -> Nat]]
  <2>1. CASE p = Core
    BY <2>1 DEF ReleaseMsgs, CapInv, TypeInv
  <2>2. CASE p # Core
    <3>1. p \in Pd
      BY <2>2, PdOfUser
    <3>2. copies' = [copies EXCEPT ![p] = [i \in CapId |->
                       copies[p][i] + One(i = sent) + One(i = got)]]
      BY <2>2 DEF ReleaseMsgs
    <3>3. [i \in CapId |-> copies[p][i] + One(i = sent) + One(i = got)] \in [CapId -> Nat]
      BY <1>4, <3>1 DEF One
    <3>4. QED
      BY <3>1, <3>2, <3>3 DEF CapInv, TypeInv
  <2>3. QED
    BY <2>1, <2>2
<1>6. pc'[t] = "run" /\ (\A u \in Thread : u # t => pc'[u] = pc[u]) /\ pc' \in [Thread -> Places]
  BY DEF CapInv, TypeInv, Places
<1>7. /\ snd'[t] = None /\ (\A u \in Thread : u # t => snd'[u] = snd[u])
      /\ snd' \in [Thread -> CapId \cup Identity \cup {None}]
  BY <1>3 DEF CapInv, TypeInv
<1>8. k'.utcb[t] = None /\ \A u \in Thread : u # t => k'.utcb[u] = k.utcb[u]
  BY <1>1, <1>2 DEF KernelType
<1> HIDE DEF p, got, sent
<1>9. \A q \in Pd, o \in CapId :
        /\ Sends(snd', q, o) = Sends(snd, q, o) \ {t}
        /\ t \in Sends(snd, q, o) <=> q = p /\ o = sent
        /\ Pends(k', pc', q, o) = Pends(k, pc, q, o) \ {t}
        /\ t \in Pends(k, pc, q, o) <=> q = p /\ o = got
        /\ Acks(k', pc', q, o) = Acks(k, pc, q, o) \ {t}
        /\ t \in Acks(k, pc, q, o) <=> q = p /\ o = got
        /\ Busy(pc', q) = Busy(pc, q) \ {t}
        /\ t \in Busy(pc, q) <=> q = p
  <2> SUFFICES ASSUME NEW q \in Pd, NEW o \in CapId
               PROVE  /\ Sends(snd', q, o) = Sends(snd, q, o) \ {t}
                      /\ t \in Sends(snd, q, o) <=> q = p /\ o = sent
                      /\ Pends(k', pc', q, o) = Pends(k, pc, q, o) \ {t}
                      /\ t \in Pends(k, pc, q, o) <=> q = p /\ o = got
                      /\ Acks(k', pc', q, o) = Acks(k, pc, q, o) \ {t}
                      /\ t \in Acks(k, pc, q, o) <=> q = p /\ o = got
                      /\ Busy(pc', q) = Busy(pc, q) \ {t}
                      /\ t \in Busy(pc, q) <=> q = p
    OBVIOUS
  <2>1. Sends(snd', q, o) = Sends(snd, q, o) \ {t} /\ (t \in Sends(snd, q, o) <=> q = p /\ o = sent)
    BY <1>3, <1>7 DEF Sends, Threads, p, sent
  <2>2. Pends(k', pc', q, o) = Pends(k, pc, q, o) \ {t}
        /\ (t \in Pends(k, pc, q, o) <=> q = p /\ o = got)
    BY <1>6, <1>8 DEF Pends, Threads, p, got
  <2>3. Acks(k', pc', q, o) = Acks(k, pc, q, o) \ {t}
        /\ (t \in Acks(k, pc, q, o) <=> q = p /\ o = got)
    BY <1>3, <1>6, <1>8 DEF Acks, Threads, p, got
  <2>4. Busy(pc', q) = Busy(pc, q) \ {t} /\ (t \in Busy(pc, q) <=> q = p)
    BY <1>6 DEF Busy, Threads, p
  <2>5. QED
    BY <2>1, <2>2, <2>3, <2>4
<1>10. ASSUME NEW q \in Pd, NEW o \in CapId
       PROVE  /\ copies'[q][o] + Cardinality(Sends(snd', q, o)) + Cardinality(Busy(pc', q))
                   <= MaxCopies[q] + 2 * Cardinality(Thread)
              /\ counter[q][o] = copies'[q][o] + Cardinality(Sends(snd', q, o))
                                   + Cardinality(Acks(k', pc', q, o))
              /\ k'.inUtcbs[q][o] = Cardinality(Pends(k', pc', q, o))
              /\ copies'[q][o] > 0 <=> copies[q][o] > 0 \/ (q = p /\ o \in {sent, got})
  <2> DEFINE a == Cardinality(Acks(k, pc, q, o))
             b == Cardinality(Busy(pc, q))
             c == Cardinality(Sends(snd, q, o))
             d == Cardinality(Pends(k, pc, q, o))
             m == 2 * Cardinality(Thread)
             e1 == One(q = p /\ o = sent)
             e2 == One(q = p /\ o = got)
             e3 == One(q = p)
             n == copies[q][o]
  <2>1. /\ IsFiniteSet(Acks(k, pc, q, o)) /\ IsFiniteSet(Busy(pc, q))
        /\ IsFiniteSet(Sends(snd, q, o)) /\ IsFiniteSet(Pends(k, pc, q, o))
    BY ThreadsFinite DEF Acks, Busy, Sends, Pends
  <2>2. /\ One(t \in Sends(snd, q, o)) = e1 /\ One(t \in Acks(k, pc, q, o)) = e2
        /\ One(t \in Pends(k, pc, q, o)) = e2 /\ One(t \in Busy(pc, q)) = e3
    BY <1>9 DEF One
  <2>3. Cardinality(Sends(snd', q, o)) = c - e1 /\ c \in Nat
    <3>1. /\ Cardinality(Sends(snd, q, o) \ {t}) = Cardinality(Sends(snd, q, o)) - One(t \in Sends(snd, q, o))
          /\ Cardinality(Sends(snd, q, o)) \in Nat
      BY <2>1, CountWithout
    <3>2. Sends(snd', q, o) = Sends(snd, q, o) \ {t}
      BY <1>9
    <3>3. QED
      BY <2>2, <3>1, <3>2
  <2>4. Cardinality(Acks(k', pc', q, o)) = a - e2 /\ a \in Nat
    <3>1. /\ Cardinality(Acks(k, pc, q, o) \ {t}) = Cardinality(Acks(k, pc, q, o)) - One(t \in Acks(k, pc, q, o))
          /\ Cardinality(Acks(k, pc, q, o)) \in Nat
      BY <2>1, CountWithout
    <3>2. Acks(k', pc', q, o) = Acks(k, pc, q, o) \ {t}
      BY <1>9
    <3>3. QED
      BY <2>2, <3>1, <3>2
  <2>5. Cardinality(Pends(k', pc', q, o)) = d - e2 /\ d \in Nat
    <3>1. /\ Cardinality(Pends(k, pc, q, o) \ {t}) = Cardinality(Pends(k, pc, q, o)) - One(t \in Pends(k, pc, q, o))
          /\ Cardinality(Pends(k, pc, q, o)) \in Nat
      BY <2>1, CountWithout
    <3>2. Pends(k', pc', q, o) = Pends(k, pc, q, o) \ {t}
      BY <1>9
    <3>3. QED
      BY <2>2, <3>1, <3>2
  <2>6. Cardinality(Busy(pc', q)) = b - e3 /\ b \in Nat
    <3>1. /\ Cardinality(Busy(pc, q) \ {t}) = Cardinality(Busy(pc, q)) - One(t \in Busy(pc, q))
          /\ Cardinality(Busy(pc, q)) \in Nat
      BY <2>1, CountWithout
    <3>2. Busy(pc', q) = Busy(pc, q) \ {t}
      BY <1>9
    <3>3. QED
      BY <2>2, <3>1, <3>2
  <2>7. e1 \in {0, 1} /\ e2 \in {0, 1} /\ e3 \in {0, 1} /\ e2 <= e3
        /\ (e1 = 1 <=> q = p /\ o = sent) /\ (e2 = 1 <=> q = p /\ o = got)
    BY DEF One
  <2>8. counter[q][o] = n + c + a /\ n + c + b <= MaxCopies[q] + m /\ n \in Nat
        /\ MaxCopies[q] \in Nat /\ m \in Nat
    BY Numbers
  <2>9. k'.inUtcbs[q][o] = d - e2 /\ copies'[q][o] = n + e1 + e2
    BY <1>1, <1>2, <1>4 DEF UtcbsCounted
  <2> HIDE DEF a, b, c, d, e1, e2, e3, m, n
  <2>10. (n + e1 + e2) + (c - e1) + (b - e3) <= MaxCopies[q] + m
    BY <2>3, <2>6, <2>7, <2>8
  <2>11. n + c + a = (n + e1 + e2) + (c - e1) + (a - e2)
    BY <2>3, <2>4, <2>7, <2>8
  <2>12. n + e1 + e2 > 0 <=> n > 0 \/ e1 = 1 \/ e2 = 1
    BY <2>7, <2>8
  <2>13. copies'[q][o] > 0 <=> n > 0 \/ (q = p /\ o \in {sent, got})
    BY <2>7, <2>9, <2>12
  <2>14. copies'[q][o] + Cardinality(Sends(snd', q, o)) + Cardinality(Busy(pc', q)) <= MaxCopies[q] + m
    BY <2>3, <2>6, <2>9, <2>10
  <2>15. counter[q][o] = copies'[q][o] + Cardinality(Sends(snd', q, o))
                           + Cardinality(Acks(k', pc', q, o))
    BY <2>3, <2>4, <2>8, <2>9, <2>11
  <2>16. k'.inUtcbs[q][o] = Cardinality(Pends(k', pc', q, o))
    BY <2>5, <2>9
  <2>17. QED
    BY <2>13, <2>14, <2>15, <2>16 DEF m, n
<1>11. peer' \in [Thread -> Thread \cup {None}]
       /\ (\A u \in Thread : u # t => peer'[u] = peer[u])
       /\ (t \in Server => peer'[t] = peer[t])
  BY DEF CapInv, TypeInv
<1>12. TypeInv'
  BY <1>5, <1>6, <1>7, <1>11 DEF CapInv, TypeInv
<1>13. CallsMatch'
  <2>1. \A v \in Server : peer[v] # None => peer[v] # t
    BY DEF CapInv, CallsMatch
  <2>2. \A v \in Server : v \in Thread
    BY CapabilityAssumption
  <2>3. \A v \in Server : /\ pc'[v] \notin {"send", "queued", "called"}
                          /\ peer'[v] # None => /\ peer'[v] \in Client /\ pc'[peer'[v]] = "called"
                                                /\ peer'[peer'[v]] = v
    <3> TAKE v \in Server
    <3>1. peer'[v] = peer[v]
      BY <1>11, <2>2
    <3>2. peer[v] # None => peer[v] \in Client /\ pc[peer[v]] = "called" /\ peer[peer[v]] = v
          /\ peer[v] # t /\ peer[v] \in Thread
      BY <2>1 DEF CapInv, CallsMatch, Client
    <3>3. QED
      BY <1>6, <1>11, <2>2, <3>1, <3>2 DEF CapInv, CallsMatch
  <2>4. \A c \in Client : /\ pc'[c] \notin {"reply", "wait"}
                          /\ pc'[c] \in {"send", "queued", "called", "upgrade"} => peer'[c] \in Server
    BY <1>6, <1>11 DEF CapInv, CallsMatch, Client
  <2>5. \A u \in Thread : /\ snd'[u] # None => pc'[u] \notin {"run", "delete"}
                          /\ PdOf[u] = Core => /\ pc'[u] \notin {"upgrade", "ack", "delete"}
                                               /\ snd'[u] \in Identity \cup {None}
    BY <1>6, <1>7 DEF CapInv, CallsMatch
  <2>6. \A u \in User : snd'[u] \in CapId \cup {None}
    BY <1>7, PdOfUser DEF CapInv, CallsMatch
  <2>7. QED
    BY <2>3, <2>4, <2>5, <2>6 DEF CallsMatch
<1>14. DyingInv'
  <2>1. \A u \in User : u \in Thread
    BY PdOfUser
  <2>2. QED
    BY <1>6, <2>1 DEF CapInv, DyingInv
<1>15. Bounded(pc', copies', snd')
  BY <1>10 DEF Bounded
<1>16. SlotsReady(k', pc')
  BY <1>1, <1>2, <1>6, <1>8, PdOfUser DEF SlotsReady
<1>17. UtcbsCounted(k', pc')
  <2>1. \A q \in Pd, o \in CapId : Pends(k', pc', q, o) # {} => k.ref[q][o] # None
    BY <1>1, <1>9 DEF UtcbsCounted
  <2> SUFFICES ASSUME NEW q \in Pd, NEW o \in CapId
               PROVE  /\ k'.inUtcbs[q][o] = Cardinality(Pends(k', pc', q, o))
                      /\ Pends(k', pc', q, o) # {} => k'.ref[q][o] # None
    BY DEF UtcbsCounted
  <2>2. k'.ref[q][o] = k.ref[q][o]
    BY <1>2
  <2>3. k'.inUtcbs[q][o] = Cardinality(Pends(k', pc', q, o))
    BY <1>10
  <2>4. QED
    BY <2>1, <2>2, <2>3
<1>18. ObjectsCounted(k', pc', counter, copies', snd')
  <2>1. ASSUME NEW q \in Pd, NEW o \in CapId, copies'[q][o] > 0 \/ Sends(snd', q, o) # {}
        PROVE  k.ref[q][o] # None
    <3>1. copies[q][o] > 0 \/ Sends(snd, q, o) # {} \/ Pends(k, pc, q, o) # {}
      BY <1>9, <1>10, <2>1
    <3>2. QED
      BY <1>1, <3>1 DEF ObjectsCounted, UtcbsCounted
  <2> SUFFICES ASSUME NEW q \in Pd, NEW o \in CapId
               PROVE  /\ counter[q][o] = copies'[q][o] + Cardinality(Sends(snd', q, o))
                                           + Cardinality(Acks(k', pc', q, o))
                      /\ copies'[q][o] > 0 \/ Sends(snd', q, o) # {} => k'.ref[q][o] # None
    BY DEF ObjectsCounted
  <2>2. k'.ref[q][o] = k.ref[q][o]
    BY <1>2
  <2>3. counter[q][o] = copies'[q][o] + Cardinality(Sends(snd', q, o))
                          + Cardinality(Acks(k', pc', q, o))
    BY <1>10
  <2>4. QED
    BY <2>1, <2>2, <2>3
<1>19. RefsUsed(k', pc', copies', snd', dying)
  <2> SUFFICES ASSUME NEW q \in Pd, NEW o \in CapId, k.ref[q][o] # None
               PROVE  \/ copies'[q][o] > 0 \/ Sends(snd', q, o) # {}
                      \/ Pends(k', pc', q, o) # {} \/ dying[q] = o
    BY <1>2 DEF RefsUsed
  <2>1. copies[q][o] > 0 \/ Sends(snd, q, o) # {} \/ Pends(k, pc, q, o) # {} \/ dying[q] = o
    BY <1>1 DEF RefsUsed
  <2>2. CASE q = p /\ o \in {sent, got}
    BY <1>10, <2>2
  <2>3. CASE ~(q = p /\ o \in {sent, got})
    <3>1. t \notin Sends(snd, q, o) /\ t \notin Pends(k, pc, q, o)
      BY <1>9, <2>3
    <3>2. Sends(snd', q, o) = Sends(snd, q, o) \ {t} /\ Pends(k', pc', q, o) = Pends(k, pc, q, o) \ {t}
      BY <1>9
    <3>3. copies[q][o] > 0 => copies'[q][o] > 0
      BY <1>10
    <3>4. QED
      BY <2>1, <3>1, <3>2, <3>3
  <2>4. QED
    BY <2>2, <2>3
<1>20. RefsUnique(k') /\ SlabCounted(k', size)
  <2>1. \A q : Refs(k', q) = Refs(k, q)
    BY <1>2 DEF Refs
  <2>2. QED
    BY <1>1, <1>2, <2>1 DEF RefsUnique, SlabCounted
<1>21. SpaceInv(k', pc', counter, copies', snd', dying, size)
  BY <1>2, <1>16, <1>17, <1>18, <1>19, <1>20 DEF SpaceInv
<1>22. QED
  BY <1>12, <1>13, <1>14, <1>15, <1>21 DEF CapInv

LEMMA ImportNothingCapInv ==
  ASSUME CapInv, NEW t \in Thread, ImportNothing(t)
  PROVE  CapInv'
<1>1. /\ pc[t] = "import" /\ k.utcb[t] = None /\ ReleaseMsgs(t, None)
      /\ pc' = [pc EXCEPT ![t] = "run"]
      /\ peer' = IF t \in Server THEN peer ELSE [peer EXCEPT ![t] = None]
      /\ UNCHANGED <<object, created, k, counter, dying, size>>
  BY DEF ImportNothing, objectVars
<1>2. k \in KernelType /\ None \notin CapId
  BY CapabilityAssumption DEF CapInv, SpaceInv
<1>3. UtcbCleared(k', t)
  <2>1. k.utcb = [k.utcb EXCEPT ![t] = None]
    BY <1>1, <1>2 DEF KernelType
  <2>2. \A p \in Pd, id \in CapId : k.inUtcbs[p][id] = k.inUtcbs[p][id] - One(p = PdOf[t] /\ id = k.utcb[t])
    <3> SUFFICES ASSUME NEW p \in Pd, NEW id \in CapId
                 PROVE  k.inUtcbs[p][id] = k.inUtcbs[p][id] - One(p = PdOf[t] /\ id = k.utcb[t])
      OBVIOUS
    <3>1. k.inUtcbs[p][id] \in Nat
      BY <1>2 DEF KernelType
    <3>2. One(p = PdOf[t] /\ id = k.utcb[t]) = 0
      BY <1>1, <1>2 DEF One
    <3> DEFINE n == k.inUtcbs[p][id]
               e == One(p = PdOf[t] /\ id = k.utcb[t])
    <3> HIDE DEF n, e
    <3>3. n = n - e
      BY <3>1, <3>2 DEF n, e
    <3>4. QED
      BY <3>3 DEF n, e
  <2>3. QED
    BY <1>1, <1>2, <2>1, <2>2 DEF UtcbCleared
<1>4. QED
  BY <1>1, <1>3, Released

LEMMA AckCapInv ==
  ASSUME CapInv, NEW t \in User, AckCap(t)
  PROVE  CapInv'
<1> DEFINE p == PdOf[t]
           id == k.utcb[t]
           n == k.inUtcbs[p][id]
<1>1. /\ pc[t] = "ack" /\ ReleaseMsgs(t, id)
      /\ k' = [k EXCEPT !.inUtcbs[p][id] = IF k.ref[p][id] = None THEN @ ELSE @ - 1,
                        !.utcb[t] = None]
      /\ pc' = [pc EXCEPT ![t] = "run"]
      /\ peer' = IF t \in Server THEN peer ELSE [peer EXCEPT ![t] = None]
      /\ UNCHANGED <<object, created, counter, dying, size>>
  BY DEF AckCap, objectVars
<1>2. k \in KernelType /\ UtcbsCounted(k, pc) /\ None \notin CapId
  BY CapabilityAssumption DEF CapInv, SpaceInv
<1>3. p \in Pd /\ t \in Thread /\ t \in Threads(p)
  BY PdOfUser DEF Threads
<1>4. id \in CapId \cup {None}
  BY <1>2, <1>3 DEF KernelType
<1>5. UtcbCleared(k', t)
  <2>1. CASE id \in CapId
    <3>1. t \in Pends(k, pc, p, id)
      BY <1>1, <1>3 DEF Pends
    <3>2. k.ref[p][id] # None /\ n \in Nat /\ n > 0
      <4>1. n = Cardinality(Pends(k, pc, p, id)) /\ k.ref[p][id] # None
        BY <1>2, <1>3, <2>1, <3>1 DEF UtcbsCounted
      <4>2. Cardinality(Pends(k, pc, p, id)) \in Nat /\ Cardinality(Pends(k, pc, p, id)) > 0
        BY <3>1, Bounds
      <4>3. QED
        BY <4>1, <4>2
    <3>3. k' = [ref |-> k.ref, inUtcbs |-> [k.inUtcbs EXCEPT ![p][id] = n - 1], slab |-> k.slab,
                slot |-> k.slot, utcb |-> [k.utcb EXCEPT ![t] = None]]
      BY <1>1, <1>2, <1>3, <2>1, <3>2 DEF KernelType
    <3>4. n - 1 \in Nat
      BY <3>2
    <3>5. /\ k.inUtcbs \in [Pd -> [CapId -> Nat]]
          /\ [k.inUtcbs EXCEPT ![p][id] = n - 1] \in [Pd -> [CapId -> Nat]]
      BY <1>2, <1>3, <2>1, <3>4 DEF KernelType
    <3>6. k' \in KernelType
      BY <1>2, <3>3, <3>5 DEF KernelType
    <3>7. \A q \in Pd, o \in CapId : k'.inUtcbs[q][o] = k.inUtcbs[q][o] - One(q = p /\ o = id)
      <4> SUFFICES ASSUME NEW q \in Pd, NEW o \in CapId
                   PROVE  k'.inUtcbs[q][o] = k.inUtcbs[q][o] - One(q = p /\ o = id)
        OBVIOUS
      <4>1. k'.inUtcbs[q][o] = IF q = p /\ o = id THEN n - 1 ELSE k.inUtcbs[q][o]
        BY <1>3, <2>1, <3>3, <3>5
      <4>2. k.inUtcbs[q][o] \in Nat
        BY <3>5
      <4>3. One(q = p /\ o = id) = IF q = p /\ o = id THEN 1 ELSE 0
        BY DEF One
      <4> DEFINE e == One(q = p /\ o = id)
                 x == k.inUtcbs[q][o]
                 y == k'.inUtcbs[q][o]
      <4>4. (q = p /\ o = id => e = 1 /\ y = x - 1) /\ (~(q = p /\ o = id) => e = 0 /\ y = x)
        BY <4>1, <4>3
      <4>5. x \in Nat
        BY <4>2
      <4> HIDE DEF e, x, y
      <4>6. y = x - e
        BY <4>4, <4>5
      <4>7. QED
        BY <4>6 DEF e, x, y
    <3>8. QED
      BY <3>3, <3>6, <3>7 DEF UtcbCleared
  <2>2. CASE id = None
    <3>1. k.inUtcbs \in [Pd -> [CapId -> Nat]]
      BY <1>2 DEF KernelType
    <3> DEFINE w == IF k.ref[p][id] = None THEN k.inUtcbs[p][id] ELSE k.inUtcbs[p][id] - 1
    <3>2. k' = [k EXCEPT !.inUtcbs[p][id] = w, !.utcb[t] = None]
      BY <1>1
    <3> HIDE DEF w
    <3>3. [k.inUtcbs EXCEPT ![p][id] = w] = k.inUtcbs
      <4>1. [k.inUtcbs[p] EXCEPT ![id] = w] = k.inUtcbs[p]
        BY <1>2, <1>3, <2>2, <3>1
      <4>2. QED
        BY <1>3, <3>1, <4>1
    <3>4. k' = [ref |-> k.ref, inUtcbs |-> [k.inUtcbs EXCEPT ![p][id] = w], slab |-> k.slab,
                slot |-> k.slot, utcb |-> [k.utcb EXCEPT ![t] = None]]
      BY <1>2, <3>2 DEF KernelType
    <3>5. k' = [ref |-> k.ref, inUtcbs |-> k.inUtcbs, slab |-> k.slab,
                slot |-> k.slot, utcb |-> [k.utcb EXCEPT ![t] = None]]
      BY <3>3, <3>4
    <3>6. k' \in KernelType
      BY <1>2, <3>5 DEF KernelType
    <3>7. \A q \in Pd, o \in CapId : k'.inUtcbs[q][o] = k.inUtcbs[q][o] - One(q = p /\ o = id)
      <4> SUFFICES ASSUME NEW q \in Pd, NEW o \in CapId
                   PROVE  k'.inUtcbs[q][o] = k.inUtcbs[q][o] - One(q = p /\ o = id)
        OBVIOUS
      <4>1. One(q = p /\ o = id) = 0
        BY <1>2, <2>2 DEF One
      <4>2. k'.inUtcbs[q][o] = k.inUtcbs[q][o] /\ k.inUtcbs[q][o] \in Nat
        BY <3>1, <3>5
      <4> DEFINE e == One(q = p /\ o = id)
                 x == k.inUtcbs[q][o]
      <4>3. e = 0 /\ x \in Nat /\ k'.inUtcbs[q][o] = x
        BY <4>1, <4>2
      <4> HIDE DEF e, x
      <4>4. k'.inUtcbs[q][o] = x - e
        BY <4>3
      <4>5. QED
        BY <4>4 DEF e, x
    <3>8. QED
      BY <3>5, <3>6, <3>7 DEF UtcbCleared
  <2>3. QED
    BY <1>4, <2>1, <2>2
<1>6. QED
  BY <1>1, <1>3, <1>5, Released

LEMMA SendRequestCapInv ==
  ASSUME CapInv, NEW c \in Thread, SendRequest(c)
  PROVE  CapInv'
<1> DEFINE s == peer[c]
           k1 == Alloc(c, k)
<1>1. pc[c] = "send" /\ UNCHANGED <<object, created, counter, copies, snd, dying, size>>
  BY DEF SendRequest, objectVars
<1>2. c \in Client /\ s \in Server /\ s \in Thread /\ c # s /\ c \in User
  <2>1. c \in Client
    BY <1>1 DEF CapInv, CallsMatch, Client
  <2>2. s \in Server
    BY <1>1, <2>1 DEF CapInv, CallsMatch
  <2>3. QED
    BY <2>1, <2>2, CapabilityAssumption DEF Client, User
<1>3. pc \in [Thread -> Places] /\ object \subseteq Identity
      /\ SpaceInv(k, pc, counter, copies, snd, dying, size)
  BY DEF CapInv, TypeInv
<1>4. {"called", "import", "queued", "upgrade"} \subseteq Places
  BY DEF Places
<1>5. CanAlloc(c, k) => SpaceInv(k1, pc, counter, copies, snd, dying, size) /\ c \in k1.slot
  BY <1>2, <1>3, Allocated
<1> HIDE DEF k1, s
<1>6. \A v \in Server : peer[v] # None => /\ peer[v] \in Client /\ peer[v] \in Thread
                                          /\ pc[peer[v]] = "called" /\ peer[peer[v]] = v /\ peer[v] # c
                                          /\ peer[v] # s
  BY <1>1, <1>2 DEF CapInv, CallsMatch, Client
<1>7. CASE /\ CanAlloc(c, k) /\ pc[s] = "wait"
           /\ \E new \in NewIds(c, s, k1) : k' = CopyMsg(k1, c, s, new)
           /\ peer' = [peer EXCEPT ![s] = c]
           /\ pc' = [pc EXCEPT ![c] = "called", ![s] = "import"]
  <2> DEFINE now == [pc EXCEPT ![c] = "called"]
  <2>1. now \in [Thread -> Places] /\ now[s] = "wait" /\ pc' = [now EXCEPT ![s] = "import"]
    BY <1>2, <1>3, <1>4, <1>7
  <2>2. SpaceInv(k1, now, counter, copies, snd, dying, size)
    BY <1>1, <1>3, <1>4, <1>5, <1>7, Moved
  <2> HIDE DEF now
  <2>3. PICK new \in NewIds(c, s, k1) : k' = CopyMsg(k1, c, s, new)
    BY <1>7
  <2>4. SpaceInv(k', pc', counter, copies, snd, dying, size)
    BY <1>2, <1>3, <2>1, <2>2, <2>3, Delivered
  <2>5. /\ pc'[c] = "called" /\ pc'[s] = "import"
        /\ \A u \in Thread : u # c /\ u # s => pc'[u] = pc[u]
        /\ pc' \in [Thread -> Places]
    BY <1>2, <1>3, <1>4, <1>7
  <2>6. /\ peer'[s] = c /\ \A u \in Thread : u # s => peer'[u] = peer[u]
        /\ peer' \in [Thread -> Thread \cup {None}]
    BY <1>2, <1>7 DEF CapInv, TypeInv
  <2>7. TypeInv'
    BY <1>1, <2>5, <2>6 DEF CapInv, TypeInv
  <2>8. Bounded(pc', copies, snd)
    <3>1. \A q : Busy(pc', q) = Busy(pc, q)
      BY <1>1, <1>7, <2>5 DEF Busy, Threads
    <3>2. QED
      BY <3>1 DEF CapInv, Bounded
  <2>9. DyingInv'
    <3>1. \A u \in User : u \in Thread
      BY PdOfUser
    <3>2. QED
      BY <1>1, <2>5, <3>1 DEF CapInv, DyingInv
  <2>10. CallsMatch'
    <3>1. \A v \in Server : /\ pc'[v] \notin {"send", "queued", "called"}
                            /\ peer'[v] # None => /\ peer'[v] \in Client /\ pc'[peer'[v]] = "called"
                                                  /\ peer'[peer'[v]] = v
      <4> TAKE v \in Server
      <4>1. v \in Thread /\ v # c
        BY <1>2, CapabilityAssumption DEF Client
      <4>2. pc'[v] \notin {"send", "queued", "called"}
        BY <2>5, <4>1 DEF CapInv, CallsMatch
      <4>3. CASE v = s
        BY <1>2, <2>5, <2>6, <4>2, <4>3 DEF s
      <4>4. CASE v # s
        BY <1>6, <2>5, <2>6, <4>1, <4>2, <4>4
      <4>5. QED
        BY <4>3, <4>4
    <3>2. \A x \in Client : /\ pc'[x] \notin {"reply", "wait"}
                            /\ pc'[x] \in {"send", "queued", "called", "upgrade"} => peer'[x] \in Server
      BY <1>2, <2>5, <2>6 DEF CapInv, CallsMatch, Client, s
    <3>3. \A u \in Thread : /\ snd[u] # None => pc'[u] \notin {"run", "delete"}
                            /\ PdOf[u] = Core => /\ pc'[u] \notin {"upgrade", "ack", "delete"}
                                                 /\ snd[u] \in Identity \cup {None}
      BY <2>5 DEF CapInv, CallsMatch
    <3>4. QED
      BY <1>1, <3>1, <3>2, <3>3 DEF CapInv, CallsMatch
  <2>11. QED
    BY <1>1, <2>4, <2>7, <2>8, <2>9, <2>10 DEF CapInv
<1>8. ASSUME NEW place \in {"queued", "upgrade"}, pc' = [pc EXCEPT ![c] = place], peer' = peer,
             SpaceInv(k', pc', counter, copies, snd, dying, size)
      PROVE  CapInv'
  <2>1. /\ pc'[c] = place /\ \A u \in Thread : u # c => pc'[u] = pc[u]
        /\ pc' \in [Thread -> Places]
    BY <1>3, <1>4, <1>8
  <2>2. TypeInv'
    BY <1>1, <1>8, <2>1 DEF CapInv, TypeInv
  <2>3. Bounded(pc', copies, snd)
    <3>1. \A q : Busy(pc', q) = Busy(pc, q)
      BY <1>1, <2>1 DEF Busy, Threads
    <3>2. QED
      BY <3>1 DEF CapInv, Bounded
  <2>4. DyingInv'
    <3>1. \A u \in User : u \in Thread
      BY PdOfUser
    <3>2. QED
      BY <1>1, <2>1, <3>1 DEF CapInv, DyingInv
  <2>5. CallsMatch'
    <3>1. \A v \in Server : /\ pc'[v] \notin {"send", "queued", "called"}
                            /\ peer[v] # None => /\ peer[v] \in Client /\ pc'[peer[v]] = "called"
                                                 /\ peer[peer[v]] = v
      <4> TAKE v \in Server
      <4>1. v \in Thread /\ v # c
        BY <1>2, CapabilityAssumption DEF Client
      <4>2. QED
        BY <1>6, <2>1, <4>1 DEF CapInv, CallsMatch
    <3>2. \A x \in Client : /\ pc'[x] \notin {"reply", "wait"}
                            /\ pc'[x] \in {"send", "queued", "called", "upgrade"} => peer[x] \in Server
      BY <1>2, <2>1 DEF CapInv, CallsMatch, Client, s
    <3>3. PdOf[c] # Core
      BY <1>2, PdOfUser
    <3>4. \A u \in Thread : /\ snd[u] # None => pc'[u] \notin {"run", "delete"}
                            /\ PdOf[u] = Core => /\ pc'[u] \notin {"upgrade", "ack", "delete"}
                                                 /\ snd[u] \in Identity \cup {None}
      BY <2>1, <3>3 DEF CapInv, CallsMatch
    <3>5. QED
      BY <1>1, <1>8, <3>1, <3>2, <3>4 DEF CapInv, CallsMatch
  <2>6. QED
    BY <1>1, <1>8, <2>2, <2>3, <2>4, <2>5 DEF CapInv
<1>9. CASE CanAlloc(c, k) /\ k' = k1 /\ pc' = [pc EXCEPT ![c] = "queued"] /\ peer' = peer
  <2>1. SpaceInv(k1, [pc EXCEPT ![c] = "queued"], counter, copies, snd, dying, size)
    BY <1>1, <1>3, <1>4, <1>5, <1>9, Moved
  <2>2. QED
    BY <1>8, <1>9, <2>1
<1>10. CASE ~CanAlloc(c, k) /\ pc' = [pc EXCEPT ![c] = "upgrade"] /\ k' = k /\ peer' = peer
  <2>1. SpaceInv(k, [pc EXCEPT ![c] = "upgrade"], counter, copies, snd, dying, size)
    BY <1>1, <1>3, <1>4, Moved
  <2>2. QED
    BY <1>8, <1>10, <2>1
<1>11. QED
  BY <1>7, <1>9, <1>10 DEF SendRequest, s, k1

\* Ipc_node::reply
LEMMA RepliedInv ==
  ASSUME CapInv, NEW s \in Server, pc[s] = "reply", NEW new \in NewReplyIds(s)
  PROVE  /\ SpaceInv(Replied(s, new), ReplyDone(s), counter, copies, snd, dying, size)
         /\ ReplyDone(s) \in [Thread -> Places]
         /\ \A u \in Thread : ReplyDone(s)[u] = IF u = peer[s] THEN "import" ELSE pc[u]
<1>1. pc \in [Thread -> Places] /\ object \subseteq Identity /\ "import" \in Places
      /\ SpaceInv(k, pc, counter, copies, snd, dying, size) /\ s \in Thread /\ None \notin Thread
  BY CapabilityAssumption DEF CapInv, TypeInv, Places
<1>2. CASE peer[s] = None
  BY <1>1, <1>2 DEF Replied, ReplyDone
<1>3. CASE peer[s] # None
  <2> DEFINE x == peer[s]
  <2>1. x \in Thread /\ pc[x] = "called"
    BY <1>3 DEF CapInv, CallsMatch, Client
  <2>2. new \in NewIds(s, x, k)
    BY <1>3 DEF NewReplyIds
  <2> HIDE DEF x
  <2>3. SpaceInv(CopyMsg(k, s, x, new), [pc EXCEPT ![x] = "import"], counter, copies, snd, dying, size)
    BY <1>1, <2>1, <2>2, Delivered
  <2>4. Replied(s, new) = CopyMsg(k, s, x, new) /\ ReplyDone(s) = [pc EXCEPT ![x] = "import"]
    BY <1>3 DEF Replied, ReplyDone, x
  <2>5. [pc EXCEPT ![x] = "import"] \in [Thread -> Places]
        /\ \A u \in Thread : [pc EXCEPT ![x] = "import"][u] = IF u = x THEN "import" ELSE pc[u]
    BY <1>1, <2>1
  <2>6. QED
    BY <2>3, <2>4, <2>5 DEF x
<1>4. QED
  BY <1>2, <1>3

LEMMA SendReplyCapInv ==
  ASSUME CapInv, NEW s \in Thread, SendReply(s)
  PROVE  CapInv'
<1>1. pc[s] = "reply" /\ UNCHANGED <<object, created, counter, copies, snd, dying, size>>
  BY DEF SendReply, objectVars
<1>2. s \in Server
  BY <1>1 DEF CapInv, CallsMatch, Client
<1>3. PICK new \in NewReplyIds(s) :
        LET k1 == Replied(s, new)
            k2 == Alloc(s, k1)
        IN  \/ /\ CanAlloc(s, k1)
               /\ \E c \in Queued(s) :
                    /\ \E id \in NewIds(c, s, k2) : k' = CopyMsg(k2, c, s, id)
                    /\ peer' = [peer EXCEPT ![s] = c]
                    /\ pc' = [ReplyDone(s) EXCEPT ![c] = "called", ![s] = "import"]
            \/ /\ CanAlloc(s, k1)
               /\ k' = k2
               /\ peer' = [peer EXCEPT ![s] = None]
               /\ pc' = [ReplyDone(s) EXCEPT ![s] = "wait"]
            \/ /\ ~CanAlloc(s, k1)
               /\ k' = k1
               /\ peer' = [peer EXCEPT ![s] = None]
               /\ pc' = [ReplyDone(s) EXCEPT ![s] = "upgrade"]
  BY DEF SendReply
<1> DEFINE k1 == Replied(s, new)
           k2 == Alloc(s, k1)
           done == ReplyDone(s)
           x == peer[s]
<1>4. /\ SpaceInv(k1, done, counter, copies, snd, dying, size)
      /\ done \in [Thread -> Places]
      /\ \A u \in Thread : done[u] = IF u = x THEN "import" ELSE pc[u]
  BY <1>1, <1>2, RepliedInv
<1> HIDE DEF k1, done
<1>5. CanAlloc(s, k1) => /\ SpaceInv(k2, done, counter, copies, snd, dying, size)
                         /\ s \in User => s \in k2.slot
  BY <1>4, Allocated
<1> HIDE DEF k2
<1>6. x # s /\ (x # None => x \in Client /\ x \in Thread /\ pc[x] = "called" /\ peer[x] = s)
  BY <1>1, <1>2, CapabilityAssumption DEF CapInv, CallsMatch, Client
<1>7. done[s] = "reply" /\ object \subseteq Identity
      /\ {"called", "import", "wait", "upgrade"} \subseteq Places
  BY <1>1, <1>4, <1>6 DEF CapInv, TypeInv, Places
<1>8. \A v \in Server : v # s /\ peer[v] # None =>
        /\ peer[v] \in Client /\ peer[v] \in Thread /\ pc[peer[v]] = "called"
        /\ peer[peer[v]] = v /\ peer[v] # s /\ peer[v] # x
  BY <1>2, <1>6 DEF CapInv, CallsMatch, Client
<1> HIDE DEF x
<1>9. ASSUME NEW place \in {"import", "wait", "upgrade"}, NEW c \in Queued(s) \cup {None},
             peer' = [peer EXCEPT ![s] = c],
             pc' \in [Thread -> Places], pc'[s] = place,
             place = "upgrade" => PdOf[s] # Core,
             \A u \in Thread : u # s => pc'[u] = IF u = c THEN "called" ELSE done[u],
             SpaceInv(k', pc', counter, copies, snd, dying, size)
      PROVE  CapInv'
  <2>1. c # None => c \in Client /\ c \in Thread /\ pc[c] = "queued" /\ peer[c] = s /\ c # s /\ c # x
    BY <1>2, <1>6, <1>9 DEF Queued, Client
  <2>2. \A u \in Thread : u # s /\ u # c /\ u # x => pc'[u] = pc[u]
    BY <1>4, <1>9
  <2>3. /\ c # None => pc'[c] = "called"
        /\ x # None => pc'[x] = "import"
    BY <1>4, <1>6, <1>9, <2>1
  <2>4. peer' \in [Thread -> Thread \cup {None}] /\ peer'[s] = c
        /\ \A u \in Thread : u # s => peer'[u] = peer[u]
    BY <1>9, <2>1 DEF CapInv, TypeInv
  <2>5. TypeInv'
    BY <1>1, <1>9, <2>4 DEF CapInv, TypeInv
  <2>6. None \notin Thread /\ \A u \in Server : u \in Thread
    BY CapabilityAssumption
  <2>7. Bounded(pc', copies, snd)
    <3>1. \A u \in Thread : pc'[u] \in {"run", "delete"} <=> pc[u] \in {"run", "delete"}
      BY <1>1, <1>6, <1>9, <2>1, <2>2, <2>3, <2>6
    <3>2. \A q : Busy(pc', q) = Busy(pc, q)
      BY <3>1 DEF Busy, Threads
    <3>3. QED
      BY <3>2 DEF CapInv, Bounded
  <2>8. DyingInv'
    <3>1. \A u \in User : u \in Thread
      BY PdOfUser
    <3>2. \A u \in Thread : pc'[u] = "delete" => pc[u] = "delete"
      BY <1>9, <2>1, <2>2, <2>3, <2>6
    <3>3. QED
      BY <1>1, <3>1, <3>2 DEF CapInv, DyingInv
  <2>9. CallsMatch'
    <3>1. \A v \in Server : /\ pc'[v] \notin {"send", "queued", "called"}
                            /\ peer'[v] # None => /\ peer'[v] \in Client /\ pc'[peer'[v]] = "called"
                                                  /\ peer'[peer'[v]] = v
      <4> TAKE v \in Server
      <4>1. v \in Thread /\ v # c /\ v # x
        BY <1>6, <2>1, <2>6 DEF Client
      <4>2. CASE v = s
        BY <1>9, <2>1, <2>3, <2>4, <4>2
      <4>3. CASE v # s
        <5>1. pc'[v] = pc[v] /\ peer'[v] = peer[v]
          BY <2>2, <2>4, <4>1, <4>3
        <5>2. peer[v] # None => peer[v] # c
          BY <1>8, <2>1, <4>3
        <5>3. peer[v] # None => pc'[peer[v]] = "called" /\ peer'[peer[v]] = v
          BY <1>8, <2>2, <2>4, <4>3, <5>2
        <5>4. QED
          BY <1>8, <4>3, <5>1, <5>3 DEF CapInv, CallsMatch
      <4>4. QED
        BY <4>2, <4>3
    <3>2. \A y \in Client : /\ pc'[y] \notin {"reply", "wait"}
                            /\ pc'[y] \in {"send", "queued", "called", "upgrade"} => peer'[y] \in Server
      <4> TAKE y \in Client
      <4>1. y \in Thread /\ y # s /\ peer'[y] = peer[y] /\ y # None
        BY <1>2, <2>4, <2>6 DEF Client
      <4>2. CASE y = c
        BY <1>2, <2>1, <2>3, <4>1, <4>2
      <4>3. CASE y = x
        BY <2>3, <4>1, <4>3
      <4>4. CASE y # c /\ y # x
        BY <2>2, <4>1, <4>4 DEF CapInv, CallsMatch
      <4>5. QED
        BY <4>2, <4>3, <4>4
    <3>3. \A u \in Thread : snd[u] # None => pc'[u] \notin {"run", "delete"}
      BY <1>9, <2>1, <2>2, <2>3, <2>6 DEF CapInv, CallsMatch
    <3>4. \A u \in Client : u \in Thread => PdOf[u] # Core
      BY CapabilityAssumption DEF Client
    <3>5. \A u \in Thread : PdOf[u] = Core => /\ pc'[u] \notin {"upgrade", "ack", "delete"}
                                              /\ snd[u] \in Identity \cup {None}
      <4> SUFFICES ASSUME NEW u \in Thread, PdOf[u] = Core
                   PROVE  pc'[u] \notin {"upgrade", "ack", "delete"} /\ snd[u] \in Identity \cup {None}
        OBVIOUS
      <4>1. u # c /\ u # x
        BY <1>6, <2>1, <2>6, <3>4
      <4>2. QED
        BY <1>9, <2>2, <4>1 DEF CapInv, CallsMatch
    <3>6. QED
      BY <1>1, <3>1, <3>2, <3>3, <3>5 DEF CapInv, CallsMatch
  <2>10. QED
    BY <1>1, <1>9, <2>5, <2>7, <2>8, <2>9 DEF CapInv
<1>10. ASSUME CanAlloc(s, k1), NEW c \in Queued(s),
              \E id \in NewIds(c, s, k2) : k' = CopyMsg(k2, c, s, id),
              peer' = [peer EXCEPT ![s] = c],
              pc' = [done EXCEPT ![c] = "called", ![s] = "import"]
       PROVE  CapInv'
  <2> DEFINE d1 == [done EXCEPT ![c] = "called"]
             d2 == [d1 EXCEPT ![s] = "wait"]
  <2>1. c \in Thread /\ c # s /\ pc[c] = "queued" /\ c # x /\ c \in User
    BY <1>2, <1>6, CapabilityAssumption DEF Queued, Client, User
  <2>2. done[c] = "queued"
    BY <1>4, <2>1
  <2>3. c \in k2.slot
    BY <1>5, <1>10, <2>1, <2>2 DEF SpaceInv, SlotsReady
  <2>4. d1 \in [Thread -> Places] /\ d1[s] = "reply"
    BY <1>4, <1>7, <2>1
  <2>5. SpaceInv(k2, d1, counter, copies, snd, dying, size)
    BY <1>4, <1>5, <1>7, <1>10, <2>1, <2>2, <2>3, Moved
  <2>6. d2 \in [Thread -> Places] /\ d2[s] = "wait"
    BY <1>7, <2>4
  <2>7. pc' = [d2 EXCEPT ![s] = "import"] /\ pc' \in [Thread -> Places]
    BY <1>4, <1>7, <1>10, <2>1
  <2>8. /\ pc'[s] = "import"
        /\ \A u \in Thread : u # s => pc'[u] = IF u = c THEN "called" ELSE done[u]
    BY <1>4, <1>10, <2>1
  <2> HIDE DEF d1
  <2>9. SpaceInv(k2, d2, counter, copies, snd, dying, size)
    BY <1>5, <1>7, <1>10, <2>4, <2>5, Moved
  <2> HIDE DEF d2
  <2>10. PICK id \in NewIds(c, s, k2) : k' = CopyMsg(k2, c, s, id)
    BY <1>10
  <2>11. SpaceInv(k', pc', counter, copies, snd, dying, size)
    BY <1>7, <2>1, <2>6, <2>7, <2>9, <2>10, Delivered
  <2>12. QED
    BY <1>9, <1>10, <2>7, <2>8, <2>11
<1>11. CASE CanAlloc(s, k1) /\ k' = k2 /\ peer' = [peer EXCEPT ![s] = None]
            /\ pc' = [done EXCEPT ![s] = "wait"]
  <2>1. SpaceInv(k2, [done EXCEPT ![s] = "wait"], counter, copies, snd, dying, size)
    BY <1>4, <1>5, <1>7, <1>11, Moved
  <2>2. pc' \in [Thread -> Places] /\ pc'[s] = "wait" /\ None \notin Thread
        /\ \A u \in Thread : u # s => pc'[u] = done[u]
    BY <1>4, <1>7, <1>11, CapabilityAssumption
  <2>3. QED
    BY <1>9, <1>11, <2>1, <2>2
<1>12. CASE ~CanAlloc(s, k1) /\ k' = k1 /\ peer' = [peer EXCEPT ![s] = None]
            /\ pc' = [done EXCEPT ![s] = "upgrade"]
  <2>1. SpaceInv(k1, [done EXCEPT ![s] = "upgrade"], counter, copies, snd, dying, size)
    BY <1>4, <1>7, Moved
  <2>2. pc' \in [Thread -> Places] /\ pc'[s] = "upgrade" /\ None \notin Thread
        /\ \A u \in Thread : u # s => pc'[u] = done[u]
    BY <1>4, <1>7, <1>12, CapabilityAssumption
  <2>3. PdOf[s] # Core
    BY <1>12 DEF CanAlloc
  <2>4. QED
    BY <1>9, <1>12, <2>1, <2>2, <2>3
<1>13. QED
  BY <1>3, <1>10, <1>11, <1>12 DEF k1, k2, done

-----------------------------------------------------------------------------
(* Core: object identities *)

LEMMA NewObjectCapInv ==
  ASSUME CapInv, NEW t \in Thread, NEW i \in Identity, NewObject(t, i)
  PROVE  CapInv'
<1>1. /\ object' = object \cup {i} /\ created' = created \cup {i}
      /\ UNCHANGED <<k, counter, copies, snd, dying, size, peer, pc>>
  BY DEF NewObject
<1>2. TypeInv'
  BY <1>1 DEF CapInv, TypeInv
<1>3. CallsMatch' /\ DyingInv'
  BY <1>1 DEF CapInv, CallsMatch, DyingInv
<1>4. QED
  BY <1>1, <1>2, <1>3 DEF CapInv

LEMMA DestroyObjectCapInv ==
  ASSUME CapInv, NEW t \in Thread, NEW i \in Identity, DestroyObject(t, i)
  PROVE  CapInv'
<1>1. /\ object' = object \ {i}
      /\ k' = [k EXCEPT !.ref = [p \in Pd |-> [id \in CapId |-> Invalidated(k.ref[p][id], i)]]]
      /\ UNCHANGED <<created, counter, copies, snd, dying, size, peer, pc>>
  BY DEF DestroyObject
<1>2. TypeInv'
  BY <1>1 DEF CapInv, TypeInv
<1>3. CallsMatch' /\ DyingInv'
  BY <1>1 DEF CapInv, CallsMatch, DyingInv
<1>4. /\ k \in KernelType /\ SlotsReady(k, pc) /\ UtcbsCounted(k, pc)
      /\ ObjectsCounted(k, pc, counter, copies, snd) /\ RefsUsed(k, pc, copies, snd, dying)
      /\ RefsUnique(k) /\ SlabCounted(k, size)
  BY DEF CapInv, SpaceInv
<1>5. Invalid \notin Identity /\ None \notin Identity \cup {Invalid}
  BY CapabilityAssumption
<1>6. k' = [ref |-> [p \in Pd |-> [id \in CapId |-> Invalidated(k.ref[p][id], i)]],
            inUtcbs |-> k.inUtcbs, slab |-> k.slab, slot |-> k.slot, utcb |-> k.utcb]
  BY <1>1, <1>4 DEF KernelType
<1>7. /\ k'.inUtcbs = k.inUtcbs /\ k'.slab = k.slab /\ k'.slot = k.slot /\ k'.utcb = k.utcb
      /\ \A p \in Pd, id \in CapId : k'.ref[p][id] = Invalidated(k.ref[p][id], i)
  BY <1>6
<1>8. [p \in Pd |-> [id \in CapId |-> Invalidated(k.ref[p][id], i)]]
        \in [Pd -> [CapId -> Identity \cup {Invalid, None}]]
  BY <1>4 DEF KernelType, Invalidated
<1>9. k' \in KernelType
  BY <1>4, <1>6, <1>8 DEF KernelType
<1>10. \A p \in Pd, id \in CapId : /\ k'.ref[p][id] # None <=> k.ref[p][id] # None
                                   /\ k'.ref[p][id] \in Identity => k'.ref[p][id] = k.ref[p][id]
  BY <1>5, <1>7 DEF Invalidated
<1>11. \A p \in Pd, id \in CapId : /\ Pends(k', pc, p, id) = Pends(k, pc, p, id)
                                   /\ Acks(k', pc, p, id) = Acks(k, pc, p, id)
                                   /\ Refs(k', p) = Refs(k, p)
  BY <1>7, <1>10 DEF Pends, Acks, Refs
<1>12. SlotsReady(k', pc) /\ UtcbsCounted(k', pc)
  BY <1>4, <1>7, <1>10, <1>11 DEF SlotsReady, UtcbsCounted
<1>13. ObjectsCounted(k', pc, counter, copies, snd)
  BY <1>4, <1>10, <1>11 DEF ObjectsCounted
<1>14. RefsUsed(k', pc, copies, snd, dying)
  BY <1>4, <1>10, <1>11 DEF RefsUsed
<1>15. RefsUnique(k')
  BY <1>4, <1>10 DEF RefsUnique
<1>16. SlabCounted(k', size)
  <2>1. \A p \in Pd : Refs(k', p) = Refs(k, p)
    BY <1>10 DEF Refs
  <2>2. QED
    BY <1>4, <1>7, <2>1 DEF SlabCounted
<1>17. SpaceInv(k', pc, counter, copies, snd, dying, size)
  BY <1>9, <1>12, <1>13, <1>14, <1>15, <1>16 DEF SpaceInv
<1>18. QED
  BY <1>1, <1>2, <1>3, <1>17 DEF CapInv

-----------------------------------------------------------------------------
LEMMA StepCapInv ==
  ASSUME CapInv, [Next]_vars, ~wrapped'
  PROVE  CapInv'
<1>1. ASSUME NEW t \in User, UserStep(t)
      PROVE  CapInv'
  <2>1. t \in Thread /\ PdOf[t] # Core
    BY PdOfUser
  <2>2. ASSUME NEW id \in CapId, CopyCap(t, id) \/ DropCap(t, id)
        PROVE  CapInv'
    BY <2>2, CopyCapInv, DropCapInv
  <2>3. ASSUME NEW cap \in CapId \cup {None}, Reply(t, cap)
        PROVE  CapInv'
    BY <2>1, <2>3, ReplyCapInv
  <2>4. ASSUME NEW cap \in CapId \cup {None}, NEW s \in Server, Call(t, s, cap)
        PROVE  CapInv'
    BY <2>4, CallCapInv
  <2>5. QED
    BY <1>1, <2>2, <2>3, <2>4, DeleteCapInv, ImportCapInv, AckCapInv DEF UserStep
<1>2. ASSUME NEW t \in Thread \ User, CoreStep(t)
      PROVE  CapInv'
  <2>1. t \in Thread /\ PdOf[t] = Core
    BY PdOfUser
  <2>2. ASSUME NEW cap \in Identity \cup {None}, Reply(t, cap)
        PROVE  CapInv'
    BY <2>1, <2>2, ReplyCapInv
  <2>3. QED
    BY <1>2, <2>1, <2>2, NewObjectCapInv, DestroyObjectCapInv DEF CoreStep
<1>3. ASSUME NEW t \in Thread, CallStep(t)
      PROVE  CapInv'
  BY <1>3, SendRequestCapInv, SendReplyCapInv, UpgradeCapInv, ImportNothingCapInv DEF CallStep
<1>4. CASE UNCHANGED vars
  <2>1. UNCHANGED <<object, created, k, counter, copies, snd, dying, size, peer, pc>>
    BY <1>4 DEF vars
  <2>2. TypeInv' /\ CallsMatch' /\ DyingInv'
    BY <2>1 DEF CapInv, TypeInv, CallsMatch, DyingInv
  <2>3. QED
    BY <2>1, <2>2 DEF CapInv
<1>5. QED
  BY <1>1, <1>2, <1>3, <1>4 DEF Next

\* A counter that wrapped around is never forgotten.
LEMMA StepWrapped ==
  ASSUME wrapped \in BOOLEAN, [Next]_vars
  PROVE  wrapped' \in BOOLEAN /\ (wrapped => wrapped')
<1> DEFINE Kept == wrapped' \in BOOLEAN /\ (wrapped => wrapped')
<1>0. wrapped' = wrapped => Kept
  OBVIOUS
<1> HIDE DEF Kept
<1>1. ASSUME NEW t \in User, UserStep(t)
      PROVE  Kept
  <2>1. ASSUME NEW id \in CapId, CopyCap(t, id)
        PROVE  Kept
    BY <2>1, Zenon DEF CopyCap, Kept
  <2>2. ASSUME Import(t)
        PROVE  Kept
    BY <2>2, Zenon DEF Import, Kept
  <2>3. ASSUME NEW id \in CapId, DropCap(t, id)
        PROVE  wrapped' = wrapped
    BY <2>3 DEF DropCap
  <2>4. ASSUME NEW cap, Reply(t, cap) \/ \E s \in Server : Call(t, s, cap)
        PROVE  wrapped' = wrapped
    BY <2>4 DEF Reply, Call
  <2>5. DeleteCap(t) \/ AckCap(t) => wrapped' = wrapped
    BY DEF DeleteCap, AckCap
  <2>6. QED
    BY <1>0, <1>1, <2>1, <2>2, <2>3, <2>4, <2>5 DEF UserStep
<1>2. ASSUME NEW t \in Thread \ User, CoreStep(t)
      PROVE  wrapped' = wrapped
  BY <1>2 DEF CoreStep, NewObject, DestroyObject, Reply
<1>3. ASSUME NEW t \in Thread, CallStep(t)
      PROVE  wrapped' = wrapped
  BY <1>3 DEF CallStep, SendRequest, SendReply, UpgradeSlab, ImportNothing
<1>4. UNCHANGED vars => wrapped' = wrapped
  BY DEF vars
<1>5. QED
  BY <1>0, <1>1, <1>2, <1>3, <1>4 DEF Next, Kept

\* What holds until a reference counter wraps around
UntilWrapped == wrapped \in BOOLEAN /\ (wrapped \/ CapInv)

\* The capability spaces, the reference counters and the slabs fit together until
\* a counter wraps around: _in_utcbs counts the UTCBs with an ID, ref_counter counts
\* the capability objects, and every block of a slab is accounted for.
THEOREM Invariance == Spec => []UntilWrapped
<1>1. Init => UntilWrapped
  BY InitCapInv DEF Init, UntilWrapped
<1>2. UntilWrapped /\ [Next]_vars => UntilWrapped'
  BY StepCapInv, StepWrapped DEF UntilWrapped
<1>3. QED
  BY <1>1, <1>2, PTL DEF Spec

\* A protection domain has one reference per identity, and no block of its slab is
\* lost or used twice by calls that fail for the lack of memory and are repeated
\* (ipc_copy_msg, _ipc_alloc_recv_caps), at least until a counter wraps around.
THEOREM SpacesStayConsistent == Spec => [](wrapped \/ SpacesConsistent)
<1>1. UntilWrapped => wrapped \/ SpacesConsistent
  BY CapInvImplies DEF UntilWrapped
<1>2. QED
  BY <1>1, Invariance, PTL

\* The kernel never deletes the reference of an ID for which a capability object
\* exists or is about to be made (_call_delete_cap, in_utcb), unless a reference
\* counter has wrapped around.
THEOREM HeldStaysReferenced == Spec => []HeldIsReferenced
<1>1. UntilWrapped => HeldIsReferenced
  BY CapInvImplies DEF UntilWrapped, HeldIsReferenced
<1>2. QED
  BY <1>1, Invariance, PTL

\* No reference is left behind without a capability object, an import or a
\* deletion to come (the early return of _call_delete_cap), unless a reference
\* counter has wrapped around.
THEOREM UnusedGetsDeleted == Spec => []UnusedIsDeleted
<1>1. UntilWrapped => UnusedIsDeleted
  BY CapInvImplies DEF UntilWrapped, UnusedIsDeleted
<1>2. QED
  BY <1>1, Invariance, PTL

=============================================================================

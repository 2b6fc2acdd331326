--------------------------- MODULE SemaphoreProof ---------------------------
(* Proofs about Lock and Semaphore, for any number of threads, any initial    *)
(* value of the semaphore, and threads that fault anywhere.                   *)
EXTENDS Semaphore, QueueTheorems

-----------------------------------------------------------------------------
(* The list of applicants *)

\* The thread is in the list of applicants of the lock.
Pending(t, l) == Waits(t, l) /\ ~HandedOver(t)

\* The pointers of lock l lead through the threads of q and through no others.
Applicants(l, q) ==
  /\ q \in Seq(Thread)
  /\ Distinct(q)
  /\ \A t \in Thread : t \in ToSet(q) <=> Pending(t, l)
  /\ ownerNext[l] = IF q = <<>> THEN None ELSE q[1]
  /\ \A i \in 1 .. Len(q) : next[q[i]] = IF i = Len(q) THEN None ELSE q[i + 1]
  /\ lockState[l] = "LOCKED" => last[l] = IF q = <<>> THEN Owner ELSE q[Len(q)]
  /\ lockState[l] = "UNLOCKED" => q = <<>>

ListsExist == \A l \in LockId : \E q \in Seq(Thread) : Applicants(l, q)

\* A thread that owns the lock it waits for has somebody who will wake it, or was
\* woken in front of stop_thread.
OwnersAwake == \A t \in Thread, l \in LockId : Waits(t, l) /\ owner[l] = t => HandedOver(t)

\* The part of the invariant that is about locks.
LInv ==
  LockTypeOK /\ ListsExist /\ OwnersAwake /\ WakersMatch /\ MissedMatch /\ PhasesMatch

\* The list of a lock that a step does not touch.
LEMMA ListKept ==
  ASSUME NEW l \in LockId, NEW q \in Seq(Thread), Applicants(l, q),
         ownerNext'[l] = ownerNext[l], last'[l] = last[l], lockState'[l] = lockState[l],
         \A t \in Thread : t \in ToSet(q) => next'[t] = next[t],
         \A t \in Thread : Pending(t, l)' <=> Pending(t, l)
  PROVE  Applicants(l, q)'
<1>1. \A i \in 1 .. Len(q) : q[i] \in Thread /\ q[i] \in ToSet(q)
  BY DEF ToSet
<1> QED
  BY <1>1 DEF Applicants

\* A thread waits for one lock at a time, and nobody who runs waits.
LEMMA WaitsOnce ==
  ASSUME LInv
  PROVE  /\ \A t \in Thread, l, m \in LockId : Waits(t, l) /\ Waits(t, m) => l = m
         /\ \A t \in Thread, l \in LockId : Runs(t) => ~Waits(t, l)
         /\ \A t \in Thread : Runs(t) => ~HandedOver(t)
         /\ \A t \in Thread, l \in LockId : Waits(t, l) => phase[t] # "waking" /\ phase[t] # "out"
<1>1. \A t \in Thread, l \in LockId : Runs(t) => ~Waits(t, l)
  BY DEF Runs, Waits
<1>2. \A t \in Thread : Runs(t) => ~HandedOver(t)
  BY DEF Runs, HandedOver, BeingWoken, LInv, WakersMatch, MissedMatch, Waits
<1> QED
  BY <1>1, <1>2 DEF Waits

\* Nobody waits for a lock that is free.
LEMMA FreeLock ==
  ASSUME LInv, NEW l \in LockId, lockState[l] = "UNLOCKED"
  PROVE  \A t \in Thread : ~Waits(t, l)
<1>1. PICK q \in Seq(Thread) : Applicants(l, q)
  BY DEF LInv, ListsExist
<1>2. \A t \in Thread : ~Pending(t, l)
  BY <1>1 DEF Applicants, ToSet
<1>3. ASSUME NEW t \in Thread, Waits(t, l), HandedOver(t)
      PROVE  FALSE
  <2>1. CASE t \in missed
    BY <1>3, <2>1 DEF LInv, MissedMatch, Waits
  <2>2. CASE BeingWoken(t)
    <3>1. PICK w \in Thread : phase[w] = "waking" /\ target[w] = t
      BY <2>2 DEF BeingWoken
    <3>2. Waits(t, lockOf[w]) /\ lockState[lockOf[w]] = "LOCKED"
      BY <3>1 DEF LInv, WakersMatch
    <3> QED
      BY <1>3, <3>2 DEF Waits
  <2> QED
    BY <1>3, <2>1, <2>2 DEF HandedOver
<1> QED
  BY <1>2, <1>3 DEF Pending

-----------------------------------------------------------------------------
(* The operations of a lock keep its invariant. *)

\* A lock for which nobody waits gets other values in its fields.
LEMMA ResetKeeps ==
  ASSUME LInv, NEW l \in LockId, \A t \in Thread : ~Waits(t, l),
         NEW s \in {"LOCKED", "UNLOCKED"}, NEW o \in Thread \cup {None},
         NEW e \in {Owner, None}, s = "LOCKED" => e = Owner,
         lockState' = [lockState EXCEPT ![l] = s],
         owner' = [owner EXCEPT ![l] = o],
         ownerNext' = [ownerNext EXCEPT ![l] = None],
         last' = [last EXCEPT ![l] = e],
         UNCHANGED <<next, phase, lockOf, target, stopped, faults, missed>>
  PROVE  LInv'
<1>1. LockTypeOK'
  BY DEF LInv, LockTypeOK
<1>2. \A t \in Thread, m \in LockId :
        (Waits(t, m)' <=> Waits(t, m)) /\ (HandedOver(t)' <=> HandedOver(t)) /\ (Pending(t, m)' <=> Pending(t, m))
  BY DEF Waits, HandedOver, BeingWoken, Pending
<1>3. ListsExist'
  <2>1. SUFFICES ASSUME NEW m \in LockId PROVE \E q \in Seq(Thread) : Applicants(m, q)'
    BY DEF ListsExist
  <2>2. CASE m = l
    <3>1. <<>> \in Seq(Thread) /\ Distinct(<<>>) /\ \A u : u \notin ToSet(<<>>)
      BY DEF Distinct, ToSet
    <3>2. ownerNext'[l] = None /\ lockState'[l] = s /\ last'[l] = e
      BY DEF LInv, LockTypeOK
    <3>3. \A t \in Thread : ~Pending(t, l)'
      BY <1>2 DEF Pending
    <3>4. Applicants(l, <<>>)'
      BY <3>1, <3>2, <3>3 DEF Applicants
    <3> QED
      BY <2>2, <3>1, <3>4
  <2>3. CASE m # l
    <3>1. PICK q \in Seq(Thread) : Applicants(m, q)
      BY DEF LInv, ListsExist
    <3>2. Applicants(m, q)'
      BY <1>2, <2>3, <3>1, ListKept DEF LInv, LockTypeOK
    <3> QED
      BY <3>2
  <2> QED
    BY <2>2, <2>3
<1>4. OwnersAwake'
  BY <1>2 DEF LInv, LockTypeOK, OwnersAwake
<1>5. WakersMatch'
  <2>1. \A w \in Thread : phase[w] = "waking" => lockOf[w] # l /\ lockOf[w] \in LockId
    BY DEF LInv, WakersMatch, PhasesMatch, LockTypeOK
  <2>2. \A w \in Thread : phase[w] = "waking" => owner'[lockOf[w]] = owner[lockOf[w]]
                                              /\ lockState'[lockOf[w]] = lockState[lockOf[w]]
    BY <2>1 DEF LInv, LockTypeOK
  <2> QED
    BY <2>1, <2>2 DEF LInv, WakersMatch, Waits
<1>6. PhasesMatch'
  BY DEF LInv, PhasesMatch
<1>7. MissedMatch'
  <2> SUFFICES ASSUME NEW u \in missed
               PROVE  (/\ lockOf[u] # None /\ Waits(u, lockOf[u]) /\ ~BeingWoken(u)
                       /\ owner[lockOf[u]] = u /\ lockState[lockOf[u]] = "LOCKED")'
    BY DEF MissedMatch
  <2>1. /\ lockOf[u] # None /\ Waits(u, lockOf[u]) /\ ~BeingWoken(u)
        /\ owner[lockOf[u]] = u /\ lockState[lockOf[u]] = "LOCKED"
        /\ u \in Thread /\ lockOf[u] \in LockId
    BY DEF LInv, MissedMatch, LockTypeOK
  <2>2. lockOf[u] # l
    BY <2>1
  <2> QED
    BY <2>1, <2>2 DEF LInv, LockTypeOK, Waits, BeingWoken
<1> QED
  BY <1>1, <1>3, <1>4, <1>5, <1>6, <1>7 DEF LInv

LEMMA GrabKeeps ==
  ASSUME LInv, NEW t \in Thread, NEW l \in LockId, \A u \in Thread : ~Waits(u, l),
         Grab(t, l), UNCHANGED <<target, kernelVars>>
  PROVE  LInv'
BY ResetKeeps DEF Grab, kernelVars

\* What registering thread t at lock l does to the lists of all locks.
LEMMA RegisteredPending ==
  ASSUME LInv, NEW t \in Thread, NEW l \in LockId, Runs(t),
         phase' = [phase EXCEPT ![t] = "queued"],
         lockOf' = [lockOf EXCEPT ![t] = l],
         UNCHANGED <<target, missed>>
  PROVE  /\ \A u \in Thread, m \in LockId : Waits(u, m)' <=> IF u = t THEN m = l ELSE Waits(u, m)
         /\ \A u \in Thread : BeingWoken(u)' <=> BeingWoken(u)
         /\ \A u \in Thread : HandedOver(u)' <=> HandedOver(u)
         /\ \A u \in Thread, m \in LockId : Pending(u, m)' <=> IF u = t THEN m = l ELSE Pending(u, m)
<1>1. \A w \in Thread : phase'[w] = "waking" <=> phase[w] = "waking"
  BY DEF LInv, LockTypeOK, Runs
<1>2. \A u \in Thread : (BeingWoken(u)' <=> BeingWoken(u)) /\ (HandedOver(u)' <=> HandedOver(u))
  BY <1>1 DEF HandedOver, BeingWoken
<1>3. \A u \in Thread, m \in LockId : Waits(u, m)' <=> IF u = t THEN m = l ELSE Waits(u, m)
  BY DEF LInv, LockTypeOK, Waits
<1>4. ~HandedOver(t)
  BY WaitsOnce
<1> QED
  BY <1>2, <1>3, <1>4 DEF Pending

\* The part of the invariant that registering keeps however the list changes.
LEMMA RegisterKeeps ==
  ASSUME LInv, NEW t \in Thread, NEW l \in LockId, Runs(t), lockState[l] = "LOCKED",
         phase' = [phase EXCEPT ![t] = "queued"],
         lockOf' = [lockOf EXCEPT ![t] = l],
         owner' \in {owner, [owner EXCEPT ![l] = None]},
         owner'[l] # t,
         owner' = owner \/ owner[l] = t,
         UNCHANGED <<lockState, target, stopped, faults, missed>>,
         LockTypeOK', ListsExist'
  PROVE  LInv'
<1>1. /\ \A u \in Thread, m \in LockId : Waits(u, m)' <=> IF u = t THEN m = l ELSE Waits(u, m)
      /\ \A u \in Thread : BeingWoken(u)' <=> BeingWoken(u)
      /\ \A u \in Thread : HandedOver(u)' <=> HandedOver(u)
  BY RegisteredPending
<1>2. \A u \in Thread, m \in LockId : owner'[m] = u => owner[m] = u
  BY LockAssumption DEF LInv, LockTypeOK
<1>3. OwnersAwake'
  <2> SUFFICES ASSUME NEW u \in Thread, NEW m \in LockId, Waits(u, m)', owner'[m] = u
               PROVE  HandedOver(u)'
    BY DEF OwnersAwake
  <2>1. u # t
    BY <1>1
  <2> QED
    BY <1>1, <1>2, <2>1 DEF LInv, OwnersAwake
<1>4. \A w \in Thread : phase'[w] = "waking" => w # t /\ phase[w] = "waking" /\ lockOf'[w] = lockOf[w]
  BY DEF LInv, LockTypeOK
<1>5. WakersMatch'
  <2>1. ASSUME NEW w \in Thread, phase'[w] = "waking"
        PROVE  (/\ target[w] # None /\ Waits(target[w], lockOf[w])
                /\ owner[lockOf[w]] = target[w] /\ lockState[lockOf[w]] = "LOCKED")'
    <3>1. phase[w] = "waking" /\ lockOf'[w] = lockOf[w]
      BY <1>4, <2>1
    <3>2. /\ target[w] # None /\ Waits(target[w], lockOf[w])
          /\ owner[lockOf[w]] = target[w] /\ lockState[lockOf[w]] = "LOCKED"
          /\ target[w] \in Thread /\ lockOf[w] \in LockId
      BY <3>1 DEF LInv, WakersMatch, PhasesMatch, LockTypeOK
    <3>3. target[w] # t
      BY <3>2, WaitsOnce
    <3>4. owner'[lockOf[w]] = owner[lockOf[w]]
      BY <3>2, <3>3 DEF LInv, LockTypeOK
    <3>5. PICK n \in Thread, m \in LockId : n = target[w] /\ m = lockOf[w]
      BY <3>2
    <3>6. Waits(n, m)'
      BY <1>1, <3>2, <3>3, <3>5
    <3> QED
      BY <3>1, <3>2, <3>4, <3>5, <3>6 DEF Waits
  <2>2. \A w, v \in Thread :
          (phase[w] = "waking" /\ phase[v] = "waking" /\ target[w] = target[v] => w = v)'
    BY <1>4 DEF LInv, WakersMatch
  <2> QED
    BY <2>1, <2>2 DEF WakersMatch
<1>6. PhasesMatch'
  BY LockAssumption DEF LInv, LockTypeOK, PhasesMatch, Runs
<1>7. MissedMatch'
  <2> SUFFICES ASSUME NEW u \in missed
               PROVE  (/\ lockOf[u] # None /\ Waits(u, lockOf[u]) /\ ~BeingWoken(u)
                       /\ owner[lockOf[u]] = u /\ lockState[lockOf[u]] = "LOCKED")'
    BY DEF MissedMatch
  <2>1. /\ lockOf[u] # None /\ Waits(u, lockOf[u]) /\ ~BeingWoken(u)
        /\ owner[lockOf[u]] = u /\ lockState[lockOf[u]] = "LOCKED"
        /\ u \in Thread /\ lockOf[u] \in LockId
    BY DEF LInv, MissedMatch, LockTypeOK
  <2>2. u # t
    BY <2>1, WaitsOnce
  <2>3. lockOf'[u] = lockOf[u] /\ owner'[lockOf[u]] = u
    BY <2>1, <2>2 DEF LInv, LockTypeOK
  <2>4. PICK m \in LockId : m = lockOf[u]
    BY <2>1
  <2>5. Waits(u, m)' /\ ~BeingWoken(u)'
    BY <1>1, <2>1, <2>2, <2>4
  <2> QED
    BY <2>1, <2>3, <2>4, <2>5 DEF Waits
<1> QED
  BY <1>3, <1>5, <1>6, <1>7 DEF LInv

LEMMA ApplyKeeps ==
  ASSUME LInv, NEW t \in Thread, NEW l \in LockId, Runs(t), ~Free(l), owner[l] # t,
         Apply(t, l),
         phase' = [phase EXCEPT ![t] = "queued"],
         lockOf' = [lockOf EXCEPT ![t] = l],
         UNCHANGED <<target, kernelVars>>
  PROVE  LInv'
<1>1. lockState[l] = "LOCKED"
  BY DEF Free, LInv, LockTypeOK
<1>2. PICK q \in Seq(Thread) : Applicants(l, q)
  BY DEF LInv, ListsExist
<1>3. \A u \in Thread, m \in LockId : Pending(u, m)' <=> IF u = t THEN m = l ELSE Pending(u, m)
  BY RegisteredPending DEF kernelVars
<1>4. /\ ownerNext' = [ownerNext EXCEPT ![l] = IF last[l] = Owner THEN t ELSE @]
      /\ next' = [u \in Thread |-> IF u = t THEN None ELSE IF u = last[l] THEN t ELSE next[u]]
      /\ last' = [last EXCEPT ![l] = t]
      /\ UNCHANGED <<lockState, owner, target, stopped, faults, missed>>
  BY DEF Apply, AppendToLast, kernelVars
<1>5. \A m \in LockId : ~Pending(t, m)
  BY WaitsOnce DEF Pending
<1>6. /\ Distinct(q) /\ t \notin ToSet(q)
      /\ ownerNext[l] = IF q = <<>> THEN None ELSE q[1]
      /\ \A i \in 1 .. Len(q) : next[q[i]] = IF i = Len(q) THEN None ELSE q[i + 1]
      /\ last[l] = IF q = <<>> THEN Owner ELSE q[Len(q)]
      /\ \A u \in Thread : u \in ToSet(q) <=> Pending(u, l)
  BY <1>1, <1>2, <1>5 DEF Applicants
<1>7. LockTypeOK'
  BY <1>4 DEF LInv, LockTypeOK, Phase
<1> DEFINE r == Append(q, t)
<1>8. /\ r \in Seq(Thread) /\ Distinct(r)
      /\ \A u : u \in ToSet(r) <=> u \in ToSet(q) \/ u = t
  BY <1>6, AppendedElements
<1>9. /\ Len(r) = Len(q) + 1 /\ r[Len(q) + 1] = t
      /\ \A i \in 1 .. Len(q) : r[i] = q[i]
      /\ r # <<>>
  OBVIOUS
<1> HIDE DEF r
<1>10. Applicants(l, r)'
  <2>1. \A u \in Thread : u \in ToSet(r) <=> Pending(u, l)'
    BY <1>3, <1>6, <1>8
  <2>2. ownerNext'[l] = r[1]
    <3>1. CASE q = <<>>
      BY <3>1, <1>4, <1>6, <1>9 DEF LInv, LockTypeOK
    <3>2. CASE q # <<>>
      <4>1. last[l] \in Thread /\ 1 \in 1 .. Len(q)
        BY <3>2, <1>6
      <4>2. last[l] # Owner
        BY <4>1, LockAssumption
      <4> QED
        BY <3>2, <4>1, <4>2, <1>4, <1>6, <1>9 DEF LInv, LockTypeOK
    <3> QED
      BY <3>1, <3>2
  <2>3. ASSUME NEW i \in 1 .. Len(r)
        PROVE  next'[r[i]] = IF i = Len(r) THEN None ELSE r[i + 1]
    <3>1. CASE i = Len(r)
      BY <3>1, <1>4, <1>9
    <3>2. CASE i = Len(q)
      <4>1. q # <<>> /\ r[i] = q[Len(q)] /\ r[i] \in Thread /\ r[i] \in ToSet(q) /\ r[i] = last[l]
        BY <3>2, <1>6, <1>9 DEF ToSet
      <4> QED
        BY <3>2, <4>1, <1>4, <1>6, <1>9
    <3>3. CASE i # Len(r) /\ i # Len(q)
      <4>1. i \in 1 .. Len(q) /\ i + 1 \in 1 .. Len(q) /\ Len(q) \in 1 .. Len(q)
        BY <3>3, <1>9
      <4>2. r[i] = q[i] /\ r[i] \in Thread /\ q[i] \in ToSet(q)
        BY <4>1, <1>9 DEF ToSet
      <4>3. q[i] # q[Len(q)]
        BY <4>1, <3>3, <1>6 DEF Distinct
      <4>4. next'[r[i]] = next[q[i]]
        BY <4>1, <4>2, <4>3, <1>4, <1>6
      <4> QED
        BY <3>3, <4>1, <4>4, <1>6, <1>9
    <3> QED
      BY <3>1, <3>2, <3>3, <1>9
  <2>4. last'[l] = r[Len(r)] /\ lockState'[l] = "LOCKED"
    BY <1>1, <1>4, <1>9 DEF LInv, LockTypeOK
  <2> QED
    BY <1>8, <1>9, <2>1, <2>2, <2>3, <2>4 DEF Applicants
<1>11. ASSUME NEW m \in LockId, m # l
       PROVE  \E p \in Seq(Thread) : Applicants(m, p)'
  <2>1. PICK p \in Seq(Thread) : Applicants(m, p)
    BY DEF LInv, ListsExist
  <2>2. ASSUME NEW u \in Thread, u \in ToSet(p)
        PROVE  next'[u] = next[u]
    <3>1. Pending(u, m)
      BY <2>1, <2>2 DEF Applicants
    <3>2. u # t
      BY <3>1, <1>5
    <3>3. u # last[l]
      <4>1. CASE q = <<>>
        BY <4>1, <1>6, LockAssumption
      <4>2. CASE q # <<>>
        <5>1. last[l] \in ToSet(q) /\ last[l] \in Thread
          BY <4>2, <1>6 DEF ToSet
        <5>2. Pending(last[l], l)
          BY <5>1, <1>6
        <5> QED
          BY <1>11, <3>1, <5>1, <5>2, WaitsOnce DEF Pending
      <4> QED
        BY <4>1, <4>2
    <3> QED
      BY <1>4, <3>2, <3>3
  <2>3. ownerNext'[m] = ownerNext[m] /\ last'[m] = last[m] /\ lockState'[m] = lockState[m]
    BY <1>4, <1>11 DEF LInv, LockTypeOK
  <2>4. \A u \in Thread : Pending(u, m)' <=> Pending(u, m)
    BY <1>3, <1>5, <1>11
  <2> QED
    BY <2>1, <2>2, <2>3, <2>4, ListKept
<1>12. ListsExist'
  BY <1>8, <1>10, <1>11 DEF ListsExist
<1> QED
  BY <1>1, <1>4, <1>7, <1>12, RegisterKeeps

LEMMA ApplyTwiceKeeps ==
  ASSUME LInv, NEW t \in Thread, NEW l \in LockId, Runs(t), ~Free(l), owner[l] = t,
         ApplyTwice(t, l),
         phase' = [phase EXCEPT ![t] = "queued"],
         lockOf' = [lockOf EXCEPT ![t] = l],
         UNCHANGED <<target, kernelVars>>
  PROVE  LInv'
<1>1. lockState[l] = "LOCKED"
  BY DEF Free, LInv, LockTypeOK
<1>2. PICK q \in Seq(Thread) : Applicants(l, q)
  BY DEF LInv, ListsExist
<1>3. \A u \in Thread, m \in LockId : Pending(u, m)' <=> IF u = t THEN m = l ELSE Pending(u, m)
  BY RegisteredPending DEF kernelVars
<1>4. /\ owner' = [owner EXCEPT ![l] = None]
      /\ ownerNext' = [ownerNext EXCEPT ![l] = t]
      /\ next' = [next EXCEPT ![t] = ownerNext[l]]
      /\ last' = [last EXCEPT ![l] = IF ownerNext[l] = None THEN t ELSE @]
      /\ UNCHANGED <<lockState, target, stopped, faults, missed>>
  BY DEF ApplyTwice, kernelVars
<1>5. \A m \in LockId : ~Pending(t, m)
  BY WaitsOnce DEF Pending
<1>6. /\ Distinct(q) /\ t \notin ToSet(q)
      /\ ownerNext[l] = IF q = <<>> THEN None ELSE q[1]
      /\ \A i \in 1 .. Len(q) : next[q[i]] = IF i = Len(q) THEN None ELSE q[i + 1]
      /\ last[l] = IF q = <<>> THEN Owner ELSE q[Len(q)]
      /\ \A u \in Thread : u \in ToSet(q) <=> Pending(u, l)
  BY <1>1, <1>2, <1>5 DEF Applicants
<1>7. LockTypeOK'
  BY <1>4 DEF LInv, LockTypeOK, Phase
<1> DEFINE r == <<t>> \o q
<1>8. /\ r \in Seq(Thread) /\ Distinct(r)
      /\ \A u : u \in ToSet(r) <=> u \in ToSet(q) \/ u = t
      /\ Len(r) = Len(q) + 1 /\ r[1] = t
      /\ \A j \in 1 .. Len(q) : r[j + 1] = q[j]
  BY <1>6, PrependedElements
<1> HIDE DEF r
<1>9. r # <<>>
  BY <1>8
<1>10. Applicants(l, r)'
  <2>1. \A u \in Thread : u \in ToSet(r) <=> Pending(u, l)'
    BY <1>3, <1>6, <1>8
  <2>2. ownerNext'[l] = r[1]
    BY <1>4, <1>8 DEF LInv, LockTypeOK
  <2>3. ASSUME NEW i \in 1 .. Len(r)
        PROVE  next'[r[i]] = IF i = Len(r) THEN None ELSE r[i + 1]
    <3>1. CASE i = 1
      <4>1. next'[r[i]] = ownerNext[l]
        BY <3>1, <1>4, <1>8 DEF LInv, LockTypeOK
      <4>2. CASE q = <<>>
        BY <3>1, <4>1, <4>2, <1>6, <1>8
      <4>3. CASE q # <<>>
        <5>1. 1 \in 1 .. Len(q) /\ Len(r) # 1
          BY <4>3, <1>8
        <5> QED
          BY <3>1, <4>1, <4>3, <5>1, <1>6, <1>8
      <4> QED
        BY <4>2, <4>3
    <3>2. CASE i # 1
      <4>1. PICK j \in 1 .. Len(q) : i = j + 1
        <5>1. i - 1 \in 1 .. Len(q) /\ i = (i - 1) + 1
          BY <3>2, <1>8
        <5> QED
          BY <5>1
      <4>2. r[i] = q[j] /\ q[j] \in Thread /\ q[j] \in ToSet(q)
        BY <4>1, <1>8 DEF ToSet
      <4>3. next'[r[i]] = next[q[j]]
        BY <4>2, <1>4, <1>6 DEF LInv, LockTypeOK
      <4>4. j # Len(q) => j + 1 \in 1 .. Len(q) /\ r[i + 1] = q[j + 1]
        BY <4>1, <1>8
      <4>5. j = Len(q) <=> i = Len(r)
        BY <4>1, <1>8
      <4> QED
        BY <4>3, <4>4, <4>5, <1>6
    <3> QED
      BY <3>1, <3>2
  <2>4. last'[l] = r[Len(r)] /\ lockState'[l] = "LOCKED"
    <3>1. CASE q = <<>>
      BY <3>1, <1>1, <1>4, <1>6, <1>8 DEF LInv, LockTypeOK
    <3>2. CASE q # <<>>
      <4>1. ownerNext[l] \in Thread /\ Len(q) \in 1 .. Len(q)
        BY <3>2, <1>6
      <4>2. ownerNext[l] # None
        BY <4>1, LockAssumption
      <4> QED
        BY <3>2, <4>1, <4>2, <1>1, <1>4, <1>6, <1>8 DEF LInv, LockTypeOK
    <3> QED
      BY <3>1, <3>2
  <2> QED
    BY <1>8, <1>9, <2>1, <2>2, <2>3, <2>4 DEF Applicants
<1>11. ASSUME NEW m \in LockId, m # l
       PROVE  \E p \in Seq(Thread) : Applicants(m, p)'
  <2>1. PICK p \in Seq(Thread) : Applicants(m, p)
    BY DEF LInv, ListsExist
  <2>2. t \notin ToSet(p)
    BY <2>1, <1>5 DEF Applicants
  <2>3. \A u \in Thread : u \in ToSet(p) => next'[u] = next[u]
    BY <2>2, <1>4 DEF LInv, LockTypeOK
  <2>4. ownerNext'[m] = ownerNext[m] /\ last'[m] = last[m] /\ lockState'[m] = lockState[m]
    BY <1>4, <1>11 DEF LInv, LockTypeOK
  <2>5. \A u \in Thread : Pending(u, m)' <=> Pending(u, m)
    BY <1>3, <1>5, <1>11
  <2> QED
    BY <2>1, <2>3, <2>4, <2>5, ListKept
<1>12. ListsExist'
  BY <1>8, <1>10, <1>11 DEF ListsExist
<1>13. owner'[l] # t
  BY <1>4, LockAssumption DEF LInv, LockTypeOK
<1> QED
  BY <1>1, <1>4, <1>7, <1>12, <1>13, RegisterKeeps

\* What lock() does, as far as its callers are concerned.
Locked(t, l) ==
  \/ /\ \A u \in Thread, m \in LockId : Waits(u, m)' <=> Waits(u, m)
     /\ lockState[l] = "UNLOCKED"
     /\ owner' = [owner EXCEPT ![l] = t]
     /\ lockState' = [lockState EXCEPT ![l] = "LOCKED"]
  \/ /\ \A u \in Thread, m \in LockId : Waits(u, m)' <=> IF u = t THEN m = l ELSE Waits(u, m)
     /\ lockState[l] = "LOCKED"
     /\ owner' = IF owner[l] = t THEN [owner EXCEPT ![l] = None] ELSE owner
     /\ UNCHANGED lockState

LEMMA LockLockKeeps ==
  ASSUME LInv, NEW t \in Thread, NEW l \in LockId, LockLock(t, l)
  PROVE  LInv' /\ Locked(t, l)
<1>1. Runs(t) /\ UNCHANGED <<target, kernelVars>>
  BY DEF LockLock
<1>2. CASE Free(l) /\ Grab(t, l)
  <2>1. \A u \in Thread : ~Waits(u, l)
    BY <1>2, FreeLock DEF Free
  <2>2. LInv'
    BY <1>1, <1>2, <2>1, GrabKeeps
  <2>3. Locked(t, l)
    BY <1>1, <1>2 DEF Locked, Free, Grab, Waits
  <2> QED
    BY <2>2, <2>3
<1>3. CASE /\ ~Free(l)
           /\ IF owner[l] = t THEN ApplyTwice(t, l) ELSE Apply(t, l)
           /\ phase' = [phase EXCEPT ![t] = "queued"]
           /\ lockOf' = [lockOf EXCEPT ![t] = l]
  <2>1. LInv'
    BY <1>1, <1>3, ApplyKeeps, ApplyTwiceKeeps
  <2>2. lockState[l] = "LOCKED"
    BY <1>3 DEF LInv, LockTypeOK, Free
  <2>3. \A u \in Thread, m \in LockId : Waits(u, m)' <=> IF u = t THEN m = l ELSE Waits(u, m)
    BY <1>1, <1>3, RegisteredPending DEF kernelVars
  <2>4. Locked(t, l)
    BY <1>3, <2>2, <2>3 DEF Locked, Apply, ApplyTwice
  <2> QED
    BY <2>1, <2>4
<1> QED
  BY <1>2, <1>3 DEF LockLock

LEMMA StopMyselfKeeps ==
  ASSUME LInv, NEW t \in Thread, StopMyself(t)
  PROVE  /\ LInv'
         /\ \A u \in Thread, l \in LockId : Waits(u, l)' <=> Waits(u, l)
         /\ UNCHANGED <<owner, lockState>>
<1>1. /\ phase[t] = "queued" /\ t \notin stopped
      /\ phase' = [phase EXCEPT ![t] = "blocked"]
      /\ stopped' = stopped \cup {t}
      /\ UNCHANGED <<lockState, owner, ownerNext, last, next, lockOf, target, faults, missed>>
  BY DEF StopMyself, fieldVars
<1>2. \A u \in Thread : /\ phase'[u] = "waking" <=> phase[u] = "waking"
                        /\ phase'[u] \in {"queued", "blocked"} <=> phase[u] \in {"queued", "blocked"}
                        /\ phase'[u] = "out" <=> phase[u] = "out"
  BY <1>1 DEF LInv, LockTypeOK
<1>3. /\ \A u \in Thread, l \in LockId : Waits(u, l)' <=> Waits(u, l)
      /\ \A u \in Thread : (BeingWoken(u)' <=> BeingWoken(u)) /\ (HandedOver(u)' <=> HandedOver(u))
      /\ \A u \in Thread, l \in LockId : Pending(u, l)' <=> Pending(u, l)
  BY <1>1, <1>2 DEF Waits, HandedOver, BeingWoken, Pending
<1>4. LockTypeOK'
  BY <1>1 DEF LInv, LockTypeOK, Phase
<1>5. ListsExist'
  <2> SUFFICES ASSUME NEW l \in LockId PROVE \E q \in Seq(Thread) : Applicants(l, q)'
    BY DEF ListsExist
  <2>1. PICK q \in Seq(Thread) : Applicants(l, q)
    BY DEF LInv, ListsExist
  <2> QED
    BY <1>1, <1>3, <2>1, ListKept
<1>6. OwnersAwake'
  BY <1>1, <1>3 DEF LInv, OwnersAwake
<1>7. WakersMatch'
  BY <1>1, <1>2 DEF LInv, WakersMatch, Waits
<1>8. PhasesMatch'
  BY <1>1, <1>2 DEF LInv, LockTypeOK, PhasesMatch
<1>9. MissedMatch'
  BY <1>1, <1>2, <1>3 DEF LInv, LockTypeOK, MissedMatch, Waits
<1> QED
  BY <1>1, <1>3, <1>4, <1>5, <1>6, <1>7, <1>8, <1>9 DEF LInv

\* What unlock() does, as far as its callers are concerned.
Unlocked(t, l) ==
  /\ \/ /\ owner' = [owner EXCEPT ![l] = None]
        /\ lockState' = [lockState EXCEPT ![l] = "UNLOCKED"]
     \/ \E n \in Thread : Waits(n, l) /\ owner' = [owner EXCEPT ![l] = n] /\ UNCHANGED lockState
  /\ \A u \in Thread, m \in LockId : Waits(u, m)' <=> Waits(u, m)
  /\ \A u \in Thread : u # t => phase'[u] = phase[u]

\* unlock() keeps the invariant if nobody was handed the lock just before.
LEMMA LockUnlockKeeps ==
  ASSUME LInv, NEW t \in Thread, NEW l \in LockId, LockUnlock(t, l),
         \A w \in Thread : phase[w] = "waking" => lockOf[w] # l,
         \A u \in missed : lockOf[u] # l
  PROVE  LInv' /\ Unlocked(t, l)
<1>1. Runs(t) /\ UNCHANGED <<next, stopped, faults, missed>>
  BY DEF LockUnlock, kernelVars
<1>2. PICK q \in Seq(Thread) : Applicants(l, q)
  BY DEF LInv, ListsExist
<1>3. /\ Distinct(q)
      /\ ownerNext[l] = IF q = <<>> THEN None ELSE q[1]
      /\ \A i \in 1 .. Len(q) : next[q[i]] = IF i = Len(q) THEN None ELSE q[i + 1]
      /\ lockState[l] = "LOCKED" => last[l] = IF q = <<>> THEN Owner ELSE q[Len(q)]
      /\ lockState[l] = "UNLOCKED" => q = <<>>
      /\ \A u \in Thread : u \in ToSet(q) <=> Pending(u, l)
  BY <1>2 DEF Applicants
<1>4. CASE q = <<>>
  <2>1. /\ owner' = [owner EXCEPT ![l] = None]
        /\ last' = [last EXCEPT ![l] = None]
        /\ lockState' = [lockState EXCEPT ![l] = "UNLOCKED"]
        /\ UNCHANGED <<ownerNext, next, phase, lockOf, target, stopped, faults, missed>>
    BY <1>1, <1>3, <1>4 DEF LockUnlock
  <2>2. ownerNext' = [ownerNext EXCEPT ![l] = None]
    BY <1>3, <1>4, <2>1 DEF LInv, LockTypeOK
  <2>3. \A u \in Thread : ~Waits(u, l)
    <3>1. \A u \in Thread : ~Pending(u, l)
      BY <1>3, <1>4 DEF ToSet
    <3>2. ASSUME NEW u \in Thread, Waits(u, l) PROVE ~HandedOver(u)
      <4>1. \A w \in Thread : phase[w] = "waking" => Waits(target[w], lockOf[w])
        BY DEF LInv, WakersMatch
      <4> QED
        BY <3>2, <4>1 DEF HandedOver, BeingWoken, Waits
    <3> QED
      BY <3>1, <3>2 DEF Pending
  <2>4. LInv'
    BY <2>1, <2>2, <2>3, ResetKeeps
  <2>5. \A u \in Thread, m \in LockId : Waits(u, m)' <=> Waits(u, m)
    BY <2>1 DEF Waits
  <2> QED
    BY <2>1, <2>4, <2>5 DEF Unlocked
<1>5. CASE q # <<>>
  <2> DEFINE n == q[1]
             r == Tail(q)
  <2>1. n \in Thread /\ n # None /\ n \in ToSet(q) /\ ownerNext[l] = n
    BY <1>3, <1>5, LockAssumption DEF ToSet
  <2>2. /\ owner' = [owner EXCEPT ![l] = n]
        /\ ownerNext' = [ownerNext EXCEPT ![l] = next[n]]
        /\ last' = [last EXCEPT ![l] = IF last[l] = n THEN Owner ELSE last[l]]
        /\ phase' = [phase EXCEPT ![t] = "waking"]
        /\ lockOf' = [lockOf EXCEPT ![t] = l]
        /\ target' = [target EXCEPT ![t] = n]
        /\ UNCHANGED <<lockState, next, stopped, faults, missed>>
    BY <1>1, <2>1 DEF LockUnlock, LastAfter
  <2>3. Waits(n, l) /\ ~HandedOver(n) /\ lockState[l] = "LOCKED"
    BY <1>3, <1>5, <2>1 DEF Pending, LInv, LockTypeOK
  <2>4. /\ r \in Seq(Thread) /\ Distinct(r)
        /\ \A u : u \in ToSet(r) <=> u \in ToSet(q) /\ u # n
        /\ Len(r) = Len(q) - 1 /\ \A i \in 1 .. Len(r) : r[i] = q[i + 1]
    <3>1. Head(q) = q[1]
      BY <1>5
    <3> QED
      BY <1>3, <1>5, <3>1, TailElements
  <2> HIDE DEF n, r
  <2>5. \A u \in Thread, m \in LockId : Waits(u, m)' <=> Waits(u, m)
    BY <1>1, <2>2 DEF LInv, LockTypeOK, Runs, Waits
  <2>6. \A u \in Thread : /\ BeingWoken(u)' <=> BeingWoken(u) \/ u = n
                          /\ HandedOver(u)' <=> HandedOver(u) \/ u = n
    <3>1. \A w \in Thread : w # t => phase'[w] = phase[w] /\ target'[w] = target[w]
      BY <2>2 DEF LInv, LockTypeOK
    <3>2. phase'[t] = "waking" /\ target'[t] = n /\ phase[t] = "out"
      BY <1>1, <2>2 DEF LInv, LockTypeOK, Runs
    <3> QED
      BY <2>2, <3>1, <3>2 DEF HandedOver, BeingWoken
  <2>7. \A u \in Thread, m \in LockId : Pending(u, m)' <=> Pending(u, m) /\ u # n
    BY <2>5, <2>6 DEF Pending
  <2>8. LockTypeOK'
    BY <2>1, <2>2 DEF LInv, LockTypeOK, Phase
  <2>9. Applicants(l, r)'
    <3>1. \A u \in Thread : u \in ToSet(r) <=> Pending(u, l)'
      BY <1>3, <2>4, <2>7
    <3>2. ownerNext'[l] = IF r = <<>> THEN None ELSE r[1]
      <4>1. ownerNext'[l] = next[q[1]] /\ 1 \in 1 .. Len(q)
        BY <1>5, <2>2 DEF LInv, LockTypeOK, n
      <4>2. CASE Len(q) = 1
        BY <1>3, <2>4, <4>1, <4>2
      <4>3. CASE Len(q) # 1
        BY <1>3, <2>4, <4>1, <4>3
      <4> QED
        BY <4>2, <4>3
    <3>3. \A i \in 1 .. Len(r) : next'[r[i]] = IF i = Len(r) THEN None ELSE r[i + 1]
      <4> TAKE i \in 1 .. Len(r)
      <4>1. i + 1 \in 1 .. Len(q) /\ r[i] = q[i + 1] /\ (i = Len(r) <=> i + 1 = Len(q))
        BY <2>4
      <4>2. i # Len(r) => r[i + 1] = q[(i + 1) + 1]
        BY <2>4
      <4> QED
        BY <1>3, <2>2, <4>1, <4>2
    <3>4. last'[l] = IF r = <<>> THEN Owner ELSE r[Len(r)]
      <4>1. last'[l] = (IF last[l] = n THEN Owner ELSE last[l]) /\ last[l] = q[Len(q)]
        BY <1>3, <1>5, <2>2, <2>3 DEF LInv, LockTypeOK
      <4>2. CASE Len(q) = 1
        BY <2>4, <4>1, <4>2 DEF n
      <4>3. CASE Len(q) # 1
        <5>1. 1 \in 1 .. Len(q) /\ Len(q) \in 1 .. Len(q) /\ Len(r) \in 1 .. Len(r)
          BY <1>5, <2>4, <4>3
        <5>2. q[Len(q)] # q[1]
          <6>1. \A i, j \in 1 .. Len(q) : q[i] = q[j] => i = j
            BY <1>3 DEF Distinct
          <6> QED
            BY <4>3, <5>1, <6>1
        <5>3. r # <<>> /\ r[Len(r)] = q[Len(q)]
          BY <2>4, <5>1
        <5> QED
          BY <4>1, <5>2, <5>3 DEF n
      <4> QED
        BY <4>2, <4>3
    <3> QED
      BY <2>2, <2>3, <2>4, <3>1, <3>2, <3>3, <3>4 DEF Applicants
  <2>10. ASSUME NEW m \in LockId, m # l
         PROVE  \E p \in Seq(Thread) : Applicants(m, p)'
    <3>1. PICK p \in Seq(Thread) : Applicants(m, p)
      BY DEF LInv, ListsExist
    <3>2. ~Pending(n, m)
      BY <2>1, <2>3, <2>10, WaitsOnce DEF Pending
    <3>3. \A u \in Thread : Pending(u, m)' <=> Pending(u, m)
      BY <2>7, <3>2
    <3>4. ownerNext'[m] = ownerNext[m] /\ last'[m] = last[m] /\ lockState'[m] = lockState[m]
      BY <2>2, <2>10 DEF LInv, LockTypeOK
    <3> QED
      BY <2>2, <3>1, <3>3, <3>4, ListKept
  <2>11. ListsExist'
    BY <2>4, <2>9, <2>10 DEF ListsExist
  <2>12. OwnersAwake'
    BY <2>2, <2>5, <2>6 DEF LInv, LockTypeOK, OwnersAwake
  <2>13. WakersMatch'
    <3>1. phase'[t] = "waking" /\ target'[t] = n /\ lockOf'[t] = l /\ owner'[l] = n
      BY <2>2 DEF LInv, LockTypeOK
    <3>2. Waits(n, l)'
      BY <2>1, <2>3, <2>5
    <3>3. ASSUME NEW w \in Thread, w # t, phase'[w] = "waking"
          PROVE  (/\ target[w] # None /\ Waits(target[w], lockOf[w])
                  /\ owner[lockOf[w]] = target[w] /\ lockState[lockOf[w]] = "LOCKED")'
      <4>1. phase[w] = "waking" /\ target'[w] = target[w] /\ lockOf'[w] = lockOf[w]
        BY <2>2, <3>3 DEF LInv, LockTypeOK
      <4>2. /\ target[w] # None /\ Waits(target[w], lockOf[w])
            /\ owner[lockOf[w]] = target[w] /\ lockState[lockOf[w]] = "LOCKED"
            /\ target[w] \in Thread /\ lockOf[w] \in LockId /\ lockOf[w] # l
        BY <4>1 DEF LInv, WakersMatch, PhasesMatch, LockTypeOK
      <4>3. PICK v \in Thread, m \in LockId : v = target[w] /\ m = lockOf[w]
        BY <4>2
      <4>4. Waits(v, m)'
        BY <2>5, <4>2, <4>3
      <4>5. owner'[m] = owner[m]
        BY <2>2, <4>2, <4>3 DEF LInv, LockTypeOK
      <4> QED
        BY <2>2, <4>1, <4>2, <4>3, <4>4, <4>5 DEF Waits
    <3>4. ASSUME NEW w \in Thread, NEW v \in Thread, phase'[w] = "waking", phase'[v] = "waking",
                 target'[w] = target'[v]
          PROVE  w = v
      <4>1. \A u \in Thread : u # t => phase'[u] = phase[u] /\ target'[u] = target[u]
        BY <2>2 DEF LInv, LockTypeOK
      <4>2. \A u \in Thread : phase[u] = "waking" => target[u] # n
        BY <2>3 DEF HandedOver, BeingWoken
      <4> QED
        BY <3>1, <3>4, <4>1, <4>2 DEF LInv, WakersMatch
    <3> QED
      BY <2>1, <2>2, <2>3, <3>1, <3>2, <3>3, <3>4 DEF WakersMatch, Waits
  <2>14. PhasesMatch'
    BY <1>1, <2>2, LockAssumption DEF LInv, LockTypeOK, PhasesMatch, Runs
  <2>15. \A u \in Thread : u # t => phase'[u] = phase[u]
    BY <2>2 DEF LInv, LockTypeOK
  <2>16. Unlocked(t, l)
    BY <2>1, <2>2, <2>3, <2>5, <2>15 DEF Unlocked
  <2>17. MissedMatch'
    <3> SUFFICES ASSUME NEW u \in missed
                 PROVE  (/\ lockOf[u] # None /\ Waits(u, lockOf[u]) /\ ~BeingWoken(u)
                         /\ owner[lockOf[u]] = u /\ lockState[lockOf[u]] = "LOCKED")'
      BY <2>2 DEF MissedMatch
    <3>1. /\ lockOf[u] # None /\ Waits(u, lockOf[u]) /\ ~BeingWoken(u)
          /\ owner[lockOf[u]] = u /\ lockState[lockOf[u]] = "LOCKED"
          /\ u \in Thread /\ lockOf[u] \in LockId /\ lockOf[u] # l
      BY DEF LInv, MissedMatch, LockTypeOK
    <3>2. u # t /\ u # n
      BY <1>1, <2>3, <3>1, WaitsOnce DEF HandedOver
    <3>3. lockOf'[u] = lockOf[u] /\ owner'[lockOf[u]] = u
      BY <2>2, <3>1, <3>2 DEF LInv, LockTypeOK
    <3>4. PICK m \in LockId : m = lockOf[u]
      BY <3>1
    <3>5. Waits(u, m)' /\ ~BeingWoken(u)'
      BY <2>5, <2>6, <3>1, <3>2, <3>4
    <3> QED
      BY <2>2, <3>1, <3>3, <3>4, <3>5 DEF Waits
  <2> QED
    BY <2>8, <2>11, <2>12, <2>13, <2>14, <2>16, <2>17 DEF LInv
<1> QED
  BY <1>4, <1>5

\* Waking a thread ends the unlock() of the one who wakes it, and its lock() if
\* it is in stop_thread.
LEMMA WakeUpKeeps ==
  ASSUME LInv, NEW t \in Thread, WakeUp(t)
  PROVE  /\ LInv'
         /\ target[t] \in Thread /\ lockOf[t] \in LockId
         /\ Waits(target[t], lockOf[t]) /\ owner[lockOf[t]] = target[t]
         /\ \A u \in Thread, m \in LockId :
              Waits(u, m)' <=> Waits(u, m) /\ ~(u = target[t] /\ phase[u] = "blocked")
         /\ UNCHANGED <<owner, lockState>>
<1> DEFINE n == target[t]
<1>1. /\ phase[t] = "waking" /\ n \in stopped
      /\ stopped' = stopped \ {n}
      /\ phase' = Returned(t, {n} \cap stopped)
      /\ lockOf' = [u \in Thread |-> IF phase'[u] = "out" THEN None ELSE lockOf[u]]
      /\ target' = [target EXCEPT ![t] = None]
      /\ t \notin stopped
      /\ missed' = IF phase[n] = "queued" THEN missed \cup {n} ELSE missed
      /\ UNCHANGED <<lockState, owner, ownerNext, last, next, faults>>
  BY DEF WakeUp, Restarts, fieldVars
<1>2. /\ n \in Thread /\ lockOf[t] \in LockId
      /\ Waits(n, lockOf[t]) /\ owner[lockOf[t]] = n /\ lockState[lockOf[t]] = "LOCKED"
  BY <1>1 DEF LInv, LockTypeOK, WakersMatch, PhasesMatch
<1>3. BeingWoken(n) /\ n \notin missed /\ t \notin missed /\ n # t
  BY <1>1, <1>2 DEF LInv, MissedMatch, BeingWoken, Waits
<1>4. /\ phase[n] \in {"queued", "blocked"} /\ lockOf[n] = lockOf[t]
      /\ phase[n] = "blocked" => n \notin faults
      /\ t \notin faults
  BY <1>1, <1>2, <1>3 DEF LInv, PhasesMatch, Waits
<1> HIDE DEF n
<1>5. phase' = [u \in Thread |-> IF u = t \/ (u = n /\ phase[n] = "blocked") THEN "out" ELSE phase[u]]
  BY <1>1, <1>2, <1>3 DEF Returned
<1>6. LockTypeOK'
  <2>1. /\ phase' \in [Thread -> Phase] /\ stopped' \subseteq Thread /\ missed' \subseteq Thread
        /\ lockOf' \in [Thread -> LockId \cup {None}]
    BY <1>1, <1>2, <1>5 DEF LInv, LockTypeOK, Phase
  <2>2. target' \in [Thread -> Thread \cup {None}]
    BY <1>1 DEF LInv, LockTypeOK
  <2> QED
    BY <1>1, <2>1, <2>2 DEF LInv, LockTypeOK
<1>7. \A u \in Thread, m \in LockId :
        Waits(u, m)' <=> Waits(u, m) /\ ~(u = n /\ phase[n] = "blocked")
  BY <1>1, <1>5 DEF Waits
<1>8. \A w \in Thread : phase'[w] = "waking" <=> phase[w] = "waking" /\ w # t
  BY <1>1, <1>4, <1>5
<1>9. \A w \in Thread : w # t => target'[w] = target[w]
  BY <1>1 DEF LInv, LockTypeOK
<1>10. \A u \in Thread : BeingWoken(u)' <=> BeingWoken(u) /\ u # n
  <2>1. \A w \in Thread : phase[w] = "waking" /\ target[w] = n => w = t
    BY <1>1 DEF LInv, WakersMatch, n
  <2> QED
    BY <1>8, <1>9, <2>1 DEF BeingWoken, n
<1>11. \A u \in Thread : HandedOver(u)' <=> HandedOver(u) /\ ~(u = n /\ phase[n] = "blocked")
  BY <1>1, <1>3, <1>4, <1>10 DEF HandedOver
<1>12. \A u \in Thread, m \in LockId : Pending(u, m)' <=> Pending(u, m)
  <2>1. HandedOver(n)
    BY <1>3 DEF HandedOver
  <2> QED
    BY <1>7, <1>11, <2>1 DEF Pending
<1>13. ListsExist'
  <2> SUFFICES ASSUME NEW l \in LockId PROVE \E q \in Seq(Thread) : Applicants(l, q)'
    BY DEF ListsExist
  <2>1. PICK q \in Seq(Thread) : Applicants(l, q)
    BY DEF LInv, ListsExist
  <2> QED
    BY <1>1, <1>12, <2>1, ListKept
<1>14. OwnersAwake'
  BY <1>1, <1>7, <1>11 DEF LInv, OwnersAwake
<1>15. WakersMatch'
  <2>1. ASSUME NEW w \in Thread, phase'[w] = "waking"
        PROVE  (/\ target[w] # None /\ Waits(target[w], lockOf[w])
                /\ owner[lockOf[w]] = target[w] /\ lockState[lockOf[w]] = "LOCKED")'
    <3>1. phase[w] = "waking" /\ target'[w] = target[w] /\ lockOf'[w] = lockOf[w] /\ w # t
      BY <1>1, <1>8, <1>9, <2>1
    <3>2. /\ target[w] # None /\ Waits(target[w], lockOf[w])
          /\ owner[lockOf[w]] = target[w] /\ lockState[lockOf[w]] = "LOCKED"
          /\ target[w] \in Thread /\ lockOf[w] \in LockId
      BY <3>1 DEF LInv, WakersMatch, PhasesMatch, LockTypeOK
    <3>3. target[w] # n
      BY <1>1, <3>1 DEF LInv, WakersMatch, n
    <3>4. PICK v \in Thread, m \in LockId : v = target[w] /\ m = lockOf[w]
      BY <3>2
    <3>5. Waits(v, m)'
      BY <1>7, <3>2, <3>3, <3>4
    <3> QED
      BY <1>1, <3>1, <3>2, <3>4, <3>5 DEF Waits
  <2>2. \A w, v \in Thread :
          (phase[w] = "waking" /\ phase[v] = "waking" /\ target[w] = target[v] => w = v)'
    BY <1>8, <1>9 DEF LInv, WakersMatch
  <2> QED
    BY <2>1, <2>2 DEF WakersMatch
<1>16. MissedMatch'
  <2> SUFFICES ASSUME NEW u \in missed'
               PROVE  (/\ lockOf[u] # None /\ Waits(u, lockOf[u]) /\ ~BeingWoken(u)
                       /\ owner[lockOf[u]] = u /\ lockState[lockOf[u]] = "LOCKED")'
    BY DEF MissedMatch
  <2>1. /\ lockOf[u] # None /\ Waits(u, lockOf[u]) /\ ~(u = n /\ phase[n] = "blocked") /\ u # t
        /\ owner[lockOf[u]] = u /\ lockState[lockOf[u]] = "LOCKED"
        /\ u \in Thread /\ lockOf[u] \in LockId /\ (u # n => ~BeingWoken(u))
    <3>1. CASE u = n
      BY <1>1, <1>2, <1>3, <1>4, <3>1, LockAssumption
    <3>2. CASE u # n
      BY <1>1, <1>3, <3>2 DEF LInv, MissedMatch, LockTypeOK
    <3> QED
      BY <3>1, <3>2
  <2>2. lockOf'[u] = lockOf[u]
    BY <1>1, <1>5, <2>1 DEF Waits
  <2>3. PICK m \in LockId : m = lockOf[u]
    BY <2>1
  <2>4. Waits(u, m)' /\ ~BeingWoken(u)'
    BY <1>7, <1>10, <2>1, <2>3
  <2> QED
    BY <1>1, <2>1, <2>2, <2>3, <2>4
<1>17. PhasesMatch'
  BY <1>1, <1>2, <1>3, <1>4, <1>5, LockAssumption DEF LInv, LockTypeOK, PhasesMatch
<1> QED
  BY <1>1, <1>2, <1>6, <1>7, <1>13, <1>14, <1>15, <1>16, <1>17 DEF LInv, n

\* A page fault stops a thread where it is.
LEMMA MmuExceptionKeeps ==
  ASSUME LInv, NEW t \in Thread, MmuException(t)
  PROVE  /\ LInv'
         /\ \A u \in Thread, m \in LockId : Waits(u, m)' <=> Waits(u, m)
         /\ UNCHANGED <<owner, lockState>>
<1>1. /\ UNCHANGED <<lockState, owner, ownerNext, last, next, phase, lockOf, target, missed>>
      /\ t \notin stopped /\ stopped' = stopped \cup {t} /\ faults' = faults \cup {t}
  BY DEF MmuException, fieldVars
<1>2. \A u \in Thread, m \in LockId :
        /\ Waits(u, m)' <=> Waits(u, m)
        /\ HandedOver(u)' <=> HandedOver(u)
        /\ Pending(u, m)' <=> Pending(u, m)
  BY <1>1 DEF Waits, HandedOver, BeingWoken, Pending
<1>3. LockTypeOK' /\ PhasesMatch'
  BY <1>1 DEF LInv, LockTypeOK, PhasesMatch
<1>4. ListsExist'
  <2> SUFFICES ASSUME NEW l \in LockId PROVE \E q \in Seq(Thread) : Applicants(l, q)'
    BY DEF ListsExist
  <2>1. PICK q \in Seq(Thread) : Applicants(l, q)
    BY DEF LInv, ListsExist
  <2> QED
    BY <1>1, <1>2, <2>1, ListKept
<1>5. OwnersAwake' /\ WakersMatch' /\ MissedMatch'
  BY <1>1, <1>2 DEF LInv, OwnersAwake, WakersMatch, MissedMatch, BeingWoken, Waits
<1> QED
  BY <1>1, <1>2, <1>3, <1>4, <1>5 DEF LInv

\* The pager restarts a thread where it is. If the thread is in stop_thread, it was
\* woken in front of it: its lock() returns, and it owns the lock.
LEMMA PagerWakeUpKeeps ==
  ASSUME LInv, NEW t \in Thread, PagerWakeUp(t)
  PROVE  /\ LInv'
         /\ \A u \in Thread, m \in LockId :
              Waits(u, m)' <=> Waits(u, m) /\ ~(u = t /\ phase[t] = "blocked")
         /\ phase[t] = "blocked" =>
              /\ lockOf[t] \in LockId /\ Waits(t, lockOf[t])
              /\ owner[lockOf[t]] = t /\ lockState[lockOf[t]] = "LOCKED"
         /\ UNCHANGED <<owner, lockState>>
<1>1. /\ t \in faults /\ faults' = faults \ {t} /\ stopped' = stopped \ {t}
      /\ phase' = Returned(None, {t} \cap stopped)
      /\ lockOf' = [u \in Thread |-> IF phase'[u] = "out" THEN None ELSE lockOf[u]]
      /\ missed' = {u \in missed : phase'[u] # "out"}
      /\ UNCHANGED <<lockState, owner, ownerNext, last, next, target>>
  BY DEF PagerWakeUp, fieldVars
<1>2. phase[t] = "blocked" => t \in missed /\ t \in stopped
  BY <1>1 DEF LInv, PhasesMatch
<1>3. phase' = [u \in Thread |-> IF u = t /\ phase[t] = "blocked" THEN "out" ELSE phase[u]]
  BY <1>1, <1>2, LockAssumption DEF Returned
<1>4. \A u \in missed :
        /\ lockOf[u] # None /\ Waits(u, lockOf[u]) /\ ~BeingWoken(u)
        /\ owner[lockOf[u]] = u /\ lockState[lockOf[u]] = "LOCKED"
        /\ u \in Thread /\ lockOf[u] \in LockId
  BY DEF LInv, MissedMatch, LockTypeOK
<1>5. \A u \in Thread : u \in missed' <=> u \in missed /\ ~(u = t /\ phase[t] = "blocked")
  BY <1>1, <1>3, <1>4 DEF Waits
<1>6. LockTypeOK'
  BY <1>1, <1>3 DEF LInv, LockTypeOK, Phase
<1>7. \A u \in Thread, m \in LockId :
        Waits(u, m)' <=> Waits(u, m) /\ ~(u = t /\ phase[t] = "blocked")
  BY <1>1, <1>3 DEF Waits
<1>8. \A w \in Thread : /\ phase'[w] = "waking" <=> phase[w] = "waking"
                        /\ phase'[w] = "waking" => lockOf'[w] = lockOf[w]
  BY <1>1, <1>3
<1>9. \A u \in Thread : BeingWoken(u)' <=> BeingWoken(u)
  BY <1>1, <1>8 DEF BeingWoken
<1>10. phase[t] = "blocked" => ~BeingWoken(t) /\ HandedOver(t)
  BY <1>2, <1>4 DEF HandedOver
<1>11. \A u \in Thread : HandedOver(u)' <=> HandedOver(u) /\ ~(u = t /\ phase[t] = "blocked")
  BY <1>5, <1>9, <1>10 DEF HandedOver
<1>12. \A u \in Thread, m \in LockId : Pending(u, m)' <=> Pending(u, m)
  BY <1>7, <1>10, <1>11 DEF Pending
<1>13. ListsExist'
  <2> SUFFICES ASSUME NEW l \in LockId PROVE \E q \in Seq(Thread) : Applicants(l, q)'
    BY DEF ListsExist
  <2>1. PICK q \in Seq(Thread) : Applicants(l, q)
    BY DEF LInv, ListsExist
  <2> QED
    BY <1>1, <1>12, <2>1, ListKept
<1>14. OwnersAwake'
  BY <1>1, <1>7, <1>11 DEF LInv, OwnersAwake
<1>15. WakersMatch'
  <2>1. ASSUME NEW w \in Thread, phase'[w] = "waking"
        PROVE  (/\ target[w] # None /\ Waits(target[w], lockOf[w])
                /\ owner[lockOf[w]] = target[w] /\ lockState[lockOf[w]] = "LOCKED")'
    <3>1. phase[w] = "waking" /\ lockOf'[w] = lockOf[w]
      BY <1>8, <2>1
    <3>2. /\ target[w] # None /\ Waits(target[w], lockOf[w])
          /\ owner[lockOf[w]] = target[w] /\ lockState[lockOf[w]] = "LOCKED"
          /\ target[w] \in Thread /\ lockOf[w] \in LockId
      BY <3>1 DEF LInv, WakersMatch, PhasesMatch, LockTypeOK
    <3>3. ~(target[w] = t /\ phase[t] = "blocked")
      BY <1>10, <3>1 DEF BeingWoken
    <3>4. PICK v \in Thread, m \in LockId : v = target[w] /\ m = lockOf[w]
      BY <3>2
    <3>5. Waits(v, m)'
      BY <1>7, <3>2, <3>3, <3>4
    <3> QED
      BY <1>1, <3>1, <3>2, <3>4, <3>5 DEF Waits
  <2>2. \A w, v \in Thread :
          (phase[w] = "waking" /\ phase[v] = "waking" /\ target[w] = target[v] => w = v)'
    BY <1>1, <1>8 DEF LInv, WakersMatch
  <2> QED
    BY <2>1, <2>2 DEF WakersMatch
<1>16. MissedMatch'
  <2> SUFFICES ASSUME NEW u \in missed'
               PROVE  (/\ lockOf[u] # None /\ Waits(u, lockOf[u]) /\ ~BeingWoken(u)
                       /\ owner[lockOf[u]] = u /\ lockState[lockOf[u]] = "LOCKED")'
    BY DEF MissedMatch
  <2>1. u \in missed /\ u \in Thread /\ ~(u = t /\ phase[t] = "blocked")
    BY <1>1, <1>4, <1>5
  <2>2. lockOf'[u] = lockOf[u]
    BY <1>1, <2>1
  <2>3. PICK m \in LockId : m = lockOf[u]
    BY <1>4, <2>1
  <2>4. Waits(u, m)' /\ ~BeingWoken(u)'
    BY <1>4, <1>7, <1>9, <2>1, <2>3
  <2> QED
    BY <1>1, <1>4, <2>1, <2>2, <2>3, <2>4
<1>17. PhasesMatch'
  <2>1. \A u \in Thread : phase'[u] = "out" <=> lockOf'[u] = None
    BY <1>1, <1>3 DEF LInv, PhasesMatch
  <2>2. \A u \in Thread : /\ phase'[u] = "blocked" => u # t /\ phase[u] = "blocked"
                          /\ u # t => phase'[u] = phase[u] /\ (u \in missed' <=> u \in missed)
    BY <1>3, <1>5
  <2> QED
    BY <1>1, <2>1, <2>2 DEF LInv, PhasesMatch
<1> QED
  BY <1>1, <1>2, <1>4, <1>6, <1>7, <1>13, <1>14, <1>15, <1>16, <1>17 DEF LInv

-----------------------------------------------------------------------------
(* The semaphore *)

Section == {"downLock", "downEnqueue", "downUnlock", "downUnlockWait",
            "upLock", "upDequeue", "upUnlock"}

SemTypeOK ==
  /\ cnt \in Int
  /\ queue \in Seq(Thread)
  /\ at \in [Thread -> Place]
  /\ element \in [Thread -> Thread \cup {None}]
  /\ alive \subseteq Thread

\* The part of the invariant that relates threads to locks.
CallInv == CallsMatch /\ MutualExclusion

\* The part of the invariant that relates elements to threads and locks.
ElemInv == ElementsUnique /\ ElementsOnStack /\ BlockadesClosed

\* The inductive invariant.
IInv == LInv /\ SemTypeOK /\ CallInv /\ ElemInv /\ QueueCounted

\* A thread that runs in the section owns the mutex, and no other thread is past
\* waiting for it.
LEMMA SectionExcludes ==
  ASSUME IInv, NEW t \in Thread, Runs(t), at[t] \in Section
  PROVE  /\ owner[MetaLock] = t /\ lockState[MetaLock] = "LOCKED"
         /\ \A u \in Thread : u # t => ~InSection(u)
         /\ \A u \in Thread : u # t /\ at[u] \in Section => at[u] \in {"downLock", "upLock"}
         /\ \A w \in Thread : phase[w] = "waking" => lockOf[w] # MetaLock
         /\ \A u \in missed : lockOf[u] # MetaLock
<1>1. MetaLock \in LockId
  BY SemaphoreAssumption
<1>2. ~Waits(t, MetaLock)
  BY <1>1, WaitsOnce DEF IInv
<1>3. owner[MetaLock] = t /\ lockState[MetaLock] = "LOCKED"
  BY <1>2 DEF IInv, CallInv, MutualExclusion, InSection, Section
<1>4. \A u \in Thread : u # t => ~InSection(u)
  BY <1>3 DEF IInv, CallInv, MutualExclusion
<1>5. \A u \in Thread : u # t /\ at[u] \in Section => at[u] \in {"downLock", "upLock"}
  BY <1>1, <1>4 DEF IInv, CallInv, CallsMatch, InSection, Section
<1>6. \A w \in Thread : phase[w] = "waking" => lockOf[w] # MetaLock
  BY <1>2, <1>3 DEF IInv, LInv, WakersMatch
<1>7. \A u \in missed : lockOf[u] # MetaLock
  BY <1>2, <1>3 DEF IInv, LInv, MissedMatch
<1> QED
  BY <1>3, <1>4, <1>5, <1>6, <1>7

\* Releasing the mutex is never denied.
LEMMA MutexReleaseKeeps ==
  ASSUME IInv, NEW t \in Thread, at[t] \in Section, MutexRelease(t, MetaLock)
  PROVE  LInv' /\ Unlocked(t, MetaLock)
<1>1. Runs(t) /\ MetaLock \in LockId
  BY SemaphoreAssumption DEF MutexRelease, LockUnlock
<1>2. /\ owner[MetaLock] = t /\ lockState[MetaLock] = "LOCKED"
      /\ \A w \in Thread : phase[w] = "waking" => lockOf[w] # MetaLock
      /\ \A u \in missed : lockOf[u] # MetaLock
  BY <1>1, SectionExcludes
<1>3. LockUnlock(t, MetaLock)
  BY <1>2 DEF MutexRelease
<1> QED
  BY <1>1, <1>2, <1>3, LockUnlockKeeps DEF IInv

\* Nobody but the thread itself waits for the blockade of its element, and only
\* at the end of down().
LEMMA BlockadeWaiters ==
  ASSUME IInv, NEW t \in Thread
  PROVE  /\ t \in LockId /\ t # MetaLock
         /\ \A u \in Thread : Waits(u, t) => u = t /\ at[t] = "downEnd"
<1>1. t \in LockId /\ t # MetaLock
  BY SemaphoreAssumption
<1> QED
  BY <1>1 DEF IInv, CallInv, CallsMatch

\* An element in the queue or in the hands of up() has not been woken.
LEMMA EnlistedNotWoken ==
  ASSUME IInv, NEW t \in Thread, Enlisted(t)
  PROVE  /\ \A w \in Thread : phase[w] = "waking" => lockOf[w] # t
         /\ \A u \in missed : lockOf[u] # t
<1>1. SUFFICES ASSUME NEW u \in Thread, Waits(u, t), owner[t] = u
               PROVE  FALSE
  <2>1. ASSUME NEW w \in Thread, phase[w] = "waking", lockOf[w] = t PROVE FALSE
    <3>1. target[w] \in Thread /\ Waits(target[w], t) /\ owner[t] = target[w]
      BY <2>1 DEF IInv, LInv, LockTypeOK, WakersMatch
    <3> QED
      BY <1>1, <3>1
  <2>2. ASSUME NEW u \in missed, lockOf[u] = t PROVE FALSE
    <3>1. u \in Thread /\ Waits(u, t) /\ owner[t] = u
      BY <2>2 DEF IInv, LInv, LockTypeOK, MissedMatch
    <3> QED
      BY <1>1, <3>1
  <2> QED
    BY <2>1, <2>2
<1>2. u = t /\ at[t] = "downEnd"
  BY <1>1, BlockadeWaiters
<1>3. owner[t] = None
  BY <1>2 DEF IInv, ElemInv, BlockadesClosed
<1> QED
  BY <1>1, <1>3, LockAssumption

\* A thread that moves outside of the life of its element and of up()'s work on
\* another one disturbs no element.
LEMMA ElementsKept ==
  ASSUME IInv, NEW t \in Thread, NEW p \in Place,
         at' = [at EXCEPT ![t] = p],
         UNCHANGED <<queue, element, alive>>,
         at[t] \notin {"downUnlockWait", "downBlock", "downEnd", "upUnlock", "upWake"},
         p \notin {"downUnlockWait", "downBlock", "downEnd", "upWake"},
         \A u \in Thread : /\ owner'[u] = owner[u] /\ lockState'[u] = lockState[u]
                           /\ Waits(u, u) => Waits(u, u)'
  PROVE  ElemInv'
<1>1. \A u \in Thread : at'[u] = IF u = t THEN p ELSE at[u]
  BY DEF IInv, SemTypeOK
<1>2. element[t] = None /\ t \notin alive /\ ~Enlisted(t)
  BY DEF IInv, ElemInv, ElementsUnique, ElementsOnStack, BlockadesClosed
<1>3. ElementsUnique'
  BY <1>1, <1>2 DEF IInv, ElemInv, ElementsUnique
<1>4. ElementsOnStack'
  BY <1>1, <1>2 DEF IInv, ElemInv, ElementsOnStack
<1>5. \A u \in Thread : Enlisted(u)' <=> Enlisted(u)
  BY DEF Enlisted
<1>6. BlockadesClosed'
  BY <1>1, <1>2, <1>5 DEF IInv, ElemInv, BlockadesClosed
<1> QED
  BY <1>3, <1>4, <1>6 DEF ElemInv

\* A thread that is not between counting and changing the queue disturbs neither.
LEMMA CountKept ==
  ASSUME IInv, NEW t \in Thread, NEW p \in Place,
         at' = [at EXCEPT ![t] = p],
         UNCHANGED <<cnt, queue>>,
         at[t] \notin {"downEnqueue", "upDequeue"},
         p \notin {"downEnqueue", "upDequeue"}
  PROVE  QueueCounted'
<1>1. \A u \in Thread : at'[u] = IF u = t THEN p ELSE at[u]
  BY DEF IInv, SemTypeOK
<1>2. \A u \in Thread : (at'[u] = "downEnqueue" <=> at[u] = "downEnqueue")
                     /\ (at'[u] = "upDequeue" <=> at[u] = "upDequeue")
  BY <1>1
<1> QED
  BY <1>2 DEF IInv, QueueCounted

\* Steps inside the section leave the mutex alone.
LEMMA SectionKept ==
  ASSUME IInv, NEW t \in Thread, NEW p \in Section, Runs(t), at[t] \in Section,
         at' = [at EXCEPT ![t] = p],
         owner'[MetaLock] = owner[MetaLock], lockState'[MetaLock] = lockState[MetaLock],
         \A u \in Thread, l \in LockId : Waits(u, l)' <=> Waits(u, l)
  PROVE  CallInv'
<1>1. \A u \in Thread : at'[u] = IF u = t THEN p ELSE at[u]
  BY DEF IInv, SemTypeOK
<1>2. \A l \in LockId : ~Waits(t, l)
  BY WaitsOnce DEF IInv
<1>3. CallsMatch'
  BY <1>1, <1>2 DEF IInv, CallInv, CallsMatch
<1>4. /\ owner[MetaLock] = t /\ lockState[MetaLock] = "LOCKED"
      /\ \A u \in Thread : u # t => ~InSection(u)
  BY SectionExcludes
<1>5. \A u \in Thread : u # t => (InSection(u)' <=> InSection(u))
  BY <1>1, SemaphoreAssumption DEF InSection
<1>6. MutualExclusion'
  BY <1>4, <1>5 DEF MutualExclusion
<1> QED
  BY <1>3, <1>6 DEF CallInv

\* Leaving the section gives the mutex to nobody who is past waiting for it.
LEMMA SectionLeft ==
  ASSUME IInv, NEW t \in Thread, NEW p \in Place \ Section, Runs(t), at[t] \in Section,
         at' = [at EXCEPT ![t] = p],
         Unlocked(t, MetaLock)
  PROVE  CallInv'
<1>1. \A u \in Thread : at'[u] = IF u = t THEN p ELSE at[u]
  BY DEF IInv, SemTypeOK
<1>2. \A l \in LockId : ~Waits(t, l)
  BY WaitsOnce DEF IInv
<1>3. \A u \in Thread, l \in LockId : Waits(u, l)' <=> Waits(u, l)
  BY DEF Unlocked
<1>4. CallsMatch'
  BY <1>1, <1>2, <1>3 DEF IInv, CallInv, CallsMatch
<1>5. \A u \in Thread : u # t => ~InSection(u)
  BY SectionExcludes
<1>6. \A u \in Thread : u # t => (InSection(u)' <=> InSection(u))
  BY <1>1, <1>3, SemaphoreAssumption DEF InSection
<1>7. ~InSection(t)'
  BY <1>1 DEF InSection, Section
<1>8. MutualExclusion'
  BY <1>5, <1>6, <1>7 DEF MutualExclusion
<1> QED
  BY <1>4, <1>8 DEF CallInv

\* Steps outside of the section that do not touch the mutex.
LEMMA OutsideKept ==
  ASSUME IInv, NEW t \in Thread, NEW p \in Place \ Section, Runs(t), at[t] \notin Section,
         at' = [at EXCEPT ![t] = p],
         owner'[MetaLock] = owner[MetaLock], lockState'[MetaLock] = lockState[MetaLock],
         \A u \in Thread, l \in LockId : u # t => (Waits(u, l)' <=> Waits(u, l)),
         \A l \in LockId : Waits(t, l)' => l = t /\ p = "downEnd"
  PROVE  CallInv'
<1>1. \A u \in Thread : at'[u] = IF u = t THEN p ELSE at[u]
  BY DEF IInv, SemTypeOK
<1>2. CallsMatch'
  BY <1>1, SemaphoreAssumption DEF IInv, CallInv, CallsMatch
<1>3. \A u \in Thread : u # t => (InSection(u)' <=> InSection(u))
  BY <1>1, SemaphoreAssumption DEF InSection
<1>4. ~InSection(t)'
  BY <1>1 DEF InSection, Section
<1>5. MutualExclusion'
  BY <1>3, <1>4 DEF IInv, CallInv, MutualExclusion
<1> QED
  BY <1>2, <1>5 DEF CallInv

-----------------------------------------------------------------------------
(* Every step keeps the invariant. *)

\* down() and up() begin with acquiring the mutex.
LEMMA AcquireKeeps ==
  ASSUME IInv, NEW t \in Thread, NEW p \in {"downLock", "upLock"},
         at[t] = "idle", at' = [at EXCEPT ![t] = p],
         LockLock(t, MetaLock),
         UNCHANGED <<cnt, queue, element, alive>>
  PROVE  IInv'
<1>1. MetaLock \in LockId /\ MetaLock \notin Thread /\ Thread \subseteq LockId /\ p \in Place
  BY SemaphoreAssumption DEF Place
<1>2. LInv' /\ Locked(t, MetaLock)
  BY <1>1, LockLockKeeps DEF IInv
<1>3. Runs(t)
  BY DEF LockLock
<1>4. \A u \in Thread : at'[u] = IF u = t THEN p ELSE at[u]
  BY DEF IInv, SemTypeOK
<1>5. \A l \in LockId : ~Waits(t, l)
  BY <1>3, WaitsOnce DEF IInv
<1>6. /\ \A u \in Thread, l \in LockId : u # t => (Waits(u, l)' <=> Waits(u, l))
      /\ \A l \in LockId : Waits(t, l)' => l = MetaLock
  BY <1>2, <1>5 DEF Locked
<1>7. CallsMatch'
  BY <1>4, <1>6 DEF IInv, CallInv, CallsMatch
<1>8. MutualExclusion'
  <2>1. SUFFICES ASSUME NEW u \in Thread, InSection(u)'
                 PROVE  owner'[MetaLock] = u /\ lockState'[MetaLock] = "LOCKED"
    BY DEF MutualExclusion
  <2>2. CASE u # t
    <3>1. InSection(u)
      BY <1>1, <1>4, <1>6, <2>1, <2>2 DEF InSection
    <3>2. owner[MetaLock] = u /\ lockState[MetaLock] = "LOCKED"
      BY <3>1 DEF IInv, CallInv, MutualExclusion
    <3> QED
      BY <1>2, <2>2, <3>2 DEF Locked
  <2>3. CASE u = t
    <3>1. ~Waits(t, MetaLock)'
      BY <2>1, <2>3 DEF InSection
    <3> QED
      BY <1>1, <1>2, <2>3, <3>1 DEF Locked, IInv, LInv, LockTypeOK
  <2> QED
    BY <2>2, <2>3
<1>9. \A u \in Thread : owner'[u] = owner[u] /\ lockState'[u] = lockState[u]
  BY <1>1, <1>2 DEF Locked, IInv, LInv, LockTypeOK
<1>10. \A u \in Thread : Waits(u, u) => Waits(u, u)'
  BY <1>1, <1>5, <1>6
<1>11. ElemInv'
  BY <1>1, <1>9, <1>10, ElementsKept
<1>12. QueueCounted'
  BY <1>1, CountKept
<1>13. SemTypeOK'
  BY <1>1 DEF IInv, SemTypeOK
<1> QED
  BY <1>2, <1>7, <1>8, <1>11, <1>12, <1>13 DEF IInv, CallInv

\* A step that changes nothing in the locks.
LEMMA LockFrame ==
  ASSUME LInv, UNCHANGED lockVars
  PROVE  /\ LInv' /\ UNCHANGED <<owner, lockState>>
         /\ \A u \in Thread, l \in LockId : Waits(u, l)' <=> Waits(u, l)
<1>1. UNCHANGED <<lockState, owner, ownerNext, last, next, phase, lockOf, target, stopped, faults, missed>>
  BY DEF lockVars, fieldVars, kernelVars
<1>2. \A u \in Thread, l \in LockId :
        (Waits(u, l)' <=> Waits(u, l)) /\ (HandedOver(u)' <=> HandedOver(u)) /\ (Pending(u, l)' <=> Pending(u, l))
  BY <1>1 DEF Waits, HandedOver, BeingWoken, Pending
<1>3. ListsExist'
  <2> SUFFICES ASSUME NEW l \in LockId PROVE \E q \in Seq(Thread) : Applicants(l, q)'
    BY DEF ListsExist
  <2>1. PICK q \in Seq(Thread) : Applicants(l, q)
    BY DEF LInv, ListsExist
  <2> QED
    BY <1>1, <1>2, <2>1, ListKept
<1>4. LockTypeOK' /\ OwnersAwake' /\ WakersMatch' /\ MissedMatch' /\ PhasesMatch'
  BY <1>1, <1>2 DEF LInv, LockTypeOK, OwnersAwake, WakersMatch, MissedMatch, BeingWoken, PhasesMatch, Waits
<1> QED
  BY <1>1, <1>2, <1>3, <1>4 DEF LInv

LEMMA DownCountKeeps ==
  ASSUME IInv, NEW t \in Thread, DownCount(t)
  PROVE  IInv'
<1> DEFINE p == IF cnt - 1 < 0 THEN "downEnqueue" ELSE "downUnlock"
<1>1. /\ Runs(t) /\ at[t] = "downLock" /\ at' = [at EXCEPT ![t] = p]
      /\ cnt' = cnt - 1
      /\ UNCHANGED lockVars /\ UNCHANGED <<queue, element, alive>>
  BY DEF DownCount, Goto
<1>2. p \in Section /\ p \in Place /\ at[t] \in Section
  BY <1>1 DEF Section, Place
<1>3. LInv' /\ UNCHANGED <<owner, lockState>> /\ \A u \in Thread, l \in LockId : Waits(u, l)' <=> Waits(u, l)
  BY <1>1, LockFrame DEF IInv
<1>4. CallInv'
  BY <1>1, <1>2, <1>3, SectionKept
<1>5. ElemInv'
  BY <1>1, <1>2, <1>3, ElementsKept, SemaphoreAssumption
<1>6. \A u \in Thread : u # t => at[u] \notin {"downEnqueue", "upDequeue"}
  BY <1>1, <1>2, SectionExcludes DEF Section
<1>7. cnt \in Int /\ Len(queue) \in Nat /\ \A u \in Thread : at'[u] = IF u = t THEN p ELSE at[u]
  BY <1>1 DEF IInv, SemTypeOK
<1>8. Len(queue) = IF cnt < 0 THEN -cnt ELSE 0
  BY <1>1, <1>6 DEF IInv, QueueCounted
<1>9. QueueCounted'
  BY <1>1, <1>6, <1>7, <1>8 DEF QueueCounted
<1>10. SemTypeOK'
  BY <1>1, <1>2 DEF IInv, SemTypeOK
<1> QED
  BY <1>3, <1>4, <1>5, <1>9, <1>10 DEF IInv

LEMMA UpCountKeeps ==
  ASSUME IInv, NEW t \in Thread, UpCount(t)
  PROVE  IInv'
<1> DEFINE p == IF cnt + 1 > 0 THEN "upUnlock" ELSE "upDequeue"
<1>1. /\ Runs(t) /\ at[t] = "upLock" /\ at' = [at EXCEPT ![t] = p]
      /\ cnt' = cnt + 1
      /\ UNCHANGED lockVars /\ UNCHANGED <<queue, element, alive>>
  BY DEF UpCount, Goto, NobodyWaits, Incremented
<1>2. p \in Section /\ p \in Place /\ at[t] \in Section
  BY <1>1 DEF Section, Place
<1>3. LInv' /\ UNCHANGED <<owner, lockState>> /\ \A u \in Thread, l \in LockId : Waits(u, l)' <=> Waits(u, l)
  BY <1>1, LockFrame DEF IInv
<1>4. CallInv'
  BY <1>1, <1>2, <1>3, SectionKept
<1>5. ElemInv'
  BY <1>1, <1>2, <1>3, ElementsKept, SemaphoreAssumption
<1>6. \A u \in Thread : u # t => at[u] \notin {"downEnqueue", "upDequeue"}
  BY <1>1, <1>2, SectionExcludes DEF Section
<1>7. cnt \in Int /\ Len(queue) \in Nat /\ \A u \in Thread : at'[u] = IF u = t THEN p ELSE at[u]
  BY <1>1 DEF IInv, SemTypeOK
<1>8. Len(queue) = IF cnt < 0 THEN -cnt ELSE 0
  BY <1>1, <1>6 DEF IInv, QueueCounted
<1>9. QueueCounted'
  BY <1>1, <1>6, <1>7, <1>8 DEF QueueCounted
<1>10. SemTypeOK'
  BY <1>1, <1>2 DEF IInv, SemTypeOK
<1> QED
  BY <1>3, <1>4, <1>5, <1>9, <1>10 DEF IInv

\* What the step that enqueues an element does to queue and locks.
LEMMA DownEnqueueKeeps ==
  ASSUME IInv, NEW t \in Thread, DownEnqueue(t)
  PROVE  IInv'
<1>1. /\ Runs(t) /\ at[t] = "downEnqueue" /\ at' = [at EXCEPT ![t] = "downUnlockWait"]
      /\ alive' = alive \cup {t} /\ queue' = Append(queue, t)
      /\ Grab(t, t) /\ UNCHANGED <<target, kernelVars>> /\ UNCHANGED <<cnt, element>>
  BY DEF DownEnqueue, Goto, Enqueued, NewBlockade
<1>2. t \in LockId /\ t # MetaLock /\ \A u \in Thread : ~Waits(u, t)
  BY <1>1, BlockadeWaiters
<1>3. LInv'
  BY <1>1, <1>2, GrabKeeps DEF IInv
<1>4. /\ owner' = [owner EXCEPT ![t] = t]
      /\ lockState' = [lockState EXCEPT ![t] = "LOCKED"]
      /\ \A u \in Thread, l \in LockId : Waits(u, l)' <=> Waits(u, l)
  BY <1>1 DEF Grab, Waits
<1>5. /\ owner'[t] = t /\ lockState'[t] = "LOCKED"
      /\ owner'[MetaLock] = owner[MetaLock] /\ lockState'[MetaLock] = lockState[MetaLock]
      /\ \A u \in Thread : u # t => owner'[u] = owner[u] /\ lockState'[u] = lockState[u]
  BY <1>2, <1>4 DEF IInv, LInv, LockTypeOK
<1>6. "downUnlockWait" \in Section /\ "downUnlockWait" \in Place /\ at[t] \in Section
  BY <1>1 DEF Section, Place
<1>7. CallInv'
  BY <1>1, <1>4, <1>5, <1>6, SectionKept
<1>8. \A u \in Thread : at'[u] = IF u = t THEN "downUnlockWait" ELSE at[u]
  BY <1>1 DEF IInv, SemTypeOK
<1>9. t \notin alive /\ ~Enlisted(t) /\ t \notin ToSet(queue)
  BY <1>1 DEF IInv, ElemInv, ElementsOnStack, BlockadesClosed, Enlisted
<1>10. queue \in Seq(Thread) /\ Distinct(queue)
  BY DEF IInv, SemTypeOK, ElemInv, ElementsUnique, Distinct
<1>11. /\ queue' \in Seq(Thread) /\ Distinct(queue')
       /\ \A u : u \in ToSet(queue') <=> u \in ToSet(queue) \/ u = t
  BY <1>1, <1>9, <1>10, AppendedElements
<1>12. \A u \in Thread : element[u] # t
  BY <1>9 DEF Enlisted
<1>13. ElementsUnique'
  BY <1>1, <1>8, <1>11, <1>12 DEF IInv, ElemInv, ElementsUnique, Distinct
<1>14. ElementsOnStack'
  BY <1>1, <1>8, <1>11 DEF IInv, ElemInv, ElementsOnStack
<1>15. \A u \in Thread : Enlisted(u)' <=> Enlisted(u) \/ u = t
  BY <1>1, <1>11 DEF Enlisted
<1>16. BlockadesClosed'
  <2>1. SUFFICES ASSUME NEW u \in Thread, Enlisted(u)'
                 PROVE  (/\ u \in alive /\ lockState[u] = "LOCKED"
                         /\ IF at[u] = "downEnd" THEN owner[u] = None /\ Waits(u, u) ELSE owner[u] = u)'
    BY DEF BlockadesClosed
  <2>2. CASE u = t
    BY <1>1, <1>5, <1>8, <2>2
  <2>3. CASE u # t
    <3>1. /\ u \in alive /\ lockState[u] = "LOCKED"
          /\ IF at[u] = "downEnd" THEN owner[u] = None /\ Waits(u, u) ELSE owner[u] = u
      BY <1>15, <2>1, <2>3 DEF IInv, ElemInv, BlockadesClosed
    <3>2. Waits(u, u)' <=> Waits(u, u)
      BY <1>4, SemaphoreAssumption
    <3> QED
      BY <1>1, <1>5, <1>8, <2>3, <3>1, <3>2
  <2> QED
    BY <2>2, <2>3
<1>17. QueueCounted'
  <2>1. \A u \in Thread : u # t => at[u] \notin {"downEnqueue", "upDequeue"}
    BY <1>1, <1>6, SectionExcludes DEF Section
  <2>2. Len(queue) = (IF cnt < 0 THEN -cnt ELSE 0) - 1 /\ cnt \in Int
    BY <1>1 DEF IInv, QueueCounted, SemTypeOK
  <2>3. Len(queue') = Len(queue) + 1 /\ Len(queue) \in Nat
    BY <1>1, <1>10
  <2> QED
    BY <1>1, <1>8, <2>1, <2>2, <2>3 DEF QueueCounted
<1>18. SemTypeOK'
  BY <1>1, <1>6, <1>11 DEF IInv, SemTypeOK
<1> QED
  BY <1>3, <1>7, <1>13, <1>14, <1>16, <1>17, <1>18 DEF IInv, ElemInv

\* Releasing the mutex, whether the element of the thread is in the queue or the
\* thread has taken one from it.
LEMMA ReleaseKeeps ==
  ASSUME IInv, NEW t \in Thread, NEW p \in Place \ Section,
         at[t] \in {"downUnlock", "downUnlockWait", "upUnlock"},
         at[t] = "downUnlock" => p = "idle",
         at[t] = "downUnlockWait" => p = "downBlock",
         at[t] = "upUnlock" => p = (IF element[t] = None THEN "idle" ELSE "upWake"),
         at' = [at EXCEPT ![t] = p],
         MutexRelease(t, MetaLock),
         UNCHANGED <<cnt, queue, element, alive>>
  PROVE  IInv'
<1>1. at[t] \in Section
  BY DEF Section
<1>2. LInv' /\ Unlocked(t, MetaLock)
  BY <1>1, MutexReleaseKeeps
<1>3. Runs(t)
  BY DEF MutexRelease, LockUnlock
<1>4. CallInv'
  BY <1>1, <1>2, <1>3, SectionLeft
<1>5. MetaLock \notin Thread /\ Thread \subseteq LockId /\ MetaLock \in LockId
  BY SemaphoreAssumption
<1>6. \A u \in Thread : /\ owner'[u] = owner[u] /\ lockState'[u] = lockState[u]
                        /\ Waits(u, u)' <=> Waits(u, u)
  BY <1>2, <1>5 DEF Unlocked, IInv, LInv, LockTypeOK
<1>7. \A u \in Thread : at'[u] = IF u = t THEN p ELSE at[u]
  BY DEF IInv, SemTypeOK
<1>8. ElementsUnique'
  BY <1>7 DEF IInv, ElemInv, ElementsUnique
<1>9. ElementsOnStack'
  BY <1>7 DEF IInv, ElemInv, ElementsOnStack
<1>10. \A u \in Thread : Enlisted(u)' <=> Enlisted(u)
  BY DEF Enlisted
<1>11. BlockadesClosed'
  <2>1. Enlisted(t) => at[t] = "downUnlockWait"
    BY DEF IInv, ElemInv, BlockadesClosed, ElementsOnStack
  <2> QED
    BY <1>6, <1>7, <1>10, <2>1 DEF IInv, ElemInv, BlockadesClosed
<1>12. QueueCounted'
  <2>1. p \notin {"downEnqueue", "upDequeue"}
    BY DEF Section
  <2> QED
    BY <2>1, CountKept
<1>13. SemTypeOK'
  BY DEF IInv, SemTypeOK
<1> QED
  BY <1>2, <1>4, <1>8, <1>9, <1>11, <1>12, <1>13 DEF IInv, ElemInv

LEMMA DownReleaseKeeps ==
  ASSUME IInv, NEW t \in Thread, DownRelease(t)
  PROVE  IInv'
<1>1. "idle" \in Place \ Section /\ "downBlock" \in Place \ Section
  BY DEF Place, Section
<1>2. CASE Goto(t, "downUnlock", "idle")
  BY <1>1, <1>2, ReleaseKeeps DEF DownRelease, Goto
<1>3. CASE Goto(t, "downUnlockWait", "downBlock")
  BY <1>1, <1>3, ReleaseKeeps DEF DownRelease, Goto
<1> QED
  BY <1>2, <1>3 DEF DownRelease

LEMMA UpReleaseKeeps ==
  ASSUME IInv, NEW t \in Thread, UpRelease(t)
  PROVE  IInv'
<1> DEFINE p == IF element[t] = None THEN "idle" ELSE "upWake"
<1>1. p \in Place \ Section
  BY DEF Place, Section
<1>2. at[t] = "upUnlock" /\ at' = [at EXCEPT ![t] = p]
  BY DEF UpRelease, Goto
<1> QED
  BY <1>1, <1>2, ReleaseKeeps DEF UpRelease

\* Blocking at the blockade of the own element: the thread waits if nobody has
\* opened the blockade yet.
LEMMA DownBlockKeeps ==
  ASSUME IInv, NEW t \in Thread, DownBlock(t)
  PROVE  IInv'
<1>1. /\ at[t] = "downBlock" /\ at' = [at EXCEPT ![t] = "downEnd"]
      /\ LockLock(t, t) /\ Runs(t) /\ UNCHANGED <<cnt, queue, element, alive>>
  BY DEF DownBlock, Goto, LockLock
<1>2. t \in LockId /\ t # MetaLock /\ MetaLock \in LockId /\ Thread \subseteq LockId
  BY SemaphoreAssumption
<1>3. LInv' /\ Locked(t, t)
  BY <1>1, <1>2, LockLockKeeps DEF IInv
<1>4. \A l \in LockId : ~Waits(t, l)
  BY <1>1, WaitsOnce DEF IInv
<1>5. /\ \A u \in Thread, l \in LockId : u # t => (Waits(u, l)' <=> Waits(u, l))
      /\ \A l \in LockId : Waits(t, l)' => l = t
  BY <1>3, <1>4 DEF Locked
<1>6. /\ owner'[MetaLock] = owner[MetaLock] /\ lockState'[MetaLock] = lockState[MetaLock]
      /\ \A u \in Thread : u # t => owner'[u] = owner[u] /\ lockState'[u] = lockState[u]
  BY <1>2, <1>3 DEF Locked, IInv, LInv, LockTypeOK
<1>7. "downEnd" \in Place \ Section /\ at[t] \notin Section
  BY <1>1 DEF Place, Section
<1>8. CallInv'
  BY <1>1, <1>5, <1>6, <1>7, OutsideKept
<1>9. \A u \in Thread : at'[u] = IF u = t THEN "downEnd" ELSE at[u]
  BY <1>1 DEF IInv, SemTypeOK
<1>10. ElementsUnique' /\ ElementsOnStack'
  BY <1>1, <1>9 DEF IInv, ElemInv, ElementsUnique, ElementsOnStack
<1>11. \A u \in Thread : Enlisted(u)' <=> Enlisted(u)
  BY <1>1 DEF Enlisted
<1>12. BlockadesClosed'
  <2>1. SUFFICES ASSUME NEW u \in Thread, Enlisted(u)
                 PROVE  (/\ u \in alive /\ lockState[u] = "LOCKED"
                         /\ IF at[u] = "downEnd" THEN owner[u] = None /\ Waits(u, u) ELSE owner[u] = u)'
    BY <1>11 DEF BlockadesClosed
  <2>2. /\ u \in alive /\ lockState[u] = "LOCKED"
        /\ IF at[u] = "downEnd" THEN owner[u] = None /\ Waits(u, u) ELSE owner[u] = u
    BY <2>1 DEF IInv, ElemInv, BlockadesClosed
  <2>3. CASE u = t
    <3>1. owner[t] = t /\ lockState[t] = "LOCKED"
      BY <1>1, <2>2, <2>3
    <3>2. Waits(t, t)' /\ owner' = [owner EXCEPT ![t] = None] /\ lockState' = lockState
      BY <1>2, <1>3, <3>1 DEF Locked
    <3>3. owner'[t] = None
      BY <1>2, <3>2 DEF IInv, LInv, LockTypeOK
    <3> QED
      BY <1>1, <1>9, <2>2, <2>3, <3>2, <3>3
  <2>4. CASE u # t
    <3>1. Waits(u, u)' <=> Waits(u, u)
      BY <1>2, <1>5, <2>4
    <3> QED
      BY <1>1, <1>6, <1>9, <2>2, <2>4, <3>1
  <2> QED
    BY <2>3, <2>4
<1>13. QueueCounted'
  BY <1>1, <1>7, CountKept
<1>14. SemTypeOK'
  BY <1>1, <1>7 DEF IInv, SemTypeOK
<1> QED
  BY <1>3, <1>8, <1>10, <1>12, <1>13, <1>14 DEF IInv, ElemInv

\* A thread leaves down() only after its element has been taken and woken.
LEMMA ReturnNotEnlisted ==
  ASSUME IInv, NEW t \in Thread, Runs(t), at[t] = "downEnd"
  PROVE  ~Enlisted(t)
<1>1. ~Waits(t, t)
  BY WaitsOnce, SemaphoreAssumption DEF IInv
<1> QED
  BY <1>1 DEF IInv, ElemInv, BlockadesClosed

LEMMA DownReturnKeeps ==
  ASSUME IInv, NEW t \in Thread, DownReturn(t)
  PROVE  IInv'
<1>1. /\ Runs(t) /\ at[t] = "downEnd" /\ at' = [at EXCEPT ![t] = "idle"]
      /\ alive' = alive \ {t}
      /\ lockState' = [lockState EXCEPT ![t] = "UNLOCKED"]
      /\ owner' = [owner EXCEPT ![t] = None]
      /\ ownerNext' = [ownerNext EXCEPT ![t] = None]
      /\ last' = [last EXCEPT ![t] = None]
      /\ UNCHANGED <<next, phase, lockOf, target, stopped, faults, missed, cnt, queue, element>>
  BY DEF DownReturn, Goto, kernelVars
<1>2. t \in LockId /\ t # MetaLock /\ MetaLock \in LockId /\ Thread \subseteq LockId
  BY SemaphoreAssumption
<1>3. \A u \in Thread : ~Waits(u, t)
  BY <1>1, <1>2, BlockadeWaiters, WaitsOnce DEF IInv
<1>4. LInv'
  BY <1>1, <1>2, <1>3, ResetKeeps DEF IInv
<1>5. \A u \in Thread, l \in LockId : Waits(u, l)' <=> Waits(u, l)
  BY <1>1 DEF Waits
<1>6. \A l \in LockId : ~Waits(t, l)
  BY <1>1, WaitsOnce DEF IInv
<1>7. /\ owner'[MetaLock] = owner[MetaLock] /\ lockState'[MetaLock] = lockState[MetaLock]
      /\ \A u \in Thread : u # t => owner'[u] = owner[u] /\ lockState'[u] = lockState[u]
  BY <1>1, <1>2 DEF IInv, LInv, LockTypeOK
<1>8. "idle" \in Place \ Section /\ at[t] \notin Section
  BY <1>1 DEF Place, Section
<1>9. CallInv'
  BY <1>1, <1>5, <1>6, <1>7, <1>8, OutsideKept
<1>10. \A u \in Thread : at'[u] = IF u = t THEN "idle" ELSE at[u]
  BY <1>1 DEF IInv, SemTypeOK
<1>11. ~Enlisted(t)
  BY <1>1, ReturnNotEnlisted
<1>12. ElementsUnique' /\ ElementsOnStack'
  BY <1>1, <1>10 DEF IInv, ElemInv, ElementsUnique, ElementsOnStack
<1>13. \A u \in Thread : Enlisted(u)' <=> Enlisted(u)
  BY <1>1 DEF Enlisted
<1>14. \A u \in Thread : Waits(u, u)' <=> Waits(u, u)
  BY <1>2, <1>5
<1>15. BlockadesClosed'
  BY <1>1, <1>7, <1>10, <1>11, <1>13, <1>14 DEF IInv, ElemInv, BlockadesClosed
<1>16. QueueCounted'
  BY <1>1, <1>8, CountKept
<1>17. SemTypeOK'
  BY <1>1, <1>8 DEF IInv, SemTypeOK
<1> QED
  BY <1>4, <1>9, <1>12, <1>15, <1>16, <1>17 DEF IInv, ElemInv

\* The counter says that there is an element in the queue, and its thread has
\* released the mutex since it is not in the section.
LEMMA DequeuedElement ==
  ASSUME IInv, NEW t \in Thread, Runs(t), at[t] = "upDequeue"
  PROVE  /\ queue # <<>> /\ Head(queue) \in Thread /\ Head(queue) \in ToSet(queue)
         /\ at[Head(queue)] \in {"downBlock", "downEnd"}
         /\ \A u \in Thread : u # t => at[u] \notin {"downEnqueue", "upDequeue", "downUnlockWait", "upUnlock"}
<1>1. at[t] \in Section
  BY DEF Section
<1>2. \A u \in Thread : u # t => at[u] \notin {"downEnqueue", "upDequeue", "downUnlockWait", "upUnlock"}
  BY <1>1, SectionExcludes DEF Section
<1>3. queue \in Seq(Thread) /\ Len(queue) = (IF cnt < 0 THEN -cnt ELSE 0) + 1 /\ cnt \in Int
  BY DEF IInv, SemTypeOK, QueueCounted
<1>4. queue # <<>> /\ Head(queue) = queue[1] /\ 1 \in DOMAIN queue
  BY <1>3
<1>5. Head(queue) \in Thread /\ Head(queue) \in ToSet(queue)
  BY <1>3, <1>4 DEF ToSet
<1>6. Head(queue) \in alive
  BY <1>5 DEF IInv, ElemInv, BlockadesClosed, Enlisted
<1>7. at[Head(queue)] \in {"downUnlockWait", "downBlock", "downEnd"}
  BY <1>5, <1>6 DEF IInv, ElemInv, ElementsOnStack
<1>8. at[Head(queue)] \in {"downBlock", "downEnd"}
  BY <1>2, <1>5, <1>7
<1> QED
  BY <1>2, <1>4, <1>5, <1>8

LEMMA UpDequeueKeeps ==
  ASSUME IInv, NEW t \in Thread, UpDequeue(t)
  PROVE  IInv'
<1> DEFINE e == Head(queue)
<1>1. Runs(t) /\ at[t] = "upDequeue" /\ at' = [at EXCEPT ![t] = "upUnlock"]
      /\ UNCHANGED lockVars /\ UNCHANGED <<cnt, alive>>
  BY DEF UpDequeue, Goto
<1>2. /\ queue # <<>> /\ e \in Thread /\ e \in ToSet(queue)
      /\ at[e] \in {"downBlock", "downEnd"}
      /\ \A u \in Thread : u # t => at[u] \notin {"downEnqueue", "upDequeue", "downUnlockWait", "upUnlock"}
  BY <1>1, DequeuedElement
<1>3. element' = [element EXCEPT ![t] = e] /\ queue' = Tail(queue)
  BY <1>2 DEF UpDequeue
<1>4. queue \in Seq(Thread) /\ Distinct(queue)
  BY DEF IInv, SemTypeOK, ElemInv, ElementsUnique, Distinct
<1>5. /\ queue' \in Seq(Thread) /\ Distinct(queue')
      /\ \A u : u \in ToSet(queue') <=> u \in ToSet(queue) /\ u # e
      /\ Len(queue') = Len(queue) - 1 /\ Len(queue) \in Nat
  BY <1>2, <1>3, <1>4, TailElements
<1> HIDE DEF e
<1>6. LInv' /\ UNCHANGED <<owner, lockState>> /\ \A u \in Thread, l \in LockId : Waits(u, l)' <=> Waits(u, l)
  BY <1>1, LockFrame DEF IInv
<1>7. "upUnlock" \in Section /\ "upUnlock" \in Place /\ at[t] \in Section
  BY <1>1 DEF Section, Place
<1>8. CallInv'
  BY <1>1, <1>6, <1>7, SectionKept
<1>9. \A u \in Thread : at'[u] = IF u = t THEN "upUnlock" ELSE at[u]
  BY <1>1 DEF IInv, SemTypeOK
<1>10. \A u \in Thread : element'[u] = IF u = t THEN e ELSE element[u]
  BY <1>3 DEF IInv, SemTypeOK
<1>11. element[t] = None /\ \A u \in Thread : element[u] # e
  BY <1>1, <1>2, LockAssumption DEF IInv, ElemInv, ElementsUnique
<1>12. ElementsUnique'
  <2>1. \A u, v \in Thread : element'[u] = element'[v] /\ element'[u] # None => u = v
    BY <1>10, <1>11 DEF IInv, ElemInv, ElementsUnique
  <2>2. \A u \in Thread :
          /\ element'[u] # None => element'[u] \notin ToSet(queue') /\ at'[u] \in {"upUnlock", "upWake"}
          /\ at'[u] = "upWake" => element'[u] # None
    BY <1>5, <1>9, <1>10 DEF IInv, ElemInv, ElementsUnique
  <2> QED
    BY <1>5, <2>1, <2>2 DEF ElementsUnique, Distinct
<1>13. ElementsOnStack'
  BY <1>1, <1>2, <1>5, <1>9 DEF IInv, ElemInv, ElementsOnStack
<1>14. \A u \in Thread : Enlisted(u)' <=> Enlisted(u)
  <2>1. \A u \in Thread : (\E v \in Thread : element'[v] = u) <=> u = e \/ \E v \in Thread : element[v] = u
    BY <1>10, <1>11, LockAssumption
  <2> QED
    BY <1>2, <1>5, <2>1 DEF Enlisted
<1>15. t \notin alive
  BY <1>1 DEF IInv, ElemInv, ElementsOnStack
<1>16. BlockadesClosed'
  BY <1>1, <1>6, <1>9, <1>14, <1>15, SemaphoreAssumption DEF IInv, ElemInv, BlockadesClosed
<1>17. QueueCounted'
  <2>1. Len(queue) = (IF cnt < 0 THEN -cnt ELSE 0) + 1 /\ cnt \in Int
    BY <1>1 DEF IInv, QueueCounted, SemTypeOK
  <2> QED
    BY <1>1, <1>2, <1>5, <1>9, <2>1 DEF QueueCounted
<1>18. SemTypeOK'
  BY <1>1, <1>2, <1>3, <1>5, <1>7 DEF IInv, SemTypeOK
<1> QED
  BY <1>6, <1>8, <1>12, <1>13, <1>16, <1>17, <1>18 DEF IInv, ElemInv

\* Waking an element that up() has taken.
LEMMA UpWakeKeeps ==
  ASSUME IInv, NEW t \in Thread, UpWake(t)
  PROVE  IInv'
<1> DEFINE e == element[t]
<1>1. /\ at[t] = "upWake" /\ at' = [at EXCEPT ![t] = "idle"] /\ Runs(t)
      /\ LockUnlock(t, e) /\ element' = [element EXCEPT ![t] = None]
      /\ UNCHANGED <<cnt, queue, alive>>
  BY DEF UpWake, Goto, LockUnlock
<1>2. e \in Thread /\ Enlisted(e) /\ e # None
  BY <1>1, LockAssumption DEF IInv, SemTypeOK, ElemInv, ElementsUnique, Enlisted
<1>3. e \in LockId /\ e # MetaLock /\ MetaLock \in LockId /\ Thread \subseteq LockId
  BY <1>2, SemaphoreAssumption
<1>4. /\ \A w \in Thread : phase[w] = "waking" => lockOf[w] # e
      /\ \A u \in missed : lockOf[u] # e
  BY <1>2, EnlistedNotWoken
<1> HIDE DEF e
<1>5. LInv' /\ Unlocked(t, e)
  BY <1>1, <1>3, <1>4, LockUnlockKeeps DEF IInv
<1>6. /\ owner'[MetaLock] = owner[MetaLock] /\ lockState'[MetaLock] = lockState[MetaLock]
      /\ \A u \in Thread : u # e => owner'[u] = owner[u] /\ lockState'[u] = lockState[u]
  BY <1>3, <1>5 DEF Unlocked, IInv, LInv, LockTypeOK
<1>7. \A u \in Thread, l \in LockId : Waits(u, l)' <=> Waits(u, l)
  BY <1>5 DEF Unlocked
<1>8. \A l \in LockId : ~Waits(t, l)
  BY <1>1, WaitsOnce DEF IInv
<1>9. "idle" \in Place \ Section /\ at[t] \notin Section
  BY <1>1 DEF Place, Section
<1>10. CallInv'
  BY <1>1, <1>6, <1>7, <1>8, <1>9, OutsideKept
<1>11. \A u \in Thread : at'[u] = IF u = t THEN "idle" ELSE at[u]
  BY <1>1 DEF IInv, SemTypeOK
<1>12. \A u \in Thread : element'[u] = IF u = t THEN None ELSE element[u]
  BY <1>1 DEF IInv, SemTypeOK
<1>13. ElementsUnique' /\ ElementsOnStack'
  BY <1>1, <1>11, <1>12 DEF IInv, ElemInv, ElementsUnique, ElementsOnStack
<1>14. \A u \in Thread : Enlisted(u)' => Enlisted(u) /\ u # e
  <2>1. e \notin ToSet(queue) /\ \A u \in Thread : element[u] = e => u = t
    BY <1>2 DEF IInv, ElemInv, ElementsUnique, e
  <2>2. \A u \in Thread : (\E v \in Thread : element'[v] = u) => u # e /\ \E v \in Thread : element[v] = u
    BY <1>12, <2>1, LockAssumption
  <2> QED
    BY <1>1, <2>1, <2>2 DEF Enlisted
<1>15. t \notin alive
  BY <1>1 DEF IInv, ElemInv, ElementsOnStack
<1>16. BlockadesClosed'
  BY <1>1, <1>3, <1>6, <1>7, <1>11, <1>14, <1>15 DEF IInv, ElemInv, BlockadesClosed
<1>17. QueueCounted'
  BY <1>1, <1>9, CountKept
<1>18. SemTypeOK'
  BY <1>1, <1>9 DEF IInv, SemTypeOK
<1> QED
  BY <1>5, <1>10, <1>13, <1>16, <1>17, <1>18 DEF IInv, ElemInv

\* A step of the locks alone, after which some threads wait no more: those own
\* the lock they waited for.
LEMMA LockStepKeeps ==
  ASSUME IInv, LInv', UNCHANGED <<owner, lockState>>, UNCHANGED semVars,
         NEW W \in SUBSET Thread,
         \A u \in Thread, m \in LockId : Waits(u, m)' <=> Waits(u, m) /\ u \notin W,
         \A u \in W : \E m \in LockId : Waits(u, m) /\ owner[m] = u /\ lockState[m] = "LOCKED"
  PROVE  IInv'
<1>1. UNCHANGED <<cnt, queue, at, element, alive>>
  BY DEF semVars
<1>2. MetaLock \in LockId /\ MetaLock \notin Thread /\ Thread \subseteq LockId
  BY SemaphoreAssumption
<1>3. CallsMatch'
  BY <1>1 DEF IInv, CallInv, CallsMatch
<1>4. MutualExclusion'
  <2>1. SUFFICES ASSUME NEW u \in Thread, InSection(u)'
                 PROVE  owner[MetaLock] = u /\ lockState[MetaLock] = "LOCKED"
    BY DEF MutualExclusion
  <2>2. at[u] \in Section /\ ~Waits(u, MetaLock)'
    BY <1>1, <2>1 DEF InSection, Section
  <2>3. CASE u \notin W
    BY <1>2, <2>2, <2>3 DEF IInv, CallInv, MutualExclusion, InSection, Section
  <2>4. CASE u \in W
    <3>1. PICK m \in LockId : Waits(u, m) /\ owner[m] = u /\ lockState[m] = "LOCKED"
      BY <2>4
    <3>2. m = MetaLock
      BY <2>2, <3>1 DEF IInv, CallInv, CallsMatch, Section
    <3> QED
      BY <3>1, <3>2
  <2> QED
    BY <2>3, <2>4
<1>5. ElementsUnique' /\ ElementsOnStack' /\ QueueCounted' /\ SemTypeOK'
  BY <1>1 DEF IInv, ElemInv, ElementsUnique, ElementsOnStack, QueueCounted, SemTypeOK
<1>6. BlockadesClosed'
  <2>1. SUFFICES ASSUME NEW u \in Thread, Enlisted(u)
                 PROVE  (/\ u \in alive /\ lockState[u] = "LOCKED"
                         /\ IF at[u] = "downEnd" THEN owner[u] = None /\ Waits(u, u) ELSE owner[u] = u)'
    BY <1>1 DEF BlockadesClosed, Enlisted
  <2>2. /\ u \in alive /\ lockState[u] = "LOCKED"
        /\ IF at[u] = "downEnd" THEN owner[u] = None /\ Waits(u, u) ELSE owner[u] = u
    BY <2>1 DEF IInv, ElemInv, BlockadesClosed
  <2>3. ASSUME at[u] = "downEnd" PROVE Waits(u, u)'
    <3>1. SUFFICES ASSUME u \in W PROVE FALSE
      BY <1>2, <2>2, <2>3
    <3>2. PICK m \in LockId : Waits(u, m) /\ owner[m] = u
      BY <3>1
    <3>3. m = u
      BY <1>2, <2>2, <2>3, <3>2, WaitsOnce DEF IInv
    <3> QED
      BY <2>2, <2>3, <3>2, <3>3, LockAssumption
  <2> QED
    BY <1>1, <2>2, <2>3
<1> QED
  BY <1>3, <1>4, <1>5, <1>6 DEF IInv, CallInv, ElemInv

LEMMA WaitsKept ==
  ASSUME IInv, LInv', UNCHANGED <<owner, lockState>>, UNCHANGED semVars,
         \A u \in Thread, m \in LockId : Waits(u, m)' <=> Waits(u, m)
  PROVE  IInv'
<1> DEFINE W == {}
<1>1. /\ W \in SUBSET Thread
      /\ \A u \in Thread, m \in LockId : Waits(u, m)' <=> Waits(u, m) /\ u \notin W
      /\ \A u \in W : \E m \in LockId : Waits(u, m) /\ owner[m] = u /\ lockState[m] = "LOCKED"
  OBVIOUS
<1> HIDE DEF W
<1> QED
  BY <1>1, LockStepKeeps

LEMMA LocksKeep ==
  ASSUME IInv, NEW t \in Thread, LockStep(t), UNCHANGED semVars
  PROVE  IInv'
<1>1. CASE StopMyself(t)
  <2>1. /\ LInv' /\ UNCHANGED <<owner, lockState>>
        /\ \A u \in Thread, l \in LockId : Waits(u, l)' <=> Waits(u, l)
    BY <1>1, StopMyselfKeeps DEF IInv
  <2> QED
    BY <2>1, WaitsKept
<1>2. CASE WakeUp(t)
  <2> DEFINE n == target[t]
             W == {u \in {n} : phase[u] = "blocked"}
  <2>1. /\ LInv' /\ UNCHANGED <<owner, lockState>>
        /\ n \in Thread /\ lockOf[t] \in LockId
        /\ Waits(n, lockOf[t]) /\ owner[lockOf[t]] = n
        /\ \A u \in Thread, m \in LockId : Waits(u, m)' <=> Waits(u, m) /\ ~(u = n /\ phase[u] = "blocked")
    BY <1>2, WakeUpKeeps DEF IInv
  <2>2. lockState[lockOf[t]] = "LOCKED"
    BY <1>2 DEF WakeUp, IInv, LInv, WakersMatch
  <2> HIDE DEF n
  <2>3. /\ W \in SUBSET Thread
        /\ \A u \in Thread, m \in LockId : Waits(u, m)' <=> Waits(u, m) /\ u \notin W
        /\ \A u \in W : \E m \in LockId : Waits(u, m) /\ owner[m] = u /\ lockState[m] = "LOCKED"
    BY <2>1, <2>2
  <2> HIDE DEF W
  <2> QED
    BY <2>1, <2>3, LockStepKeeps
<1>3. CASE MmuException(t)
  <2>1. /\ LInv' /\ UNCHANGED <<owner, lockState>>
        /\ \A u \in Thread, l \in LockId : Waits(u, l)' <=> Waits(u, l)
    BY <1>3, MmuExceptionKeeps DEF IInv
  <2> QED
    BY <2>1, WaitsKept
<1>4. CASE PagerWakeUp(t)
  <2> DEFINE W == {u \in {t} : phase[u] = "blocked"}
  <2>1. /\ LInv' /\ UNCHANGED <<owner, lockState>>
        /\ \A u \in Thread, m \in LockId :
             Waits(u, m)' <=> Waits(u, m) /\ ~(u = t /\ phase[t] = "blocked")
        /\ phase[t] = "blocked" =>
             /\ lockOf[t] \in LockId /\ Waits(t, lockOf[t])
             /\ owner[lockOf[t]] = t /\ lockState[lockOf[t]] = "LOCKED"
    BY <1>4, PagerWakeUpKeeps DEF IInv
  <2>2. /\ W \in SUBSET Thread
        /\ \A u \in Thread, m \in LockId : Waits(u, m)' <=> Waits(u, m) /\ u \notin W
        /\ \A u \in W : \E m \in LockId : Waits(u, m) /\ owner[m] = u /\ lockState[m] = "LOCKED"
    BY <2>1
  <2> HIDE DEF W
  <2> QED
    BY <2>1, <2>2, LockStepKeeps
<1> QED
  BY <1>1, <1>2, <1>3, <1>4 DEF LockStep

LEMMA StutterKeeps ==
  ASSUME IInv, UNCHANGED vars
  PROVE  IInv'
<1>1. /\ LInv' /\ UNCHANGED <<owner, lockState>>
      /\ \A u \in Thread, l \in LockId : Waits(u, l)' <=> Waits(u, l)
  BY LockFrame DEF IInv, vars
<1> QED
  BY <1>1, WaitsKept DEF vars

LEMMA CallsKeep ==
  ASSUME IInv, NEW t \in Thread, CallStep(t)
  PROVE  IInv'
<1>1. CASE DownAcquire(t)
  BY <1>1, AcquireKeeps DEF DownAcquire, Goto
<1>2. CASE UpAcquire(t)
  BY <1>2, AcquireKeeps DEF UpAcquire, Goto
<1> QED
  BY <1>1, <1>2, DownCountKeeps, DownEnqueueKeeps, DownReleaseKeeps, DownBlockKeeps, DownReturnKeeps,
     UpCountKeeps, UpDequeueKeeps, UpReleaseKeeps, UpWakeKeeps DEF CallStep

LEMMA InitHolds == Init => IInv
<1> SUFFICES ASSUME Init PROVE IInv
  OBVIOUS
<1> USE DEF Init, LockInit
<1>1. \A t \in Thread, l \in LockId : ~Waits(t, l)
  BY DEF Waits
<1>2. LockTypeOK
  BY DEF LockTypeOK, Phase
<1>3. ASSUME NEW l \in LockId PROVE Applicants(l, <<>>)
  BY <1>1 DEF Applicants, Distinct, ToSet, Pending
<1>4. OwnersAwake /\ WakersMatch /\ MissedMatch /\ PhasesMatch
  BY <1>1 DEF OwnersAwake, WakersMatch, MissedMatch, PhasesMatch
<1>5. LInv
  <2>1. <<>> \in Seq(Thread)
    OBVIOUS
  <2>2. ListsExist
    BY <1>3, <2>1 DEF ListsExist
  <2> QED
    BY <1>2, <1>4, <2>2 DEF LInv
<1>6. SemTypeOK
  BY SemaphoreAssumption DEF SemTypeOK, Place
<1>7. CallInv
  BY <1>1 DEF CallInv, CallsMatch, MutualExclusion, InSection
<1>8. ElemInv
  BY LockAssumption DEF ElemInv, ElementsUnique, ElementsOnStack, BlockadesClosed, Enlisted, ToSet
<1>9. QueueCounted
  BY SemaphoreAssumption DEF QueueCounted
<1> QED
  BY <1>5, <1>6, <1>7, <1>8, <1>9 DEF IInv

-----------------------------------------------------------------------------
(* The theorems *)

\* A list of applicants is what ApplicantsListed says of the pointers.
LEMMA ListedApplicants ==
  ASSUME NEW l \in LockId, NEW q \in Seq(Thread), Applicants(l, q),
         lockState[l] \in {"LOCKED", "UNLOCKED"}
  PROVE  LET pending == {t \in Thread : Waits(t, l) /\ ~HandedOver(t)}
             linked  == {ownerNext[l]} \cup {next[t] : t \in pending}
         IN
         /\ linked \ {None} = pending
         /\ \A t, u \in pending : next[t] = next[u] /\ next[t] # None => t = u
         /\ \A t \in pending : next[t] = ownerNext[l] => next[t] = None
         /\ lockState[l] = "LOCKED" => last[l] \in pending \cup {Owner}
         /\ last[l] = Owner => pending = {}
         /\ last[l] \in pending => next[last[l]] = None
<1> DEFINE P == {t \in Thread : Waits(t, l) /\ ~HandedOver(t)}
           L == {ownerNext[l]} \cup {next[t] : t \in P}
<1>1. /\ \A i \in 1 .. Len(q) : q[i] \in Thread
      /\ \A i, j \in 1 .. Len(q) : q[i] = q[j] => i = j
      /\ Len(q) \in Nat /\ (q = <<>> <=> Len(q) = 0)
      /\ None \notin Thread /\ Owner \notin Thread
  BY LockAssumption DEF Applicants, Distinct
<1>2. \A t : t \in P <=> \E i \in 1 .. Len(q) : t = q[i]
  <2>1. \A t \in Thread : t \in P <=> t \in ToSet(q)
    BY DEF Applicants, Pending
  <2>2. \A t : t \in ToSet(q) <=> \E i \in 1 .. Len(q) : t = q[i]
    BY DEF ToSet
  <2> QED
    BY <1>1, <2>1, <2>2
<1>3. /\ \A i \in 1 .. Len(q) : next[q[i]] = IF i = Len(q) THEN None ELSE q[i + 1]
      /\ ownerNext[l] = IF q = <<>> THEN None ELSE q[1]
  BY DEF Applicants
<1>4. lockState[l] = "LOCKED" => last[l] = IF q = <<>> THEN Owner ELSE q[Len(q)]
  BY DEF Applicants
<1> HIDE DEF P
<1>5. L \ {None} = P
  <2>1. ASSUME NEW t \in L, t # None PROVE t \in P
    <3>1. CASE t = ownerNext[l]
      BY <1>1, <1>2, <1>3, <2>1, <3>1
    <3>2. CASE \E u \in P : t = next[u]
      <4>1. PICK i \in 1 .. Len(q) : t = next[q[i]]
        BY <1>2, <3>2
      <4>2. i # Len(q) /\ t = q[i + 1] /\ i + 1 \in 1 .. Len(q)
        BY <1>1, <1>3, <2>1, <4>1
      <4> QED
        BY <1>2, <4>2
    <3> QED
      BY <2>1, <3>1, <3>2
  <2>2. ASSUME NEW t \in P PROVE t \in L /\ t # None
    <3>1. PICK i \in 1 .. Len(q) : t = q[i]
      BY <1>2, <2>2
    <3>2. CASE i = 1
      BY <1>1, <1>3, <3>1, <3>2
    <3>3. CASE i # 1
      <4>1. i - 1 \in 1 .. Len(q) /\ i - 1 # Len(q) /\ (i - 1) + 1 = i
        BY <1>1, <3>1, <3>3
      <4>2. next[q[i - 1]] = t /\ q[i - 1] \in P
        BY <1>2, <1>3, <3>1, <4>1
      <4> QED
        BY <1>1, <3>1, <4>2
    <3> QED
      BY <3>2, <3>3
  <2> QED
    BY <2>1, <2>2
<1>6. ASSUME NEW t \in P, NEW u \in P, next[t] = next[u], next[t] # None
      PROVE  t = u
  <2>1. PICK i \in 1 .. Len(q), j \in 1 .. Len(q) : t = q[i] /\ u = q[j]
    BY <1>2
  <2>2. i # Len(q) /\ j # Len(q) /\ q[i + 1] = q[j + 1]
    BY <1>3, <1>6, <2>1
  <2>3. i + 1 \in 1 .. Len(q) /\ j + 1 \in 1 .. Len(q)
    BY <1>1, <2>2
  <2>4. i + 1 = j + 1
    BY <1>1, <2>2, <2>3
  <2> QED
    BY <2>1, <2>4
<1>7. ASSUME NEW t \in P, next[t] = ownerNext[l]
      PROVE  next[t] = None
  <2>1. PICK i \in 1 .. Len(q) : t = q[i]
    BY <1>2
  <2>2. SUFFICES ASSUME i # Len(q) PROVE FALSE
    BY <1>3, <2>1
  <2>3. q # <<>> /\ i + 1 \in 1 .. Len(q) /\ 1 \in 1 .. Len(q)
    BY <1>1, <2>2
  <2>4. q[i + 1] = q[1]
    BY <1>3, <1>7, <2>1, <2>2, <2>3
  <2>5. i + 1 = 1
    BY <1>1, <2>3, <2>4
  <2> QED
    BY <2>5
<1>8. lockState[l] = "LOCKED" =>
        /\ last[l] \in P \cup {Owner}
        /\ last[l] = Owner => P = {}
        /\ last[l] \in P => next[last[l]] = None
  <2>1. CASE q = <<>>
    BY <1>1, <1>2, <1>4, <2>1
  <2>2. CASE q # <<>>
    <3>1. Len(q) \in 1 .. Len(q)
      BY <1>1, <2>2
    <3>2. q[Len(q)] \in P /\ q[Len(q)] # Owner /\ next[q[Len(q)]] = None
      BY <1>1, <1>2, <1>3, <3>1
    <3> QED
      BY <1>4, <2>2, <3>2
  <2> QED
    BY <2>1, <2>2
<1>9. lockState[l] = "UNLOCKED" => P = {}
  BY <1>1, <1>2 DEF Applicants
<1> QED
  BY <1>5, <1>6, <1>7, <1>8, <1>9 DEF P

LEMMA Consistent == IInv => LocksConsistent /\ MutualExclusion /\ ElementAlive
<1> SUFFICES ASSUME IInv PROVE LocksConsistent /\ MutualExclusion /\ ElementAlive
  OBVIOUS
<1>1. TypeOK
  BY DEF IInv, LInv, SemTypeOK, TypeOK
<1>2. ApplicantsListed
  <2>1. \A l \in LockId : lockState[l] \in {"LOCKED", "UNLOCKED"}
    BY DEF IInv, LInv, LockTypeOK
  <2>2. \A l \in LockId : \E q \in Seq(Thread) : Applicants(l, q)
    BY DEF IInv, LInv, ListsExist
  <2> QED
    BY <2>1, <2>2, ListedApplicants DEF ApplicantsListed
<1>3. NewOwnerAwakes
  BY DEF IInv, LInv, OwnersAwake, NewOwnerAwakes
<1>4. ElementAlive
  <2>1. ASSUME NEW t \in Thread, at[t] = "upWake" PROVE element[t] \in alive
    <3>1. element[t] \in Thread /\ Enlisted(element[t])
      BY <2>1, LockAssumption DEF IInv, SemTypeOK, ElemInv, ElementsUnique, Enlisted
    <3> QED
      BY <3>1 DEF IInv, ElemInv, BlockadesClosed
  <2> QED
    BY <2>1 DEF ElementAlive
<1> QED
  BY <1>1, <1>2, <1>3, <1>4 DEF IInv, LInv, CallInv, ElemInv, LocksConsistent

\* The inductive invariant holds in every state, for any number of threads that
\* call down() and up() and fault anywhere.
THEOREM Invariance == Spec => []IInv
<1>1. Init => IInv
  BY InitHolds
<1>2. IInv /\ [Next]_vars => IInv'
  BY CallsKeep, LocksKeep, StutterKeeps DEF Next
<1> QED
  BY <1>1, <1>2, PTL DEF Spec

\* The lists of applicants of all locks stay intact, a thread that was handed a
\* lock is restarted, or was when it had faulted in front of stop_thread, and the
\* counter, the queue and the blockades of the
\* semaphore agree with the threads (lock.cc, semaphore.h).
THEOREM LocksStayConsistent == Spec => []LocksConsistent
<1>1. IInv => LocksConsistent
  BY Consistent
<1> QED
  BY <1>1, Invariance, PTL

\* Whoever executes the code between Mutex::acquire and Mutex::release owns the
\* mutex, so no two threads do.
THEOREM MutexExcludes == Spec => []MutualExclusion
<1>1. IInv => MutualExclusion
  BY Consistent
<1> QED
  BY <1>1, Invariance, PTL

\* up() wakes an element outside of the mutex, and the element is still on the
\* stack of its thread, which cannot leave down() before (semaphore.h:92-101).
THEOREM ElementsStayAlive == Spec => []ElementAlive
<1>1. IInv => ElementAlive
  BY Consistent
<1> QED
  BY <1>1, Invariance, PTL

-----------------------------------------------------------------------------
(* The semaphore implements its abstract specification. *)

\* The places in down() of a thread that has counted itself and is not about to
\* enqueue its element.
Counting == {"downUnlock", "downUnlockWait", "downBlock", "downEnd"}
Granted == {t \in Thread : at[t] \in Counting /\ t \notin ToSet(queue)}
Avail == IF cnt > 0 THEN cnt ELSE 0

LEMMA OneChosen ==
  ASSUME NEW a, NEW t \in Thread, a[t] = "downEnqueue",
         \A u \in Thread : a[u] = "downEnqueue" => u = t
  PROVE  (CHOOSE u \in Thread : a[u] = "downEnqueue") = t
OBVIOUS

\* Who is waiting: the queue and the one thread that is about to enqueue itself.
LEMMA WaitersNow ==
  ASSUME IInv
  PROVE  /\ \A t \in Thread : at[t] = "downEnqueue" =>
              /\ Waiters = Append(queue, t)
              /\ \A u \in Thread : at[u] = "downEnqueue" => u = t
         /\ (\A t \in Thread : at[t] # "downEnqueue") => Waiters = queue
<1>1. ASSUME NEW t \in Thread, at[t] = "downEnqueue"
      PROVE  owner[MetaLock] = t
  BY <1>1, SemaphoreAssumption DEF IInv, CallInv, CallsMatch, MutualExclusion, InSection
<1>2. ASSUME NEW t \in Thread, at[t] = "downEnqueue"
      PROVE  Waiters = Append(queue, t)
  <2> DEFINE a == at
  <2>1. a[t] = "downEnqueue" /\ \A u \in Thread : a[u] = "downEnqueue" => u = t
    BY <1>1, <1>2
  <2> HIDE DEF a
  <2>2. (CHOOSE u \in Thread : a[u] = "downEnqueue") = t
    BY <2>1, OneChosen
  <2> QED
    BY <1>2, <2>2 DEF Waiters, a
<1> QED
  BY <1>1, <1>2 DEF Waiters

\* The next state has no other thread that is about to enqueue itself.
LEMMA WaitersNext ==
  ASSUME NEW t \in Thread, at'[t] = "downEnqueue",
         \A u \in Thread : at'[u] = "downEnqueue" => u = t
  PROVE  Waiters' = Append(queue', t)
<1> DEFINE a == at'
<1>1. a[t] = "downEnqueue" /\ \A u \in Thread : a[u] = "downEnqueue" => u = t
  OBVIOUS
<1> HIDE DEF a
<1>2. (CHOOSE u \in Thread : a[u] = "downEnqueue") = t
  BY <1>1, OneChosen
<1> QED
  BY <1>2 DEF Waiters, a

\* A thread moves, and nobody begins or ends to wait by that.
LEMMA WaitersKept ==
  ASSUME IInv, NEW t \in Thread, NEW p \in Place,
         at' = [at EXCEPT ![t] = p], UNCHANGED queue,
         at[t] # "downEnqueue", p # "downEnqueue"
  PROVE  Waiters' = Waiters
<1>1. \A u \in Thread : at'[u] = IF u = t THEN p ELSE at[u]
  BY DEF IInv, SemTypeOK
<1>2. \A u \in Thread : at'[u] = "downEnqueue" <=> at[u] = "downEnqueue"
  BY <1>1
<1>3. CASE \E w \in Thread : at[w] = "downEnqueue"
  <2>1. PICK w \in Thread : at[w] = "downEnqueue"
    BY <1>3
  <2>2. Waiters = Append(queue, w) /\ \A u \in Thread : at[u] = "downEnqueue" => u = w
    BY <2>1, WaitersNow
  <2>3. Waiters' = Append(queue', w)
    BY <1>2, <2>1, <2>2, WaitersNext
  <2> QED
    BY <2>2, <2>3
<1>4. CASE \A w \in Thread : at[w] # "downEnqueue"
  BY <1>2, <1>4 DEF Waiters
<1> QED
  BY <1>3, <1>4

\* Steps that nobody outside of the semaphore can see.
LEMMA Unseen ==
  ASSUME IInv, NEW t \in Thread, NEW p \in Place,
         at' = [at EXCEPT ![t] = p], UNCHANGED <<cnt, queue>>,
         at[t] # "downEnqueue", p # "downEnqueue",
         at[t] \in Counting <=> p \in Counting
  PROVE  UNCHANGED <<Avail, Waiters, Granted>>
<1>1. \A u \in Thread : at'[u] = IF u = t THEN p ELSE at[u]
  BY DEF IInv, SemTypeOK
<1>2. Granted' = Granted
  BY <1>1 DEF Granted
<1>3. Waiters' = Waiters
  BY WaitersKept
<1> QED
  BY <1>2, <1>3 DEF Avail

\* A thread that got its unit goes on its way.
LEMMA ReturnSeen ==
  ASSUME IInv, NEW t \in Thread,
         at' = [at EXCEPT ![t] = "idle"], UNCHANGED <<cnt, queue>>,
         at[t] \in Counting, ~Enlisted(t)
  PROVE  t \in Granted /\ Granted' = Granted \ {t} /\ UNCHANGED <<Avail, Waiters>>
<1>1. \A u \in Thread : at'[u] = IF u = t THEN "idle" ELSE at[u]
  BY DEF IInv, SemTypeOK
<1>2. t \in Granted
  BY DEF Granted, Enlisted
<1>3. Granted' = Granted \ {t}
  BY <1>1 DEF Granted, Counting
<1>4. Waiters' = Waiters
  BY WaitersKept DEF Counting, Place
<1> QED
  BY <1>2, <1>3, <1>4 DEF Avail

\* A thread that counts itself takes a unit or waits after all others.
LEMMA DownSeen ==
  ASSUME IInv, NEW t \in Thread, DownCount(t)
  PROVE  /\ t \notin Granted /\ \A i \in DOMAIN Waiters : Waiters[i] # t
         /\ IF Avail > 0
            THEN Avail' = Avail - 1 /\ Granted' = Granted \cup {t} /\ Waiters' = Waiters
            ELSE Waiters' = Append(Waiters, t) /\ Avail' = Avail /\ Granted' = Granted
<1> DEFINE p == IF cnt - 1 < 0 THEN "downEnqueue" ELSE "downUnlock"
<1>1. /\ Runs(t) /\ at[t] = "downLock" /\ at' = [at EXCEPT ![t] = p]
      /\ cnt' = cnt - 1 /\ queue' = queue
  BY DEF DownCount, Goto
<1>2. cnt \in Int /\ \A u \in Thread : at'[u] = IF u = t THEN p ELSE at[u]
  BY <1>1 DEF IInv, SemTypeOK
<1>3. \A u \in Thread : at[u] # "downEnqueue"
  BY <1>1, SectionExcludes DEF Section
<1>4. Waiters = queue
  BY <1>3, WaitersNow
<1>5. t \notin ToSet(queue) /\ t \notin Granted
  BY <1>1 DEF IInv, ElemInv, ElementsOnStack, BlockadesClosed, Enlisted, Granted, Counting
<1>6. \A i \in DOMAIN Waiters : Waiters[i] # t
  BY <1>4, <1>5 DEF ToSet
<1>7. CASE cnt > 0
  <2>1. p = "downUnlock" /\ Avail' = Avail - 1 /\ Avail > 0
    BY <1>1, <1>2, <1>7 DEF Avail
  <2>2. Waiters' = queue
    BY <1>1, <1>2, <1>3, <2>1 DEF Waiters
  <2>3. Granted' = Granted \cup {t}
    BY <1>1, <1>2, <1>5, <2>1 DEF Granted, Counting
  <2> QED
    BY <1>4, <1>5, <1>6, <2>1, <2>2, <2>3
<1>8. CASE ~(cnt > 0)
  <2>1. p = "downEnqueue" /\ Avail' = Avail /\ ~(Avail > 0)
    BY <1>1, <1>2, <1>8 DEF Avail
  <2>2. at'[t] = "downEnqueue" /\ \A u \in Thread : at'[u] = "downEnqueue" => u = t
    BY <1>2, <1>3, <2>1
  <2>3. Waiters' = Append(queue', t)
    BY <2>2, WaitersNext
  <2>4. Granted' = Granted
    BY <1>1, <1>2, <2>1 DEF Granted, Counting
  <2> QED
    BY <1>1, <1>4, <1>5, <1>6, <2>1, <2>3, <2>4
<1> QED
  BY <1>7, <1>8

LEMMA EnqueueUnseen ==
  ASSUME IInv, NEW t \in Thread, DownEnqueue(t)
  PROVE  UNCHANGED <<Avail, Waiters, Granted>>
<1>1. /\ at[t] = "downEnqueue" /\ at' = [at EXCEPT ![t] = "downUnlockWait"]
      /\ queue' = Append(queue, t) /\ cnt' = cnt
  BY DEF DownEnqueue, Goto, Enqueued
<1>2. Waiters = Append(queue, t) /\ \A u \in Thread : at[u] = "downEnqueue" => u = t
  BY <1>1, WaitersNow
<1>3. \A u \in Thread : at'[u] = IF u = t THEN "downUnlockWait" ELSE at[u]
  BY <1>1 DEF IInv, SemTypeOK
<1>4. Waiters' = queue'
  BY <1>2, <1>3 DEF Waiters
<1>5. queue \in Seq(Thread) /\ Distinct(queue) /\ t \notin ToSet(queue)
  BY <1>1 DEF IInv, SemTypeOK, ElemInv, ElementsUnique, Distinct, ElementsOnStack, BlockadesClosed, Enlisted
<1>6. \A u : u \in ToSet(queue') <=> u \in ToSet(queue) \/ u = t
  BY <1>1, <1>5, AppendedElements
<1>7. Granted' = Granted
  BY <1>1, <1>3, <1>6 DEF Granted, Counting
<1> QED
  BY <1>1, <1>2, <1>4, <1>7 DEF Avail

\* up() adds a unit at once if nobody waits, else when it takes an element.
LEMMA UpSeen ==
  ASSUME IInv, NEW t \in Thread, UpCount(t)
  PROVE  \/ UNCHANGED <<Avail, Waiters, Granted>>
         \/ Waiters = <<>> /\ Avail' = Avail + 1 /\ UNCHANGED <<Waiters, Granted>>
<1> DEFINE p == IF cnt + 1 > 0 THEN "upUnlock" ELSE "upDequeue"
<1>1. /\ Runs(t) /\ at[t] = "upLock" /\ at' = [at EXCEPT ![t] = p]
      /\ cnt' = cnt + 1 /\ queue' = queue
  BY DEF UpCount, Goto, NobodyWaits, Incremented
<1>2. /\ cnt \in Int /\ queue \in Seq(Thread) /\ p \in Place
      /\ \A u \in Thread : at'[u] = IF u = t THEN p ELSE at[u]
  BY <1>1 DEF IInv, SemTypeOK, Place
<1>3. \A u \in Thread : at[u] \notin {"downEnqueue", "upDequeue"}
  BY <1>1, SectionExcludes DEF Section
<1>4. Waiters = queue
  BY <1>3, WaitersNow
<1>5. Waiters' = Waiters
  BY <1>1, <1>2, WaitersKept
<1>6. Granted' = Granted
  BY <1>1, <1>2 DEF Granted, Counting
<1>7. CASE cnt >= 0
  <2>1. Len(queue) = 0
    BY <1>2, <1>3, <1>7 DEF IInv, QueueCounted
  <2>2. Avail' = Avail + 1
    BY <1>1, <1>2, <1>7 DEF Avail
  <2> QED
    BY <1>2, <1>4, <1>5, <1>6, <2>1, <2>2
<1>8. CASE cnt < 0
  BY <1>1, <1>2, <1>5, <1>6, <1>8 DEF Avail
<1> QED
  BY <1>2, <1>7, <1>8

LEMMA DequeueSeen ==
  ASSUME IInv, NEW t \in Thread, UpDequeue(t)
  PROVE  /\ Waiters # <<>> /\ Granted' = Granted \cup {Head(Waiters)}
         /\ Waiters' = Tail(Waiters) /\ Avail' = Avail
<1> DEFINE e == Head(queue)
<1>1. Runs(t) /\ at[t] = "upDequeue" /\ at' = [at EXCEPT ![t] = "upUnlock"] /\ cnt' = cnt
  BY DEF UpDequeue, Goto
<1>2. /\ queue # <<>> /\ e \in Thread /\ e \in ToSet(queue)
      /\ at[e] \in {"downBlock", "downEnd"}
      /\ \A u \in Thread : at[u] # "downEnqueue"
  BY <1>1, DequeuedElement
<1>3. queue' = Tail(queue)
  BY <1>2 DEF UpDequeue
<1>4. queue \in Seq(Thread) /\ Distinct(queue)
  BY DEF IInv, SemTypeOK, ElemInv, ElementsUnique, Distinct
<1>5. \A u : u \in ToSet(queue') <=> u \in ToSet(queue) /\ u # e
  BY <1>2, <1>3, <1>4, TailElements
<1>6. \A u \in Thread : at'[u] = IF u = t THEN "upUnlock" ELSE at[u]
  BY <1>1 DEF IInv, SemTypeOK
<1>7. Waiters = queue
  BY <1>2, WaitersNow
<1>8. Waiters' = queue'
  BY <1>2, <1>6 DEF Waiters
<1> HIDE DEF e
<1>9. Granted' = Granted \cup {e}
  BY <1>1, <1>2, <1>5, <1>6 DEF Granted, Counting
<1> QED
  BY <1>1, <1>2, <1>3, <1>7, <1>8, <1>9 DEF Avail, e

\* Every step is one of the abstract semaphore or changes nothing of it.
LEMMA StepSeen ==
  ASSUME IInv, [Next]_vars
  PROVE  [Abstract!Next]_(Abstract!specVars)
<1> USE DEF Abstract!specVars
<1>1. Abstract!specVars = <<Avail, Waiters, Granted>> /\ Abstract!specVars' = <<Avail, Waiters, Granted>>'
  BY DEF Avail, Granted, Counting
<1>2. CASE UNCHANGED semVars
  BY <1>2 DEF semVars, Waiters
<1>3. ASSUME NEW t \in Thread, CallStep(t)
      PROVE  [Abstract!Next]_(Abstract!specVars)
  <2>1. \A p \in {"idle", "downLock", "upLock", "downUnlock", "upUnlock", "upWake", "downEnd", "downBlock"} : p \in Place
    BY DEF Place
  <2>2. CASE DownAcquire(t)
    BY <2>1, <2>2, <1>1, Unseen DEF DownAcquire, Goto, Counting
  <2>3. CASE DownCount(t)
    <3>1. Abstract!Down(t)
      BY <2>3, DownSeen DEF Abstract!Down, Avail, Granted, Counting
    <3> QED
      BY <3>1 DEF Abstract!Next
  <2>4. CASE DownEnqueue(t)
    BY <2>4, <1>1, EnqueueUnseen
  <2>5. CASE DownRelease(t)
    <3>1. CASE Goto(t, "downUnlock", "idle")
      <4>1. ~Enlisted(t)
        BY <3>1 DEF Goto, IInv, ElemInv, ElementsOnStack, BlockadesClosed
      <4>2. Abstract!Return(t)
        BY <2>5, <3>1, <4>1, ReturnSeen DEF DownRelease, Goto, Abstract!Return, Avail, Granted, Counting
      <4> QED
        BY <4>2 DEF Abstract!Next
    <3>2. CASE Goto(t, "downUnlockWait", "downBlock")
      BY <2>1, <2>5, <3>2, <1>1, Unseen DEF DownRelease, Goto, Counting
    <3> QED
      BY <2>5, <3>1, <3>2 DEF DownRelease
  <2>6. CASE DownBlock(t)
    BY <2>1, <2>6, <1>1, Unseen DEF DownBlock, Goto, Counting
  <2>7. CASE DownReturn(t)
    <3>1. ~Enlisted(t)
      BY <2>7, ReturnNotEnlisted DEF DownReturn, Goto
    <3>2. Abstract!Return(t)
      BY <2>7, <3>1, ReturnSeen DEF DownReturn, Goto, Abstract!Return, Avail, Granted, Counting
    <3> QED
      BY <3>2 DEF Abstract!Next
  <2>8. CASE UpAcquire(t)
    BY <2>1, <2>8, <1>1, Unseen DEF UpAcquire, Goto, Counting
  <2>9. CASE UpCount(t)
    <3>1. CASE UNCHANGED <<Avail, Waiters, Granted>>
      BY <1>1, <3>1
    <3>2. CASE Waiters = <<>> /\ Avail' = Avail + 1 /\ UNCHANGED <<Waiters, Granted>>
      <4>1. Abstract!Up
        BY <3>2 DEF Abstract!Up, Avail, Granted, Counting
      <4> QED
        BY <4>1 DEF Abstract!Next
    <3> QED
      BY <2>9, <3>1, <3>2, UpSeen
  <2>10. CASE UpDequeue(t)
    <3>1. Abstract!Up
      BY <2>10, DequeueSeen DEF Abstract!Up, Avail, Granted, Counting
    <3> QED
      BY <3>1 DEF Abstract!Next
  <2>11. CASE UpRelease(t)
    BY <2>1, <2>11, <1>1, Unseen DEF UpRelease, Goto, Counting
  <2>12. CASE UpWake(t)
    BY <2>1, <2>12, <1>1, Unseen DEF UpWake, Goto, Counting
  <2> QED
    BY <1>3, <2>2, <2>3, <2>4, <2>5, <2>6, <2>7, <2>8, <2>9, <2>10, <2>11, <2>12 DEF CallStep
<1> QED
  BY <1>2, <1>3 DEF Next, vars

\* The semaphore grants its units in the order in which threads ask for them:
\* whatever the locks, the blockades and the faults do meanwhile, its steps are
\* those of SemaphoreSpec (semaphore.h:56-106).
THEOREM ImplementsSpec == Spec => Implements
<1>1. Init => Abstract!Init
  <2> SUFFICES ASSUME Init PROVE Abstract!Init
    OBVIOUS
  <2>1. cnt \in Nat /\ Waiters = <<>>
    BY SemaphoreAssumption DEF Init, Waiters
  <2>2. (IF cnt > 0 THEN cnt ELSE 0) \in Nat
    BY <2>1
  <2>3. \A t \in Thread : at[t] = "idle"
    BY DEF Init
  <2> QED
    BY <2>1, <2>2, <2>3 DEF Abstract!Init
<1>2. IInv /\ [Next]_vars => [Abstract!Next]_(Abstract!specVars)
  BY StepSeen
<1> QED
  BY <1>1, <1>2, Invariance, PTL DEF Spec, Implements, Abstract!Spec

=============================================================================

----------------------------- MODULE Capability -----------------------------
(* Capabilities: references to object identities in the kernel
   (src/repos/base-hw/src/core/kernel/object.cc, thread.cc), their transfer with
   the messages of a call, and the reference counter by which the threads of a
   protection domain decide when to give a capability back
   (src/repos/base-hw/src/lib/base/capability.cc, ipc.cc).

   A kernel call is one step, because the kernel lock is held. What user code
   does between two kernel calls interleaves with the other threads of its
   protection domain and with the kernel: a capability that one thread drops for
   the last time may be on its way to another thread. *)
EXTENDS Integers, FiniteSets

CONSTANTS
  Pd,         \* protection domains of user components
  Core,       \* the protection domain of core
  Thread,
  PdOf,       \* the protection domain of a thread
  Server,     \* threads that serve requests, one of core among them
  Identity,   \* object identities, each of them created at most once
  CapId,      \* capability IDs of one protection domain
  RefMod,     \* values of the reference counter, 2^8 for uint8_t
  MaxCopies,  \* bound, by protection domain: capability objects of one ID outside
              \* of messages
  MaxSlab,    \* bound: blocks that the slab of a protection domain grows to,
              \* enough for all identities and threads at once
  Invalid,    \* content of a reference whose identity was destroyed
  None        \* no reference, no capability, no thread

ASSUME CapabilityAssumption ==
  /\ Core \notin Pd
  /\ PdOf \in [Thread -> Pd \cup {Core}]
  /\ Server \subseteq Thread
  /\ \A t \in Thread : PdOf[t] = Core => t \in Server
  /\ IsFiniteSet(Thread) /\ IsFiniteSet(CapId) /\ IsFiniteSet(Identity)
  /\ Cardinality(CapId) >= Cardinality(Identity)
  /\ RefMod \in Nat \ {0} /\ MaxCopies \in [Pd -> Nat \ {0}] /\ MaxSlab \in Nat
  /\ Invalid \notin Identity /\ None \notin Identity \cup CapId \cup Thread \cup {Invalid}

VARIABLES
  object,   \* identities that core has created and not yet destroyed
  created,  \* identities that core has ever created
  k,        \* the capability spaces: see KernelState
  counter,  \* ref_counter of a protection domain, by capability ID
  copies,   \* capability objects of a protection domain outside of messages
  snd,      \* the capability in the message that a thread sends
  dying,    \* the ID that a thread deletes while it has the spin lock
  size,     \* blocks that the slab of a protection domain was given
  peer,     \* client: the server of its call, server: the client it serves
  pc,       \* where a thread is
  wrapped   \* history: a reference counter has wrapped around

objectVars == <<object, created>>
vars == <<object, created, k, counter, copies, snd, dying, size, peer, pc, wrapped>>

User == {t \in Thread : PdOf[t] # Core}
Client == Thread \ Server

\* The cap_tree of each protection domain with the counters _in_utcbs, the free
\* blocks of its capability slab, the threads that have a block ready for a
\* capability to come (_obj_id_ref_ptr), and the received capability in the UTCB.
KernelState ==
  [ref : [Pd -> [CapId -> Identity \cup {Invalid, None}]],
   inUtcbs : [Pd -> [CapId -> 0 .. Cardinality(Thread)]],
   slab : [Pd -> 0 .. MaxSlab],
   slot : SUBSET User,
   utcb : [Thread -> CapId \cup {None}]]

Init ==
  /\ object = {} /\ created = {}
  /\ k = [ref |-> [p \in Pd |-> [id \in CapId |-> None]],
          inUtcbs |-> [p \in Pd |-> [id \in CapId |-> 0]],
          slab |-> [p \in Pd |-> 0],
          slot |-> {},
          utcb |-> [t \in Thread |-> None]]
  /\ counter = [p \in Pd |-> [id \in CapId |-> 0]]
  /\ copies = [p \in Pd |-> [id \in CapId |-> 0]]
  /\ snd = [t \in Thread |-> None]
  /\ dying = [p \in Pd |-> None]
  /\ size = [p \in Pd |-> 0]
  /\ peer = [t \in Thread |-> None]
  /\ pc = [t \in Thread |-> IF t \in Server THEN "reply" ELSE "run"]
  /\ wrapped = FALSE

-----------------------------------------------------------------------------
(* Kernel: transfer of the capability of a message *)

\* The identity that the sender's capability denotes. Core sends its own
\* capabilities, there is one for each identity it has not destroyed.
Sent(s, from) ==
  LET i == IF PdOf[from] = Core \/ snd[from] = None THEN snd[from]
           ELSE s.ref[PdOf[from]][snd[from]]
  IN  IF i \in object THEN i ELSE None

\* References to the sent identity in the receiver's protection domain
KnownNone(s, from, to) == {}
Known(s, from, to) == {id \in CapId : s.ref[PdOf[to]][id] = Sent(s, from)}

Translates(from, to, s) == PdOf[to] # Core /\ Sent(s, from) # None
Creates(from, to, s) == Translates(from, to, s) /\ Known(s, from, to) = {}

\* The ID of a new reference: any ID that the allocator has left
NewIds(from, to, s) ==
  IF Creates(from, to, s) THEN {id \in CapId : s.ref[PdOf[to]][id] = None} ELSE {None}

\* The block of a new reference is in use
SlotStays(slot, to) == slot
TakeSlot(slot, to) == slot \ {to}

\* add_to_utcb
NotAdded(n) == n
AddToUtcb(n) == n + 1

\* Thread::ipc_copy_msg. What core receives is of no concern here, core never
\* deletes a reference by its ID.
CopyMsg(s, from, to, new) ==
  IF ~Translates(from, to, s) THEN [s EXCEPT !.utcb[to] = None]
  ELSE IF Creates(from, to, s)
  THEN [s EXCEPT !.ref[PdOf[to]][new] = Sent(s, from), !.slot = TakeSlot(@, to),
                 !.inUtcbs[PdOf[to]][new] = AddToUtcb(0), !.utcb[to] = new]
  ELSE LET id == CHOOSE id \in Known(s, from, to) : TRUE
       IN  [s EXCEPT !.inUtcbs[PdOf[to]][id] = AddToUtcb(@), !.utcb[to] = id]

\* Thread::_ipc_alloc_recv_caps: a block that was not needed is used again
CanAlloc(t, s) ==
  IF PdOf[t] = Core \/ t \in s.slot THEN TRUE ELSE s.slab[PdOf[t]] > 0
Alloc(t, s) ==
  IF PdOf[t] = Core \/ t \in s.slot THEN s
  ELSE [s EXCEPT !.slot = @ \cup {t}, !.slab[PdOf[t]] = @ - 1]

\* The clients that wait for server s
Queued(s) == {c \in Client : pc[c] = "queued" /\ peer[c] = s}

\* The capability in the UTCB of t that the kernel counts and t did not ack yet
Pending(t) == pc[t] \in {"import", "ack"} /\ k.utcb[t] # None

-----------------------------------------------------------------------------
(* User code: capability objects *)

\* The counter is an uint8_t.
Incremented(n) == (n + 1) % RefMod
Decremented(n) == (n - 1) % RefMod

\* The capability is deleted when the counter becomes zero.
LastCopyLate(n) == n = 0
LastCopy(n) == Decremented(n) = 0

\* The spin lock of the protection domain of t is free.
Unlocked(t) == dying[PdOf[t]] = None

\* The copy constructor of Native_capability calls _inc.
CopyCap(t, id) ==
  LET p == PdOf[t]
  IN  /\ pc[t] = "run" /\ Unlocked(t)
      /\ copies[p][id] > 0 /\ copies[p][id] < MaxCopies[p]
      /\ counter' = [counter EXCEPT ![p][id] = Incremented(@)]
      /\ copies' = [copies EXCEPT ![p][id] = @ + 1]
      /\ wrapped' = (wrapped \/ Incremented(counter[p][id]) = 0)
      /\ UNCHANGED <<objectVars, k, snd, dying, size, peer, pc>>

\* The destructor of Native_capability calls _dec, which keeps the spin lock
\* while it deletes the capability.
DropCap(t, id) ==
  LET p == PdOf[t]
      last == LastCopy(counter[p][id])
  IN  /\ pc[t] = "run" /\ Unlocked(t)
      /\ copies[p][id] > 0
      /\ counter' = [counter EXCEPT ![p][id] = Decremented(@)]
      /\ copies' = [copies EXCEPT ![p][id] = @ - 1]
      /\ dying' = IF last THEN [dying EXCEPT ![p] = id] ELSE dying
      /\ pc' = IF last THEN [pc EXCEPT ![t] = "delete"] ELSE pc
      /\ UNCHANGED <<objectVars, k, snd, size, peer, wrapped>>

\* A reference that is in a UTCB is not deleted.
MayDeleteAny(p, id) == k.ref[p][id] # None
MayDelete(p, id) == k.ref[p][id] # None /\ k.inUtcbs[p][id] = 0

\* delete_cap, and the spin lock is released
DeleteCap(t) ==
  LET p == PdOf[t]
      id == dying[p]
  IN  /\ pc[t] = "delete"
      /\ k' = IF MayDelete(p, id)
              THEN [k EXCEPT !.ref[p][id] = None, !.slab[p] = @ + 1]
              ELSE k
      /\ dying' = [dying EXCEPT ![p] = None]
      /\ pc' = [pc EXCEPT ![t] = "run"]
      /\ UNCHANGED <<objectVars, counter, copies, snd, size, peer, wrapped>>

-----------------------------------------------------------------------------
(* User code and kernel: calls *)

\* Bound: a thread starts no call while too many capability objects remain.
BelowBound(t) ==
  IF PdOf[t] = Core THEN TRUE ELSE \A id \in CapId : copies'[PdOf[t]][id] < MaxCopies[PdOf[t]]

\* A message takes one of the capability objects with it, or none.
Marshal(t, cap) ==
  /\ snd' = [snd EXCEPT ![t] = cap]
  /\ IF PdOf[t] = Core THEN cap \in object \cup {None} /\ UNCHANGED copies
     ELSE IF cap = None THEN UNCHANGED copies
     ELSE /\ copies[PdOf[t]][cap] > 0
          /\ copies' = [copies EXCEPT ![PdOf[t]][cap] = @ - 1]

\* ipc_call up to the kernel call
Call(c, s, cap) ==
  /\ c \in Client /\ pc[c] = "run" /\ s \in Server
  /\ Marshal(c, cap) /\ BelowBound(c)
  /\ peer' = [peer EXCEPT ![c] = s]
  /\ pc' = [pc EXCEPT ![c] = "send"]
  /\ UNCHANGED <<objectVars, k, counter, dying, size, wrapped>>

\* send_request_msg: a server that waits receives the request at once. Without a
\* block for the capability of the reply, nothing is sent.
SendRequest(c) ==
  LET s == peer[c]
      k1 == Alloc(c, k)
  IN  /\ pc[c] = "send"
      /\ \/ /\ CanAlloc(c, k) /\ pc[s] = "wait"
            /\ \E new \in NewIds(c, s, k1) : k' = CopyMsg(k1, c, s, new)
            /\ peer' = [peer EXCEPT ![s] = c]
            /\ pc' = [pc EXCEPT ![c] = "called", ![s] = "import"]
         \/ /\ CanAlloc(c, k) /\ pc[s] # "wait"
            /\ k' = k1
            /\ pc' = [pc EXCEPT ![c] = "queued"]
            /\ UNCHANGED peer
         \/ /\ ~CanAlloc(c, k)
            /\ pc' = [pc EXCEPT ![c] = "upgrade"]
            /\ UNCHANGED <<k, peer>>
      /\ UNCHANGED <<objectVars, counter, copies, snd, dying, size, wrapped>>

\* ipc_reply_wait up to the kernel call
Reply(s, cap) ==
  /\ s \in Server /\ pc[s] = "run"
  /\ Marshal(s, cap) /\ BelowBound(s)
  /\ pc' = [pc EXCEPT ![s] = "reply"]
  /\ UNCHANGED <<objectVars, k, counter, dying, size, peer, wrapped>>

\* Ipc_node::reply: the client gets the reply, unless there is none or it got
\* the reply in an earlier attempt of this call.
Replied(s, new) == IF peer[s] = None THEN k ELSE CopyMsg(k, s, peer[s], new)
NewReplyIds(s) == IF peer[s] = None THEN {None} ELSE NewIds(s, peer[s], k)
ReplyDone(s) == IF peer[s] = None THEN pc ELSE [pc EXCEPT ![peer[s]] = "import"]

\* send_reply_msg: after the reply, the server receives the next request, waits
\* for one, or has no block to receive capabilities.
SendReply(s) ==
  /\ pc[s] = "reply"
  /\ \E new \in NewReplyIds(s) :
       LET k1 == Replied(s, new)
           k2 == Alloc(s, k1)
       IN  \/ /\ CanAlloc(s, k1)
              /\ \E c \in Queued(s) :
                   /\ \E id \in NewIds(c, s, k2) : k' = CopyMsg(k2, c, s, id)
                   /\ peer' = [peer EXCEPT ![s] = c]
                   /\ pc' = [ReplyDone(s) EXCEPT ![c] = "called", ![s] = "import"]
           \/ /\ CanAlloc(s, k1)
              /\ Queued(s) = {}
              /\ k' = k2
              /\ peer' = [peer EXCEPT ![s] = None]
              /\ pc' = [ReplyDone(s) EXCEPT ![s] = "wait"]
           \/ /\ ~CanAlloc(s, k1)
              /\ k' = k1
              /\ peer' = [peer EXCEPT ![s] = None]
              /\ pc' = [ReplyDone(s) EXCEPT ![s] = "upgrade"]
  /\ UNCHANGED <<objectVars, counter, copies, snd, dying, size, wrapped>>

\* The kernel call returned -2: upgrade_capability_slab adds memory to the slab,
\* and the same message is sent again.
UpgradeSlab(t) ==
  /\ pc[t] = "upgrade"
  /\ size[PdOf[t]] < MaxSlab
  /\ size' = [size EXCEPT ![PdOf[t]] = @ + 1]
  /\ k' = [k EXCEPT !.slab[PdOf[t]] = @ + 1]
  /\ pc' = [pc EXCEPT ![t] = IF t \in Server THEN "reply" ELSE "send"]
  /\ UNCHANGED <<objectVars, counter, copies, snd, dying, peer, wrapped>>

One(b) == IF b THEN 1 ELSE 0

\* The messages of t are done with: the capability objects in what it sent and in
\* what it received (got) may be copied, sent and dropped from now on.
ReleaseMsgs(t, got) ==
  /\ snd' = [snd EXCEPT ![t] = None]
  /\ copies' = IF PdOf[t] = Core THEN copies
               ELSE [copies EXCEPT ![PdOf[t]] = [id \in CapId |->
                       @[id] + One(id = snd[t]) + One(id = got)]]

\* copy_utcb_to_msg: the capability object for the received ID calls _inc.
Import(t) ==
  LET id == k.utcb[t]
  IN  /\ pc[t] = "import" /\ id # None
      /\ Unlocked(t)
      /\ counter' = [counter EXCEPT ![PdOf[t]][id] = Incremented(@)]
      /\ pc' = [pc EXCEPT ![t] = "ack"]
      /\ wrapped' = (wrapped \/ Incremented(counter[PdOf[t]][id]) = 0)
      /\ UNCHANGED <<objectVars, k, copies, snd, dying, size, peer>>

\* copy_utcb_to_msg: there is nothing to import.
ImportNothing(t) ==
  /\ pc[t] = "import" /\ k.utcb[t] = None
  /\ ReleaseMsgs(t, None)
  /\ pc' = [pc EXCEPT ![t] = "run"]
  /\ peer' = IF t \in Server THEN peer ELSE [peer EXCEPT ![t] = None]
  /\ UNCHANGED <<objectVars, k, counter, dying, size, wrapped>>

\* copy_utcb_to_msg calls ack_cap after the import.
AckCap(t) ==
  LET p == PdOf[t]
      id == k.utcb[t]
  IN  /\ pc[t] = "ack"
      /\ k' = [k EXCEPT !.inUtcbs[p][id] = IF k.ref[p][id] = None THEN @ ELSE @ - 1,
                        !.utcb[t] = None]
      /\ ReleaseMsgs(t, id)
      /\ pc' = [pc EXCEPT ![t] = "run"]
      /\ peer' = IF t \in Server THEN peer ELSE [peer EXCEPT ![t] = None]
      /\ UNCHANGED <<objectVars, counter, dying, size, wrapped>>

-----------------------------------------------------------------------------
(* Core: object identities *)

\* _call_new_obj, and the constructors of other kernel objects
NewObject(t, i) ==
  /\ PdOf[t] = Core /\ pc[t] = "run"
  /\ i \in Identity \ created
  /\ object' = object \cup {i} /\ created' = created \cup {i}
  /\ UNCHANGED <<k, counter, copies, snd, dying, size, peer, pc, wrapped>>

\* Object_identity::invalidate: the references remain, but denote nothing.
Invalidated(v, i) == IF v = i THEN Invalid ELSE v

\* _call_delete_obj, and the destructors of other kernel objects
DestroyObject(t, i) ==
  /\ PdOf[t] = Core /\ pc[t] = "run"
  /\ i \in object
  /\ object' = object \ {i}
  /\ k' = [k EXCEPT !.ref = [p \in Pd |-> [id \in CapId |-> Invalidated(k.ref[p][id], i)]]]
  /\ UNCHANGED <<created, counter, copies, snd, dying, size, peer, pc, wrapped>>

-----------------------------------------------------------------------------
UserStep(t) ==
  \/ \E id \in CapId : CopyCap(t, id) \/ DropCap(t, id)
  \/ \E cap \in CapId \cup {None} : Reply(t, cap) \/ \E s \in Server : Call(t, s, cap)
  \/ DeleteCap(t)
  \/ Import(t)
  \/ AckCap(t)

CoreStep(t) ==
  \/ \E i \in Identity : NewObject(t, i) \/ DestroyObject(t, i) \/ Reply(t, i)
  \/ Reply(t, None)

CallStep(t) ==
  \/ SendRequest(t)
  \/ SendReply(t)
  \/ UpgradeSlab(t)
  \/ ImportNothing(t)

Next ==
  \/ \E t \in User : UserStep(t)
  \/ \E t \in Thread \ User : CoreStep(t)
  \/ \E t \in Thread : CallStep(t)

Spec == Init /\ [][Next]_vars

-----------------------------------------------------------------------------
(* Properties *)

TypeOK ==
  /\ object \subseteq created /\ created \subseteq Identity
  /\ k \in KernelState
  /\ counter \in [Pd -> [CapId -> 0 .. RefMod - 1]]
  /\ copies \in [Pd -> [CapId -> Nat]]
  /\ \A p \in Pd, id \in CapId : copies[p][id] <= MaxCopies[p] + 2 * Cardinality(Thread)
  /\ snd \in [Thread -> CapId \cup Identity \cup {None}]
  /\ dying \in [Pd -> CapId \cup {None}]
  /\ size \in [Pd -> 0 .. MaxSlab]
  /\ peer \in [Thread -> Thread \cup {None}]
  /\ pc \in [Thread -> {"run", "delete", "send", "queued", "called", "reply", "wait",
                        "upgrade", "import", "ack"}]
  /\ wrapped \in BOOLEAN

Threads(p) == {t \in Thread : PdOf[t] = p}

\* A thread of p has a capability object with this ID, in a message or elsewhere.
Held(p, id) ==
  \/ copies[p][id] > 0
  \/ \E t \in Threads(p) : snd[t] = id \/ (pc[t] = "ack" /\ k.utcb[t] = id)

\* A received ID waits to be imported or to be acknowledged.
Arriving(p, id) == \E t \in Threads(p) : Pending(t) /\ k.utcb[t] = id

\* While a capability object exists in a protection domain, and while a received
\* ID waits to be imported, the kernel keeps the reference with this ID, so that
\* the ID is never given to another capability (_call_delete_cap, in_utcb).
HeldHasReference ==
  \A p \in Pd, id \in CapId : Held(p, id) \/ Arriving(p, id) => k.ref[p][id] # None

\* The same until a counter wraps around: nothing keeps a protection domain from
\* having more capability objects of one ID than uint8_t counts (capability.cc:40).
HeldIsReferenced == ~wrapped => HeldHasReference

\* No reference is left behind: somebody has a capability object for it, is about
\* to import it, or is about to delete it (the early return of _call_delete_cap
\* relies on the one who imports the capability next).
UnusedIsDeleted ==
  ~wrapped =>
    \A p \in Pd, id \in CapId :
      k.ref[p][id] # None => Held(p, id) \/ Arriving(p, id) \/ dying[p] = id

\* A protection domain has one reference per identity, whoever sends it
\* (Object_identity_reference::find): capabilities can be compared by their IDs.
OneReference ==
  \A p \in Pd, id1, id2 \in CapId :
    k.ref[p][id1] = k.ref[p][id2] /\ k.ref[p][id1] \in Identity => id1 = id2

\* Every block of a slab is free, holds a reference or is kept by a thread for a
\* capability to come: none is lost by failed or repeated calls, none used twice.
BlocksAccounted ==
  \A p \in Pd :
    size[p] = k.slab[p] + Cardinality({id \in CapId : k.ref[p][id] # None})
                        + Cardinality(k.slot \cap Threads(p))

\* Capability spaces and slabs are in order, whichever calls failed for the lack
\* of memory and were repeated (ipc_copy_msg, _ipc_alloc_recv_caps).
SpacesConsistent == TypeOK /\ OneReference /\ BlocksAccounted

=============================================================================

----------------------------- MODULE CpuScheduler -----------------------------
(***************************************************************************)
(* The CPU scheduler of the base-hw kernel.                                *)
(*                                                                         *)
(* Sources: base-hw/src/core/kernel/cpu_scheduler.{h,cc}, double_list.h,   *)
(* and Cpu::schedule, Cpu::timeout, Cpu_job::affinity, Cpu_job::quota and  *)
(* ~Cpu_job, which drive it.                                               *)
(*                                                                         *)
(* A share with a quota is a claim: in every round (super period) it may   *)
(* run with its priority until its quota is used up. All ready shares are  *)
(* also fills: they run in turn whenever no ready claim has quota left.    *)
(* One instance schedules one CPU. Every action is part of one pass        *)
(* through the kernel, under the kernel lock; time passes in between.      *)
(***************************************************************************)
EXTENDS Naturals, SequencesExt, FiniteSetsExt, Functions

CONSTANTS
  Share,
  Idle,         \* Cpu_scheduler::_idle
  None,         \* the null pointer
  MaxPrio,      \* Cpu_priority::max()
  Quota,        \* Cpu_scheduler::_quota, the ticks of a round
  Fill,         \* Cpu_scheduler::_fill, the time slice of a fill in ticks
  Quotas,       \* the quotas that core assigns
  QuotaSum      \* the most that core assigns to the shares of a CPU in total

ASSUME CpuSchedulerAssumption ==
  /\ Idle \notin Share /\ None \notin Share /\ Idle # None
  /\ MaxPrio \in Nat
  /\ Quota \in Nat \ {0} /\ Fill \in Nat \ {0}
  /\ Quotas \subseteq Nat /\ QuotaSum \in Nat

VARIABLES
  present,     \* the shares that are inserted
  ready,       \* the shares whose _ready is set
  prio,        \* Cpu_share::_prio
  quota,       \* Cpu_share::_quota
  claim,       \* Cpu_share::_claim
  fill,        \* Cpu_share::_fill
  rcl,         \* Cpu_scheduler::_rcl, the ready claims of each priority
  ucl,         \* Cpu_scheduler::_ucl, the others; their order has no effect
  fills,       \* Cpu_scheduler::_fills
  head,        \* Cpu_scheduler::_head
  headQuota,   \* _head_quota
  headClaims,  \* _head_claims
  headYields,  \* _head_yields
  removed,     \* _head_was_removed
  residual,    \* _residual, what is left of the round
  need,        \* _need_to_schedule
  used,        \* the time that each share has run as a claim in this round
  peak,        \* the highest quota that each share has had in this round
  steady,      \* the shares that were ready in the whole round so far
  regained     \* the shares that got a quota in this round while they still had
               \* a claim of an earlier quota, see SetQuota

shareVars == <<present, ready, prio, quota, claim, fill>>
listVars == <<rcl, ucl, fills>>
headVars == <<head, headQuota, headClaims, headYields, removed>>
roundVars == <<used, peak, steady, regained>>
vars == <<shareVars, listVars, headVars, residual, need, roundVars>>

Prio == 0 .. MaxPrio

TypeOK ==
  /\ present \subseteq Share /\ ready \subseteq present /\ steady \subseteq ready
  /\ regained \subseteq present
  /\ prio \in [Share -> Prio]
  /\ {quota, claim, fill, used, peak} \subseteq [Share -> Nat]
  /\ rcl \in [Prio -> Seq(Share)] /\ ucl \in [Prio -> SUBSET Share] /\ fills \in Seq(Share)
  /\ head \in present \cup {Idle, None} /\ headQuota \in Nat
  /\ {headClaims, headYields, removed, need} \subseteq BOOLEAN
  /\ residual \in 1 .. Quota

Init ==
  /\ present = {} /\ ready = {} /\ steady = {} /\ regained = {}
  /\ prio = [s \in Share |-> 0]
  /\ quota = [s \in Share |-> 0] /\ claim = quota /\ fill = quota
  /\ used = quota /\ peak = quota
  /\ rcl = [p \in Prio |-> <<>>] /\ ucl = [p \in Prio |-> {}] /\ fills = <<>>
  /\ head = Idle /\ headQuota = Fill /\ headClaims = FALSE
  /\ headYields = FALSE /\ removed = FALSE
  /\ residual = Quota /\ need = TRUE

-----------------------------------------------------------------------------
(* Double_list *)

Without(q, s) ==
  IF s \in ToSet(q) THEN RemoveAt(q, CHOOSE i \in DOMAIN q : q[i] = s) ELSE q
ToTail(q, s) == Append(Without(q, s), s)
ToHead(q, s) == <<s>> \o Without(q, s)

-----------------------------------------------------------------------------
(* Cpu_scheduler::update *)

\* head_quota(): the time until the timer interrupts the head.
HeadQuota == Min({headQuota, residual})

\* The part of the d ticks since the last update that _trim_consumption accounts for.
Consumed(d) == Min({d, HeadQuota})

\* What _trim_consumption leaves to the head of its claim or of its time slice.
LeftUncharged(d) == headQuota    \* mutant: the consumed time is not subtracted
Left(d) == IF headYields THEN 0 ELSE headQuota - Consumed(d)

\* _consumed: is the round over after d ticks?
RoundOverLate(d) == residual < Consumed(d)    \* mutant: off by one
RoundOver(d) == residual <= Consumed(d)

\* _head_claimed has an effect on the head.
ChargesClaim == head \in Share /\ headClaims /\ quota[head] > 0

\* _head_claimed: the claims after d ticks are subtracted.
Charged(d) ==
  IF ChargesClaim THEN [claim EXCEPT ![head] = Min({Left(d), quota[head]})] ELSE claim

\* The head has no claim left in this round and wants to go on.
Depleted(d) == ChargesClaim /\ Charged(d)[head] = 0 /\ head \in ready

\* _head_claimed: a depleted claim goes behind all others of its priority.
RclKept(d) == rcl    \* mutant: it keeps its place
RclAfter(d) == IF Depleted(d) THEN [rcl EXCEPT ![prio[head]] = ToTail(@, head)] ELSE rcl

\* _head_filled has an effect on the head.
ChargesFill == head \in Share /\ ~headClaims /\ fills # <<>> /\ Head(fills) = head

\* _head_filled, _next_fill: what is left of the time slices, with a new one
\* for a head that has used it up.
FillUsedUp(d) == IF ChargesFill THEN [fill EXCEPT ![head] = Left(d)] ELSE fill    \* mutant: no new one
FillAfter(d) ==
  IF ChargesFill THEN [fill EXCEPT ![head] = IF Left(d) > 0 THEN Left(d) ELSE Fill] ELSE fill

\* _head_claimed and _next_fill: a claim that is depleted and does not yield is
\* the next fill, a fill whose time slice is used up the last.
FillsUnturned(d) ==    \* mutant: a fill keeps its turn
  IF Depleted(d) /\ ~headYields THEN ToHead(fills, head) ELSE fills
FillsAfter(d) ==
  IF Depleted(d) /\ ~headYields THEN ToHead(fills, head)
  ELSE IF ChargesFill /\ Left(d) = 0 THEN ToTail(fills, head)
  ELSE fills

\* _next_round: all claims are reset to the quotas. A share without a quota is
\* in none of the lists, it keeps its claim.
NextRound(cl) == [s \in Share |-> IF quota[s] > 0 THEN quota[s] ELSE cl[s]]

\* _claim_for_head: the priorities whose first claim has time left.
ClaimBands(r, cl) == {p \in Prio : r[p] # <<>> /\ cl[Head(r[p])] > 0}

\* The choice of a head: the first claim of the highest priority that has one,
\* else the first fill, else the idle share.
ChooseHead(r, cl, fl, fs) ==
  LET bands == ClaimBands(r, cl) IN
  IF bands # {} THEN <<Head(r[Max(bands)]), cl[Head(r[Max(bands)])], TRUE>>
  ELSE IF fs # <<>> THEN <<Head(fs), fl[Head(fs)], FALSE>>
  ELSE <<Idle, Fill, FALSE>>

\* Cpu::schedule with need_to_schedule(): update, after d ticks. Only a
\* head, or one that was removed since the last update, has consumed time. More
\* ticks than Quota count as Quota, as a late timer interrupt is trimmed.
Update(d) ==
  LET accounts == head # None \/ removed
      newRound == accounts /\ RoundOver(d)
      cl == IF newRound THEN NextRound(Charged(d)) ELSE Charged(d)
      chosen == ChooseHead(RclAfter(d), cl, FillAfter(d), FillsAfter(d))
  IN
  /\ need
  /\ claim' = cl
  /\ fill' = FillAfter(d)
  /\ rcl' = RclAfter(d)
  /\ fills' = FillsAfter(d)
  /\ residual' = IF newRound THEN Quota
                 ELSE IF accounts THEN residual - Consumed(d) ELSE residual
  /\ head' = chosen[1] /\ headQuota' = chosen[2] /\ headClaims' = chosen[3]
  /\ headYields' = IF accounts THEN FALSE ELSE headYields
  /\ removed' = FALSE /\ need' = FALSE
  /\ used' = [s \in Share |->
                IF newRound THEN 0
                ELSE IF headClaims /\ s = head THEN used[s] + Consumed(d) ELSE used[s]]
  /\ peak' = IF newRound THEN quota ELSE peak
  /\ steady' = IF newRound THEN ready ELSE steady
  /\ regained' = IF newRound THEN {} ELSE regained
  /\ UNCHANGED <<present, ready, prio, quota, ucl>>

\* timeout, called by Timer::Irq::occurred for the timeout of the head that
\* Cpu::schedule has set or for a timeout of a thread.
Timeout ==
  /\ ~need /\ need' = TRUE
  /\ UNCHANGED <<shareVars, listVars, headVars, residual, roundVars>>

-----------------------------------------------------------------------------
(* Shares *)

\* What core has assigned, with quota q for share s.
QuotasFit(s, q) == SumFunctionOnSet([quota EXCEPT ![s] = q], present \cup {s}) <= QuotaSum

\* Cpu_job::affinity of a new job: insert
Insert(s, p, q) ==
  /\ s \notin present /\ QuotasFit(s, q)
  /\ present' = present \cup {s}
  /\ prio' = [prio EXCEPT ![s] = p]
  /\ quota' = [quota EXCEPT ![s] = q]
  /\ claim' = [claim EXCEPT ![s] = q]
  /\ ucl' = IF q > 0 THEN [ucl EXCEPT ![p] = @ \cup {s}] ELSE ucl
  /\ peak' = [peak EXCEPT ![s] = q]
  /\ steady' = {}
  /\ UNCHANGED <<ready, fill, rcl, fills, headVars, residual, need, used, regained>>

\* The list of ready claims with share s, which becomes ready with claim c.
EnrollFirst(q, s, c) == <<s>> \o q    \* mutant: in front of the others without a claim
Enroll(q, s, c) == IF c > 0 THEN <<s>> \o q ELSE Append(q, s)

\* ready: must the head give way to share s?
PreemptsClaims(s) ==    \* mutant: a head that runs as a fill is not considered
  quota[s] > 0 /\ claim[s] > 0 /\ head # None /\ headClaims /\ prio[s] >= prio[head]
Preempts(s) ==
  /\ quota[s] > 0 /\ claim[s] > 0
  /\ head # None /\ headClaims => prio[s] >= prio[head]

\* ready
Ready(s) ==
  /\ s \in present \ ready
  /\ ready' = ready \cup {s}
  /\ IF quota[s] > 0
     THEN /\ ucl' = [ucl EXCEPT ![prio[s]] = @ \ {s}]
          /\ rcl' = [rcl EXCEPT ![prio[s]] = Enroll(@, s, claim[s])]
     ELSE UNCHANGED <<ucl, rcl>>
  /\ fill' = [fill EXCEPT ![s] = Fill]
  /\ fills' = Append(fills, s)
  /\ need' = (need \/ Preempts(s) \/ head \in {None, Idle})
  /\ UNCHANGED <<present, prio, quota, claim, headVars, residual, roundVars>>

\* unready
Unready(s) ==
  /\ s \in ready
  /\ need' = (need \/ s = head)
  /\ ready' = ready \ {s}
  /\ fills' = Without(fills, s)
  /\ IF quota[s] > 0
     THEN /\ rcl' = [rcl EXCEPT ![prio[s]] = Without(@, s)]
          /\ ucl' = [ucl EXCEPT ![prio[s]] = @ \cup {s}]
     ELSE UNCHANGED <<ucl, rcl>>
  /\ steady' = steady \ {s}
  /\ UNCHANGED <<present, prio, quota, claim, fill, headVars, residual, used, peak,
                 regained>>

\* Cpu_job::_yield: yield
Yield ==
  /\ head \in Share
  /\ headYields' = TRUE /\ need' = TRUE
  /\ UNCHANGED <<shareVars, listVars, head, headQuota, headClaims, removed, residual,
                 roundVars>>

\* ~Cpu_job: remove, which unreadies a ready share first. The attributes of a
\* share that does not exist have no meaning, they are reset.
RemoveShare(s) ==
  /\ s \in present
  /\ present' = present \ {s} /\ ready' = ready \ {s} /\ steady' = steady \ {s}
  /\ regained' = regained \ {s}
  /\ need' = (need \/ (s \in ready /\ s = head))
  /\ fills' = Without(fills, s)
  /\ rcl' = [rcl EXCEPT ![prio[s]] = Without(@, s)]
  /\ ucl' = [ucl EXCEPT ![prio[s]] = @ \ {s}]
  /\ head' = IF head = s THEN None ELSE head
  /\ removed' = (removed \/ head = s)
  /\ prio' = [prio EXCEPT ![s] = 0]
  /\ quota' = [quota EXCEPT ![s] = 0] /\ claim' = [claim EXCEPT ![s] = 0]
  /\ fill' = [fill EXCEPT ![s] = 0]
  /\ used' = [used EXCEPT ![s] = 0] /\ peak' = [peak EXCEPT ![s] = 0]
  /\ UNCHANGED <<headQuota, headClaims, headYields, residual>>

\* _quota_introduction, _quota_revokation: the ready and the unready claims when
\* share s becomes or stops to be a claim.
RevokedReady(s) == UNCHANGED rcl /\ ucl' = [ucl EXCEPT ![prio[s]] = @ \ {s}]    \* mutant: one list only
Revoked(s) ==
  IF s \in ready THEN rcl' = [rcl EXCEPT ![prio[s]] = Without(@, s)] /\ UNCHANGED ucl
  ELSE ucl' = [ucl EXCEPT ![prio[s]] = @ \ {s}] /\ UNCHANGED rcl
Introduced(s) ==
  IF s \in ready THEN rcl' = [rcl EXCEPT ![prio[s]] = Append(@, s)] /\ UNCHANGED ucl
  ELSE ucl' = [ucl EXCEPT ![prio[s]] = @ \cup {s}] /\ UNCHANGED rcl

\* A share that gets a quota still has a claim: _quota_revokation does not clear
\* the claim and _quota_introduction leaves it as it is.
Regains(s) == quota[s] = 0 /\ claim[s] > 0

\* Cpu_job::quota: quota, _quota_adaption
SetQuota(s, q) ==
  /\ s \in present /\ q # quota[s] /\ QuotasFit(s, q)
  /\ quota' = [quota EXCEPT ![s] = q]
  /\ claim' = IF quota[s] > 0 /\ q > 0 THEN [claim EXCEPT ![s] = Min({@, q})] ELSE claim
  /\ IF quota[s] > 0 /\ q = 0 THEN Revoked(s)
     ELSE IF quota[s] = 0 THEN Introduced(s)
     ELSE UNCHANGED <<rcl, ucl>>
  /\ peak' = [peak EXCEPT ![s] = Max({@, q})]
  /\ regained' = IF Regains(s) THEN regained \cup {s} ELSE regained
  /\ steady' = IF Regains(s) THEN {} ELSE steady
  /\ UNCHANGED <<present, ready, prio, fill, fills, headVars, residual, need, used>>

-----------------------------------------------------------------------------

ShareStep(s) ==
  \/ \E p \in Prio, q \in Quotas : Insert(s, p, q)
  \/ \E q \in Quotas : SetQuota(s, q)
  \/ Ready(s)
  \/ Unready(s)
  \/ RemoveShare(s)

Next ==
  \/ Timeout
  \/ \E d \in 0 .. Quota : Update(d)
  \/ Yield
  \/ \E s \in Share : ShareStep(s)

Spec == Init /\ [][Next]_vars

-----------------------------------------------------------------------------
(* Safety *)

\* Every share is in exactly the lists that its state says, once: a share is
\* removed from the list it is in and never gets lost or queued twice, whatever
\* order of ready, unready, quota and remove (Double_list::remove trusts this).
ListsMatch ==
  /\ ToSet(fills) = ready /\ IsInjective(fills)
  /\ \A p \in Prio :
       /\ ToSet(rcl[p]) = {s \in ready : quota[s] > 0 /\ prio[s] = p}
       /\ IsInjective(rcl[p])
       /\ ucl[p] = {s \in present \ ready : quota[s] > 0 /\ prio[s] = p}

\* Depleted claims are behind the others of their priority, as _claim_for_head
\* looks at the first one only. A share that gets a quota and has kept a claim
\* goes behind them too and waits there for the next round.
DepletedBehind ==
  \A p \in Prio : \A i, j \in DOMAIN rcl[p] :
    i < j /\ rcl[p][j] \notin regained /\ claim[rcl[p][j]] > 0 => claim[rcl[p][i]] > 0

\* Unless it is about to be updated, the head is ready, or idles because nothing
\* else is ready, and no ready claim waits for a fill or for a claim of lower
\* priority (the conditions under which ready, unready and remove request a
\* scheduling decision; a share that gets a quota while it has kept a claim does
\* not, it may have to wait for the next round).
HeadIsBest ==
  need \/ /\ head \in ready \cup {Idle}
          /\ head = Idle => ready = {}
          /\ \A s \in ready \ regained : quota[s] > 0 /\ claim[s] > 0 =>
                                           headClaims /\ prio[s] <= prio[head]

\* Every time slice is positive: the timer that ends it is never set to zero,
\* which would make the kernel spin without progress (head_quota).
SlicePositive == HeadQuota > 0 /\ \A s \in ready : fill[s] > 0

\* The lists of the scheduler are what _claim_for_head, _fill_for_head and
\* head_quota take for granted.
ListsConsistent == TypeOK /\ ListsMatch /\ DepletedBehind /\ SlicePositive

\* The prioritized time of a share in one round is limited by the highest quota
\* that it has had in the round, also with what it may still claim, unless it got
\* its quota in this round and has kept a claim of an earlier one.
QuotaLimitsClaims ==
  \A s \in present \ regained : quota[s] > 0 => used[s] + claim[s] <= peak[s]

\* The prioritized time of a share in one round is limited by its quota ("a quota
\* that limits the prioritized execution time of a context").
QuotaLimitsTime == \A s \in present : used[s] <= peak[s]

\* A share that is ready for a whole round gets its quota in this round: as long
\* as it has not got all of it, what all shares may still claim fits into the
\* rest of the round. In rounds in which no share is inserted or gets a quota
\* while it has kept a claim, and if core does not assign more than there is.
QuotaGuaranteed ==
  (\E s \in steady : quota[s] > 0 /\ claim[s] > 0) =>
    SumFunctionOnSet(claim, {s \in present : quota[s] > 0}) <= residual

-----------------------------------------------------------------------------
(* Liveness *)

\* The timer interrupts the head, the kernel schedules, and time passes between
\* its decisions.
Fairness == WF_vars(Timeout) /\ SF_vars(\E d \in 1 .. Quota : Update(d))

FairSpec == Spec /\ Fairness

\* Share s does not stay ready without getting to run.
Runs(s) == []<>(s \notin ready \/ head = s)

\* A round is longer than all claims and one time slice for each of them, which a
\* depleted claim gets as the next fill.
RoomForFills ==
  LET claims == {s \in present : quota[s] > 0} IN
  SumFunctionOnSet(quota, claims) + Fill * Cardinality(claims) < Quota

\* Once shares do not come and go and their quotas are settled and leave room in
\* the rounds, every share that stays ready gets to run, however the others block,
\* wake up and yield (the order of _fills, and the limit that quotas put on
\* claims). Without the room a share without a quota may starve.
ReadySharesRun ==
  /\ <>[]RoomForFills
  /\ <>[][\/ Timeout \/ Yield \/ \E d \in 0 .. Quota : Update(d)
          \/ \E s \in Share : Ready(s) \/ Unready(s)]_vars
  => \A s \in Share : Runs(s)

\* Shares that stay ready take turns as fills and get to run ("Fills are
\* scheduled in a simple round-robin fashion with identical time slices").
FillsTakeTurns ==
  <>[][Timeout \/ \E d \in 0 .. Quota : Update(d)]_vars => \A s \in Share : Runs(s)

=============================================================================

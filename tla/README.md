# Formal verification of the base-hw kernel of the Genode OS Framework

This directory holds TLA+ models of the kernel that the Genode OS Framework
brings along for running directly on hardware (`repos/base-hw`, release 23.08)
and of the parts of the base library (`repos/base`) that build on it, the TLC
configurations that model-check them and TLAPS proofs about them.
`PROJECT.json` relates every definition to the source lines it stands for and
lists components, runs, hazards, findings and theorems in a machine-readable
form. Paths below are relative to `repos/base-hw/src/core/kernel/` if they
name no directory.

## 1. Inventory

### The system

Genode is a component framework. Components are protection domains with
threads that talk by synchronous remote procedure calls, asynchronous
notifications (signals) and shared memory. The same framework runs on several
kernels (`base-linux`, `base-nova`, `base-foc`, ...), whose code is not part of
the repository; `base-hw` is the one kernel that is. On `base-hw` the
component `core` and the kernel are one program: `core` runs in user mode and
enters the kernel by calls that only it may use.

The repository also holds hundreds of servers, drivers, applications and ports
of third-party software (`os`, `gems`, `libports`, `ports`, `dde_*`, `demo`,
`pc`) and four small demo repositories (`bench_rpc`, `rpctest`,
`block_session_demo`, `remote_block`). All of them build on the kernel
mechanisms, and what goes wrong there surfaces far away from its cause. So the
project starts with the kernel and the synchronization, signal and entrypoint
code of the base library, which every component executes.

| Part | State | Operations | Works with |
|---|---|---|---|
| Threads (`thread.cc`) | `_state`, `_paused`, `_cancel_next_await_signal` | construct, start, pause, resume, stop, restart, fault, die, delete | IPC node, signal handler and killer as members; CPU job as base class |
| IPC nodes (`ipc_node.cc`) | `_in` (state, queue of clients), `_out` (state, called node) | send, wait, reply, destruct | wake and block threads; helping lends CPU shares |
| Signals (`signal_receiver.cc`) | per context submits, `_ack`, `_killed`, `_killer`; per receiver queues of handlers and of deliverable contexts | submit, acknowledge, kill, await, poll, cancel, delete | threads, interrupts, timeouts, page faults |
| CPU scheduler (`cpu_scheduler.cc`) | shares with priority, quota, claim and time slice; lists of ready claims, unready claims and fills; head; rest of the round | insert, remove, ready, unready, yield, quota, timeout, update | CPU jobs, timer |
| Timer (`timer.cc`) | sorted list of timeouts, time, one-shot hardware timer | set, process, program | scheduler, threads |
| Inter-processor work (`cpu_mp.cc`) | work lists, pending flag of the interrupt | insert, announce, execute | thread deletion, TLB invalidation, suspend |
| Capabilities (`object.cc`) | object identities, references, trees per domain, use counts, slab | create, find, acknowledge, delete, upgrade | IPC messages, reference counters of the base library |
| Kernel entry (`main.cc`, `lock.cc`) | lock and owner, boot and suspend counters | enter, boot, suspend, resume | every pass |
| Interrupts, virtual machines | IRQ pool; VM contexts | occur, acknowledge; run, pause | signals, scheduler |
| Locks (`base/src/lib/base/lock.cc`) | state, owner, list of applicants on the stacks of waiting threads | lock, unlock, wake up | stop and restart of threads, pager |
| Semaphores (`base/semaphore.h`) | counter, queue of elements on stacks | up, down | a mutex and a blockade per waiting thread |
| Signal library (`signal_receiver.cc`, `signal_common.cc`) | per context a pending flag and the current signal; ring of contexts | manage, block, poll, dissolve | kernel signals |
| Entrypoint (`entrypoint.cc`) | list of deferred signals, flag of the proxy, mutex for blocking | receive, dispatch, wait for I/O, defer, dissolve | its proxy thread, signal library, RPC |
| Rest of the base library | object pools, sessions, allocators, containers | - | RPC |

How parts interact: every exception and interrupt starts a *kernel pass*. The
pass takes the one kernel lock (`main.cc`, `Main::handle_kernel_entry`),
handles the exception of the interrupted job, asks the scheduler for the next
job and leaves. Passes of different CPUs therefore exclude each other, and a
pass is the atomic step of all modules. What is *not* atomic is everything
between two passes: a client that has been queued can be deleted, paused or
overtaken before the server answers; a context can be killed between delivery
and acknowledgement; a quota can change between two scheduling decisions.

### What is hard here

* The share of a blocked client stays ready and runs its server. Sends,
  replies, stops, faults and deletions have to walk over trees of helpers and
  must neither activate a share twice (an assertion halts the machine) nor
  forget one.
* Objects that point to each other are destroyed at any moment: clients of a
  server, the server of clients, contexts that are being killed, the thread
  that waits for the kill.
* A wakeup may be lost in either order of "something to deliver" and
  "somebody waits".
* Scheduler lists are taken on trust: a share must be in exactly the list its
  state says, a depleted claim behind the others, and the only trigger of a new
  decision is one flag.
* Counters meet their limits: submits, residual of a round, zero time slices,
  copies of a capability.
* Each CPU has its own head of the scheduler and its own job outside of the
  kernel lock. Whatever one CPU does to the thread of another takes an interrupt
  and an item of work, and several of them overlap.
* User code of one component is as concurrent as the kernel: what a thread drops,
  another one receives; what the proxy takes, the entrypoint polls; and the objects
  in queues live on the stacks of threads that may return.

### What makes the parts correct

* IPC: every client is in one queue, the server answers the client whose
  request it received, calls end, order is kept, whatever is scheduled can run.
* Signals: no submit lost or duplicated, no delivery before the previous one is
  acknowledged, no lost wakeup, kills end.
* Scheduler: quota limits and guarantees prioritized time, nobody ready starves
  who can get time, preemption happens when it must.
* Timer: a timeout triggers, not before its time. Inter-processor work: the
  thread that a CPU executes exists, whoever waits for other CPUs goes on and only
  after they have done their part. Capabilities: an ID is reused only when nobody
  holds it, and none is leaked. Suspend: power goes off when all CPUs have
  stopped, none works before all are back.
* Locks: mutual exclusion, no lost wakeup, no pointer to an applicant that is
  gone. Semaphores: units are handed out in the order of calls. Entrypoint:
  every signal is handled, deferred ones included, and no freed context is used.

The hazards in `PROJECT.json` name the lines where these can go wrong.

## 2. Modules and their correspondence to the code

| Module | Models | Checked by | Proofs |
|---|---|---|---|
| `ThreadIpc` | `ipc_node.{h,cc}`, the thread state machine of `thread.cc`, readiness of shares (`cpu.cc`, `cpu_context.h`) | `MCThreadIpc`: `ThreadIpc_chain`, `_pause`, `_remote`, `_restart` | `ThreadIpcProof` |
| `SignalReceiver` | `signal_receiver.{h,cc}` and the kernel calls on signals in `thread.cc` | `MCSignalReceiver`: `SignalReceiver`, `_safety`, `_kill`, `_dangling` | `SignalReceiverProof` |
| `CpuScheduler` | `cpu_scheduler.{h,cc}`, `double_list.h`, and who drives them | `MCCpuScheduler`: `CpuScheduler_safety`, `_fills`, `_starve`, `_stale` | `CpuProof` |
| `InterProcessor` | `cpu_mp.cc`, the three kinds of work in `thread.cc` and `spec/x86_64/kernel/thread.cc`, `main.cc` | `MCInterProcessor`: `InterProcessor_work`, `_three`, `_suspend`, `_tlb`, `_delete`, `_halt`, `_lost` | `InterProcessorProof` |
| `Capability` | `object.{h,cc}`, transfer in `thread.cc`, `lib/base/{capability,ipc,capability_slab}.cc` | `MCCapability`: `Capability`, `Capability_overflow` | `CapabilityProof` |
| `Timer` | `timer.{h,cc}`, `Cpu::schedule`, `spec/x86_64/pit.cc` | `MCTimer`: `Timer` | `CpuProof` |
| `Lock` | `base/src/lib/base/{lock,mutex}.cc`, `blockade.h`, stop, restart and the pager | part of `Semaphore` | `SemaphoreProof` |
| `Semaphore` | `base/include/base/semaphore.h`; extends `Lock` | `MCSemaphore`: `Semaphore`, `Semaphore_fault` | `SemaphoreProof` |
| `SemaphoreSpec` | nothing: what a semaphore promises | `Implements` of `Semaphore` | `SemaphoreProof` (`ImplementsSpec`) |
| `Entrypoint` | `base/src/lib/base/{entrypoint,signal_common}.cc`, `base-hw/src/lib/base/signal_receiver.cc`; contains an instance of `SignalReceiver` | `MCEntrypoint`: `Entrypoint`, `_live`, `_poll`, `_count`, `_late` | `EntrypointProof` |

How they fit together: `Entrypoint` composes the user-level signal library and
entrypoint with the kernel's signals, by `INSTANCE SignalReceiver` on shared
variables. `Semaphore` composes the semaphore with the locks in it, and refines
`SemaphoreSpec`. The other kernel modules are independent: each abstracts the
others to the calls it receives from them. `ThreadIpc` knows which shares are
ready and lets any scheduled thread act next; `CpuScheduler` lets shares become
ready and unready at will; `SignalReceiver` lets active threads act in any order;
`InterProcessor` knows the head of each CPU's scheduler and lets any ready job
be the next one; `Timer` takes time slices of any length; `Capability` keeps of
a call only who waits for whom.

`QueueTheorems` holds lemmas on sequences without duplicates, the queues and lists
of all modules, that several proof modules use: what is in such a sequence after
`RemoveAt`, `InsertAt`, `Append`, `Tail`, or a cut.

`CpuProof` is about both `CpuScheduler` and `Timer`, the two parts of a CPU's state,
and extends both; the names of `Timer` are chosen so that this is possible
(`TimerSpec`, `timerVars`, `Timeouts`).

An operator that is commented as a *mutant* is a plausible bug in the operator
that follows it. No specification uses it. It serves to show that a property
notices the bug.

The models have no switches that turn off paths of the code, except that `Calls` of
`InterProcessor` selects the system calls of an instance. Where the code breaks
a promise on some path, the path is in the model, a history variable records that it
was taken, and the property says what holds as long as it was not, or for whom it was
not. The promise without the exception is a property too, which TLC finds violated
(section 3). The history variables are

| Module | Variable | Records |
|---|---|---|
| `ThreadIpc` | `unmasked` | A call of a paused thread has ended, which makes the thread active and ready although it is paused (`thread.cc:231`). |
| | `halted` | Which assertion has failed: that of a pause across CPUs, that of a restart of a blocked or dead thread, or another one. |
| `SignalReceiver` | `forgotten` | The threads that wait for a kill and were removed from their context by the stale killer object of another thread. |
| `Lock` | `missed` | The threads that had faulted in front of `stop_thread` when they were restarted as the next owner. |
| `InterProcessor` | `orphaned` | The CPUs whose head another CPU has deleted since they left the kernel. |
| `CpuScheduler` | `regained` | The shares that got a quota in this round while they had kept a claim of an earlier one. |
| `Capability` | `wrapped` | A reference counter has wrapped around. |
| `Entrypoint` | `late` | The kernel has delivered a signal of a killed context. |
| | `reused` | A context was managed again whose pending flag is left from its dissolve. |
| | `polled` | `dispatch_pending_io_signal` has returned and left deferred signals. |

None of them guards an action, apart from `halted`: a machine whose kernel
has met a failed assertion makes no step any more.

### ThreadIpc

One thread is one kernel object slot, `NONE` while there is no object. A slot is
reused after a deletion. `inState`, `inQueue`, `outState`, `outNode` are the
members of `Ipc_node`; `ready` is the set of threads whose `Cpu_share::_ready`
is set; `halted` says which `assert` of the code has failed. `request` is a
history variable: the thread whose message the node received last and has not
answered. The code has no such member, it relies on the head of the queue, and
`ServesHead` says that it may.

`UsedShares(t)` is the set of shares the recursion over `for_each_helper`
visits, the least set that holds `t` and is closed under helpers. `Scheduled(t)`
says that `Cpu::scheduled_job()` may be `t`. One action is one kernel call or
exception with everything it does: `SendRequest` includes waking the
destination and blocking or lending the shares of the caller, `SendReply`
includes ending the call of the client and awaiting the next request,
`DeleteThread` includes withdrawing the own request and failing all queued ones.

Abstractions and assumptions:

* Message contents are left out, capabilities are in module `Capability`. Where memory for capabilities
  runs out, the code returns without a change (`AwaitRequest`, `SendRequest`) or
  skips the second half (`SendReply` without `await`).
* `Level`: a thread calls only threads of a lower level. Cyclic calls are a
  deadlock of the callers' own making; the kernel does not detect them and
  `scheduled_job()` would not return on a cycle of helpers.
* Core may pause, and a thread may restart, any thread in any state. A pause that
  has to deactivate shares of another CPU fails the assertion at `cpu.cc:36`, a
  restart of a thread that is neither active nor stopped the one at `thread.cc:404`;
  both are `Halt`. A thread that is paused while it awaits a reply becomes active and
  ready by the reply. Properties on shares are stated for states in which neither
  has happened (`Intact`), those on queues (`QueueInv`) for all states.
* Deleting a thread that another CPU executes is deferred by the code to an
  inter-processor interrupt (`Thread::Destroy`). Here it is one step; the gap in
  between is what `InterProcessor` is about.
* A send from a node that is not ready to send is a warning in the code and
  blocks its thread anyway; the action keeps this. `Ipc_node::cancel_waiting`
  of a thread that awaits IPC is not reached by any kernel call of a scheduled
  thread and has no action: `cancel_thread_blocking` is not in this version.

### SignalReceiver

`awaiting` and `killing` are the pointers in the handler and killer objects of a
thread, `receiver`, `submits`, `ack`, `killed` and `killer` the members of
contexts, `handlers` and `deliver` the queues of receivers. `owed` is a history
variable that counts accepted submits that no thread was handed. `Hand` is the
loop of `Signal_receiver::_listen`. `Submit` stands for all that submits: the
kernel call, a user interrupt, a timeout of a thread and a fault. A submit that
is refused changes nothing and is not a step.

`MaxSubmits` is `~0U`; the refusal is checked at a small value. The set of
receivers is fixed, core destroys a receiver after its contexts. Deleting a context
while a thread waits for its kill ends the wait and leaves the pointer in the killer
object. If a context is created in the same place and killed by another thread, the
deletion of the first one makes the context forget the second one (`forgotten`).

### CpuScheduler

One instance for one CPU. A share with a quota is a claim, every ready share is
also a fill. `Update(d)` is `Cpu_scheduler::update` after `d` ticks: trim what
was consumed, charge the claim or the time slice of the head, end the round, and
choose the next head. Nothing relates `d` to a clock, so late interrupts and the
truncation of the time to 32 bits are included; `d` beyond a whole round is
trimmed by the code and is not enumerated. `head()` on a scheduler without a
head calls `update(0)`, which is `Update(0)`. `Timeout` comes at any time:
besides the timeout of the head, those of threads share the interrupt.

`used`, `peak` and `steady` are history variables: prioritized time of the share
in this round, its highest quota in this round, and the shares that were ready
for the whole round so far. `QuotaSum` bounds what core distributes
(`_weight_to_quota` and `_update_each_thread_quota` in
`base/src/core/cpu_session_component.cc`, `QuotasFit` here). A share that loses its
quota keeps its claim. If it gets a quota again within the round, the claim is stale,
and the share is in `regained` up to the end of the round. `_ucl` is a set because
nothing depends on its order; the pointers of `Double_list` are abstracted to sequences.

### InterProcessor

One step is a kernel pass of one CPU, with the exception that started it, or a
step outside of the kernel: a job raises an exception, an interrupt arrives, the
firmware restarts the machine. `head` is the head of each CPU's scheduler and
`ran` the job whose `proceed` the CPU executed last; the code relies on both to
name the same job when the CPU comes back (`HandlesOwnException`). An interrupt
between CPUs is `pending` for the kernel, in the `line` of the local APIC, or in
service (`isr`): while it is in service a second one can be in line. `tlb`,
`destroy` and `left` are the counters and pointers of the three kinds of work;
`stale` is a history variable, the CPUs that have not flushed since the caller
asked for it, and `orphaned` another one, the CPUs whose head was deleted by another
CPU since they left the kernel. `fadt` says whether the boot information names the
ACPI table that suspending needs; without it the call fails (`FailSuspend`).

Abstractions: threads exist from the start; of IPC only helping is left (`call`
and `reply`, one client per server, on one CPU), because it makes `head` and
`scheduled_job()` differ. Whether a woken job preempts is left open except where
the scheduler has no choice (`MustSchedule`, `MaySchedule`). `Calls` selects the
system calls of an instance. `MaxSuspends` bounds the number of suspends. The
barriers of `main.cc` are two steps each, counting and leaving, as CPUs spin on
the flag outside of the lock. ACPI and firmware are external (`PowerCycle`).

### Capability

`k` holds what the kernel knows: per protection domain the references by ID,
how often each is in a UTCB, the free blocks of the slab, the threads with a
block reserved for a capability to come, and what is in a thread's UTCB.
`counter` is the reference counter that all threads of a domain share, `copies`
the capability objects that it should count. Between the kernel call that
receives a capability and its import a thread does nothing atomically: another
one may drop the last copy of the same capability in between, `delete_cap` must
then leave it alone, and the importer's acknowledgement decides.

Abstractions: one capability per message; core's own space holds one capability
per identity and is not counted; threads do not die. `RefMod` is the range of the
counter (256), which `wrapped` says it has exceeded; `MaxCopies` bounds the capability objects per ID and domain,
`MaxSlab` the growth of the slab; identities are created once each. A failed
allocation returns -2, and the same call is repeated after the upgrade
(`UpgradeSlab`), which is where blocks could be lost or doubled.

### Timer

Time is relative: `rest` is the end of a timeout minus the time the kernel
believes in, `real` what is left in real time. They differ on timers whose
counter stops at zero (`pit.cc`): while the interrupt is late, `rest` stands still.
`freeRunning` chooses timers that go on (Arm, RISC-V). `Decide` is the end of
`Cpu::schedule`: process timeouts, choose a slice, program the hardware; up to
one tick goes by in between. `us_to_ticks` truncates to whole milliseconds, and
durations count from there. A timeout that a running thread sets is programmed
by the next decision (`fresh`), which `NearestProgrammed` excludes and
`TimeoutsFire` does not. Bounds: `MaxSlice`, and `MaxLate`, the ticks after which a
late timeout gets no later; nothing distinguishes later ones. `Earlier` is where the
loops over the list stop, in `set_timeout` and in `process_timeouts`.

### Lock, Semaphore and SemaphoreSpec

All fields of a lock are accessed under its spinlock, so each critical section is
an action. What comes after the spinlock is released, the own stop or the loop in
`Applicant::wake_up`, is not: `phase` says where a thread is. An applicant is
named by the thread on whose stack it lives. `stopped` is the kernel's
`AWAITS_RESTART`, which a page fault enters too; `PagerWakeUp` restarts
whoever faulted, even if the thread has been restarted and stopped itself since.
A thread may fault anywhere, also after it is listed and before it stops.
`unlock` then restarts it out of the fault, takes that for the wakeup, and the
thread stops as the owner of the lock; such a thread is in `missed` until it leaves
`lock()`.

`Semaphore` adds the counter, the queue and the code between the locks. A mutex
protects counter and queue; the blockade of a waiting thread is the lock of the
same name. `MaxCnt` bounds how far `up` counts. `SemaphoreSpec` says what is
promised: available units, and threads that get them in the order of their calls.
The refinement maps the counter to `avail`, queued threads and the one that has
decremented the counter and not yet queued itself to `waiting` (it holds the mutex,
so there is at most one), and those past the decision who have not returned to
`granted`.

### Entrypoint

The kernel part is `SignalReceiver` with one receiver and two threads, the proxy and
the entrypoint. `pending`, `curr` and `ring` are the members of the user-level
contexts and receiver, `deferred`, `delivers` and `blockMutex` those of the
entrypoint, and `stack` is what the entrypoint executes: a signal handler, some
other RPC or a deferred signal, with waits for I/O signals nested in them. `sum`
is a history variable, the notifications that the kernel has handed out since
the context's last `Signal`.

Abstractions and assumptions:

* A handler is dissolved by the entrypoint's own thread, at any time, also with
  submits in the kernel and while others go on submitting. If its signal is being
  handled, the `Signal` on the stack holds `_destroy_mutex` and the call waits for
  itself for ever (`Destroy` is not enabled). Other mutexes of contexts are not held
  across a step.
* `Manage` is of a new context object or of the same one again, with the members
  that the dissolve left in it (`signal_receiver.cc:89` sets `_pending`).
* User code waits for I/O signals by `wait_and_dispatch_one_io_signal` or by
  `dispatch_pending_io_signal` (kind `"try"`), nested in each other or not.
* `MaxSubmits` is at least 2, so that a first submit is never refused: the code's
  limit is `~0U`. `Permanent` is finite: its contexts are in the ring from the start.
* `MaxNest` bounds nested waits. Numbers of notifications saturate at `MaxNum`.
  `pending_signal` leaves the number it returned in the context, where the next
  update adds to it (`LeftBehind`). With `MaxNum = 1` the sum is 1 either way, so
  the number is dropped there, which keeps the state space small and loses nothing.
* RPC objects other than the proxy's are one action (`EpOtherRpc`): the
  application's code runs in the entrypoint.

## 3. Runs

| Run | Instance | Shows |
|---|---|---|
| `ipc_chain` | 3 threads in a chain of levels, 2 CPUs, fair; 102,223 states | All properties of `ThreadIpc`. Three threads give a client, a server that is itself a client, and a server; helping through two hops, or across CPUs without helping; slots are reused; threads of both CPUs are paused and restarted in every state. |
| `signals` | 2 threads, 2 contexts, 1 receiver, counter limit 3, batches of 1 and 2, fair; 28,757 states | All properties of `SignalReceiver`: the counter at its limit and beyond, killers left behind by deleted contexts. Two contexts that compete for one receiver are enough for one to overtake the other forever, if it could. |
| `sched_safety` | 2 shares, 2 priorities, rounds of 3 ticks, slices of 1, quotas 0 to 2; symmetric; 1,487,822 states | Safety of the scheduler. Quotas reach the whole round, so a round ends together with a claim, with a time slice, and in the middle of either; they are revoked and given again at any time. |
| `sched_fills` | 2 shares, 1 priority, rounds of 3 ticks, quotas of 0 or 1 each, fair; 62,836 states | `ReadySharesRun`: with one claim there is room for fills and every ready share runs, with two claims there is not and nothing is promised. |
| `smp_work` | 2 CPUs, 2 core threads, 2 user threads, fair; 306,987 states | `RunningExists`, `HandlesOwnException`, `WorkAnnounced`, `WorkEnds`: deletions and TLB invalidations by two threads of core, while the others call, help, run, stop and are woken. |
| `smp_suspend` | 3 CPUs, one of them idle, a client that helps its server, 2 suspends, with and without FADT, fair; 4,594 states | `StoppedBeforeSuspend`, `BarrierHolds`, `ResumeEnds`. The second suspend shows that the first one left nothing behind. |
| `smp_tlb` | 2 CPUs, one core thread, 3 user threads | *Violation* of `InvalidatedEverywhere`. |
| `smp_delete` | 2 CPUs, one core thread, 3 user threads that call each other | *Violation* of `ExecutedExists`. |
| `capability` | 2 clients in one domain, a server in another, core; 2 identities, 2 IDs; symmetric; 962,507 states | Capabilities sent by core, by clients and in replies, dropped by one client while the other receives them, destroyed by core while they travel, with every allocation failing at some time. The counter does not reach 256 here; with `RefMod = 4` it wraps, and the same properties hold (3,258,761 states). |
| `timer` | 2 threads and the time slice, durations of 0, 2 and 4 ticks, slices up to 3, fair; 14,692 states | `TimerConsistent`, `NeverEarly`, `TimeoutsFire` on both kinds of timers. A duration of zero is due at once, equal ends occur, and 4 is more than the longest slice. |
| `semaphore` | 2 threads that call `down`, 1 that calls `up`, fair; 55,806 states | The properties of the locks, `Implements` and `CallsReturn`. Three threads contend for the mutex, two wait at the semaphore, all fault anywhere. |
| `entrypoint` | 1 I/O handler that stays, 1 application handler that comes and goes, 1 nested wait or poll; 1,222,879 states | `TypeOK`, `ContextsAlive`, `NoSignalLost`, `IdleOnlyIfDone`. |

Six invariants are conjunctions of named parts, of which each has a comment of its
own: `IInv`, `QueuesConsistent`, `ListsConsistent`, `LocksConsistent`,
`SpacesConsistent` and `TimerConsistent`. The proofs of section 4 state them as
theorems. They hold the greater part of the inductive invariants; what is missing is
defined in the proof modules.

The safety run of the scheduler was repeated with slices of 2 ticks, with rounds
of 4 ticks and with three shares in one priority band, with the same result.

Bounds: the sets of threads, CPUs, contexts, receivers, shares, identities and IDs
are fixed and small. Bounded by the code itself: `MaxSubmits`, `Quota`, `RefMod`,
`UintMax`. Bounded by the model: `MaxCnt` (`up` is not called above it), `MaxNest`,
`MaxSuspends`, `MaxCopies`, `MaxSlab`, `MaxSlice`. `MaxNum` and `MaxLate` saturate
and cut off no step. Every state space is finite and explored completely.
Deadlock is checked in all runs but `semaphore` and `entrypoint`: all threads may wait
for one that missed its wakeup, and an entrypoint may wait for ever for its own
`_destroy_mutex`.

### Fairness

* `ThreadIpc`: strong fairness of `SendReply(t, TRUE)` per thread - a thread that
  is scheduled again and again comes back to its dispatch loop, which replies and
  awaits (`base/src/lib/base/rpc_dispatch_loop.cc`). That each scheduled thread
  does run is the scheduler's promise (`ReadySharesRun`); strong rather than weak,
  as a pause or a fault may interrupt it. Weak fairness of restarting stopped
  threads (by the lock holder or the pager). Nothing
  is assumed about who dies, stays paused, is never started or is deleted: `CallsEnd`
  excludes calls that depend on a thread which is dead or paused.
* `SignalReceiver`: handlers come back for signals and acknowledge what they have
  got, as the loop in `block_for_signal` and the destructor of `Signal` do. Not
  assumed: anything about the order of triggers.
* `CpuScheduler`: the timer interrupts, the kernel schedules, and time passes
  between decisions (`d >= 1` infinitely often). `ReadySharesRun` is stated for
  behaviours in which shares are finally neither created nor deleted and quotas
  are settled and leave room for fills, that is, a round is longer than all claims
  together with one time slice for each (`RoomForFills`); shares may block, wake up
  and yield forever. Core may also assign whole rounds, and then the promise is broken
  (`CpuScheduler_starve`).
* `InterProcessor`: a CPU that waits for the kernel lock gets it (it is taken and
  released in every pass), CPUs start up, and an interrupt in line is accepted by a
  CPU that comes back to its job again and again. No job is assumed to make a call.
  `WorkEnds` is stated for behaviours in which no CPU loses its head: such a CPU
  handles the exception of another job and may leave an interrupt unfinished.
* `Timer`: time goes on and its interrupt is taken. No other decision is assumed.
* `Semaphore`: a thread inside a call is scheduled again and again (strong, since
  it may fault any number of times), the pager answers, and `up` is called again
  and again, without which `down` need not return.
* `Entrypoint`, in `Entrypoint_live` only: threads are scheduled, mutexes and
  requests are served in order (as `Semaphore` and `ThreadIpc` show), user code
  returns, and I/O happens while the application looks for it (`LooksForIo`), not
  otherwise. The trigger of the application's own signals is not fair.

### What the violations show

`smp_tlb`: an item of work for TLB invalidation counts the interrupts that execute
it, not the CPUs. Every CPU that takes an interrupt between processors executes
the global list, for whatever reason the interrupt was sent. In the trace, the
caller was woken by an earlier invalidation through an interrupt to its own CPU,
which has not taken it yet when the caller invalidates again; it does then,
decrements the counter on behalf of the other CPU, and restarts the caller while
the other CPU still has the old translations.

`smp_delete`: `_call_delete_thread` compares the thread with `scheduled_job()` of
its CPU, to find out whether that CPU executes it. While a client helps, this is the
server: the client is deleted at once although it is the head of the other CPU's
scheduler. From then on `scheduled_job()` of that CPU is not the server any more,
whose deletion is not deferred either, and the CPU goes on executing a thread that is
destructed. `RunningExists` and `HandlesOwnException` say that CPUs which
have not lost their head in this way are not affected.

### Further configurations

These configurations state a promise of the documentation, or the strong form of a
property, that the code does not keep; each has a counterexample. They mark the
limits of what the passing runs and the proofs establish, and show that each of the
exceptions in section 2 is needed.

| Configuration (module) | Property | What TLC finds |
|---|---|---|
| `ThreadIpc_pause` (`MCThreadIpc`) | `PausedNotScheduled` | A thread paused while it awaits a reply is made active and scheduled by the reply, although the documentation of `pause_thread` says that pausing masks the thread state until it is resumed. |
| `ThreadIpc_remote` (`MCThreadIpc`) | `PauseTargetsAny` | Pausing an active thread of another CPU trips the assertion in `_deactivate_own_share` (`cpu.cc:36`), although the call "may target any thread". |
| `ThreadIpc_restart` (`MCThreadIpc`) | `NoAssertionFails` | Restarting a thread that is not started, blocked in a call or dead trips the assertion in `Thread::_restart` (`thread.cc:404`). |
| `SignalReceiver_kill` (`MCSignalReceiver`) | `KilledNotDelivered` | A context with pending submits stays queued after its kill succeeded and is delivered later. The kernel's documentation says that the kill halts the processing of the context. |
| `Entrypoint_late` (`MCEntrypoint`) | `NoDeadContext` | What this means above: the library works on a context that was dissolved and freed. |
| `SignalReceiver_dangling` (`MCSignalReceiver`) | `KillerCancelled` | Deleting a context that is being killed leaves a stale pointer in the killer object. When its thread is destroyed later, the wait of another thread for another context in the same place is forgotten. |
| `CpuScheduler_starve` (`MCCpuScheduler`) | `FillsTakeTurns` | A claim that is used up becomes the first fill, in every round. If quotas leave one time slice or less per claim, other shares never run. The release notes describe fills as round robin. |
| `CpuScheduler_stale` (`MCCpuScheduler`) | `QuotaLimitsTime` | A share that loses its quota and gets one again brings along the claim from before, which may be used already or be larger than the new quota. |
| `InterProcessor_halt` (`MCInterProcessor`) | `HaltsForSuspend` | After a resume and before the suspend call returns, the item that stops CPUs is still listed. An interrupt for another reason halts a CPU again. |
| `InterProcessor_lost` (`MCInterProcessor`) | `WorkAnnounced` | A second thread of core deletes a thread whose CPU has halted for a suspend. The item of work stays in that CPU's list, the interrupt that announces it is lost when the power goes off, and `Ipi::init` resets `pending`: the caller waits until some other interrupt happens to be sent to that CPU. |
| `Capability_overflow` (`MCCapability`) | `HeldHasReference` | With 256 copies of a capability the counter of 8 bits wraps, and the next destructor deletes a capability that is in use. `Reference_count_overflow` is declared (`native_capability.h:28`) and never thrown. |
| `Semaphore_fault` (`MCSemaphore`) | `NoWakeupLost` | A thread faults after it is listed as an applicant and before it stops. `unlock` restarts it out of the fault and takes that for the wakeup; the thread then stops and nobody wakes it. |
| `Entrypoint_poll` (`MCEntrypoint`) | `NothingDeferred` | `dispatch_pending_io_signal` defers application signals and returns before it initiates their handling (`entrypoint.cc:173`), so they wait for the next signal. |
| `Entrypoint_count` (`MCEntrypoint`) | `NoNotificationLost` | Numbers of notifications are overwritten when the entrypoint polls while the proxy stores, although `signal.h:57` promises their total. |

`SignalsReturned` of `Entrypoint`, which is `NoSignalLost` without its exceptions, fails
also when a context object is managed again after its dissolve: `_pending` is still
set, so that `block_for_signal` takes the next signal for one that is recorded already
and drops it.

Three more configurations pass. They are larger instances, or slower ones, of questions
that the runs ask:

| Configuration (module) | Checks | Instance |
|---|---|---|
| `SignalReceiver_safety` (`MCSignalReceiver`) | `QueuesConsistent`, `NoAssertionFails`, `NoSubmitLost` | 3 threads, 2 contexts, 2 receivers; 146,189 states |
| `InterProcessor_three` (`MCInterProcessor`) | the properties of `smp_work` | 3 CPUs, a core thread, 2 user threads that also reply; 182,969 states |
| `Entrypoint_live` (`MCEntrypoint`) | `SignalsHandled` | both contexts stay, fair; 85,988 states |

## 4. Proofs

Every module with a specification is proved about. The theorems hold for any sets
of threads, CPUs, contexts, shares and so on (finite where the module says so), and
for any values of the bounds. In each proof module, an inductive invariant is shown to
hold initially and to be kept by each action, with one lemma per action, and the
theorems follow from it. All invariants of the passing runs, the action properties and
the refinement are theorems.

| Module | Theorem | States | Assumes |
|---|---|---|---|
| `ThreadIpcProof` | `Invariance`, `Safety` | `IInv`; `ScheduledRunnable` and its other parts | - |
| | `CallsEndProperly` | `CallEndsByReplyOrDeletion` | - |
| | `ClientsKeepOrder` | `NoOvertaking` | - |
| `SignalReceiverProof` | `QueuesStayConsistent`, `AssertionsHold`, `SubmitsKept` | `QueuesConsistent`, `NoAssertionFails`, `NoSubmitLost` | - |
| | `KillWaitsAnswered` | `KillWaitEnds` | - |
| `SemaphoreProof` | `LocksStayConsistent`, `MutexExcludes`, `ElementsStayAlive` | `LocksConsistent`, `MutualExclusion`, `ElementAlive` | - |
| | `ImplementsSpec` | `Implements`: the refinement of `SemaphoreSpec` | - |
| `InterProcessorProof` | `StopsBeforeSuspend`, `BarriersHold` | `StoppedBeforeSuspend`, `BarrierHolds` | - |
| | `TypeCorrect`, `WorkIsAnnounced` | `TypeOK`, `WorkAnnounced` | no suspend |
| | `RunningThreadsExist`, `OwnExceptionHandled` | `RunningExists`, `HandlesOwnException` | no suspend |
| `CpuProof` | `ListsInvariance` | `TypeOK`, `ListsMatch`, `SlicePositive` | - |
| | `ListsStayConsistent`, `HeadStaysBest`, `QuotasLimit` | `ListsConsistent`, `HeadIsBest`, `QuotaLimitsClaims` | - |
| | `QuotasGuaranteed` | `QuotaGuaranteed` | `QuotaSum <= Quota` |
| | `TimerStaysConsistent`, `TimeoutsNotEarly` | `TimerConsistent`, `NeverEarly` | - |
| `CapabilityProof` | `Invariance` and `SpacesStayConsistent` | `wrapped \/ CapInv`, `wrapped \/ SpacesConsistent` | - |
| | `HeldStaysReferenced`, `UnusedGetsDeleted` | `HeldIsReferenced`, `UnusedIsDeleted` | - |
| `EntrypointProof` | `Invariance` and `TypeCorrect` | `late \/ IInv`, `late \/ TypeOK` | - |
| | `ContextsStayAlive`, `SignalsKept`, `IdleWhenDone` | `ContextsAlive`, `NoSignalLost`, `IdleOnlyIfDone` | - |

All theorems use the assumptions that the modules state on their constants, and of the
others there are two. `QuotaSum <= Quota` says that core assigns at most a whole
round, without which not all quotas can be guaranteed. "No suspend" is needed for
`WorkAnnounced` (`InterProcessor_lost`). For the other three it keeps the invariant
simple: after a resume, a CPU enters the kernel without having executed a job before,
so that `ran` says nothing. The suspend theorems, for their part, hold for all calls.

No theorem assumes that one of the paths of section 2 is not taken. The exceptions are
in the properties, by the history variables, and the invariants have to establish that
nothing else goes wrong on these paths and that the damage stays where the property
says.

### ThreadIpc

`IInv` has two layers. `QueueInv` holds whatever happens: helpers are exactly the queued
senders (`QueuesMatchSenders`), what a reply completes is what was received
(`ServesHead`), and chains of calls descend (`CallsDescend`), so that no thread helps
itself. It is all that `CallsEndProperly` and `ClientsKeepOrder` need, so pauses and
restarts cannot disturb them. `ShareInv` holds as long as no assertion has failed
and no call of a paused thread has ended (`Intact`): shares are ready exactly where a
thread that can run uses them (`SharesFollowHelping`), and a waiting server has nobody
queued (`BlockedForOneReason`). That no other assertion is the first to fail
(`OtherAssertionsHold`) follows from it, since all used shares of a thread are
ready or none is. `UsedShares` is a least fixed point; its lemmas prove by membership in
a closed set what an induction over the tree would show: all used shares agree in
readiness and CPU (`UsedSharesAlike`), and how the set changes when one helper
enters or leaves a queue.

### SignalReceiver

`IInv` is the conjunction of three invariants of the run `signals`. A receiver
has deliverable contexts or waiting handlers and never both, which is why `_listen` may serve one
handler at a time. For submits to be counted exactly, contexts must be fresh when
created and must not be listed at two receivers; for deletions, that a context that
is killed knows its killer (`KillersMatch`). That the killer in turn waits for this
very context (`KillingMatches`) is true of all waiting threads but those in
`forgotten`, and is what `KillWaitEnds` needs.

### Lock and Semaphore

The applicants of a lock are a list through pointers. The invariant says that there
is a sequence of threads without duplicates which starts behind the owner, follows
the pointers, ends at the last applicant and holds exactly the waiting threads
(`ListsExist`). Threads that were handed the lock and have not noticed yet are
owners (`OwnersAwake`): somebody is about to wake them (`WakersMatch`), or did so when
they had faulted in front of `stop_thread` (`MissedMatch`). Lists, exclusion and
refinement do not depend on which of the two it is. On top of it: only the owner of the mutex is inside
(`CallsMatch`), queued elements are unique, belong to threads in `down()` and have a
closed blockade, and a negative counter is the number of queued threads. The
refinement then has one step per action: the decrement or the increment of the
counter and the return from `down()` are steps of `SemaphoreSpec`, and all others
stutter, for which a thread that has counted and not queued itself yet must be the
only one (`Waiters`).

### InterProcessor

Three invariants. `SInv`, for boot and suspend, counts CPUs: the counters of the
barriers are the numbers of CPUs that have passed them, and the counter of the item
that stops CPUs is the number of those that have not halted. After the resume the
item is still listed and its counter zero: whoever executes it again halts and makes
it wrap (`InterProcessor_halt`), but then it is too large to reach zero a second time
(`Wrapped`), and the power stays on. `WInv`, for work, relates items to
interrupts. `HeadsInv` relates the head of each scheduler to the job that the CPU
executes, which is the head itself or the thread that it helps. It holds for all CPUs
that are not in `orphaned`. A deletion of what such a CPU executes is deferred, since
`scheduled_job()` is right as long as the head is, and the head stays in place until
the CPU itself has executed the item. What may go wrong on another CPU does not
spread: a CPU leaves `orphaned` with its next pass, which chooses a head.

### CpuScheduler

`LInv` says that lists and states match. For the others, `CInv` adds that depleted
claims are behind those with time left (`OrderInv`), that a head which runs as a claim
has one left, and that what it has used plus what it may use is within the peak of its
quota (`ClaimInv`), each apart from shares in `regained`, whose number and place in the
lists may be anything. `HeadIsBest` is proved
with `ChooseHead` as the first claim of the first priority, where
`Ordered` makes the first claim of a list stand for all.

`QuotaGuaranteed` is about the sum of all claims and not inductive: while the head
runs, its time is not yet subtracted from the round. `GInv` says that the claims of the
*others* and the whole time of the head fit into the rest of the round
(`OthersFit`), as long as a share that was ready all the time has a claim; that the
head's time covers its claim (`HeadClaimGranted`); and that the quotas add up to
what core assigned (`QuotasAssigned`). A decision either starts a round, with claims
that are the quotas, or takes the same amount from the round and, at least, from
what head and others need. A share that is removed or loses its quota makes the sum
smaller; one that gets a quota has nothing to claim before the next round, unless it
has kept a claim, and then no share counts as steady in this round (`SteadyRound`).
`SumFunctionOnSet` is a fold of
the community modules along an order that `CHOOSE` picks. That a sum does not depend on this
order, and grows with its terms, takes an induction over finite sets
(`PartInduction`). It is stated with a set in place of a predicate, and rests on the
least number that would be missing from this set, so the provers need no induction
rule.

### Capability

`CapInv` says what each number counts, by equations on cardinalities of sets of
threads: `_in_utcbs` the UTCBs with an ID that was received and not yet imported or
acknowledged (`UtcbsCounted`), `ref_counter` the capability objects, those in messages
and those of imports under way included (`ObjectsCounted`), the size of the slab the
references, the reserved blocks and the free ones (`SlabCounted`). `RefsUsed` is why no
reference is left over: every one has an object, is in a message or in a UTCB, or a
thread is about to delete it.
All of this is exact until a counter wraps around (`UntilWrapped`). `NoWrap` says of
an increment that does not wrap that it adds one, and `wrapped` becomes true in the
same step as the other kind. The bound on counters is not in `TypeOK`: an earlier one
was true with the two clients of the run and false with four.

### Timer

`TimerInv` adds that the list is sorted and that the time of the timer never runs ahead
of real time (`real[o] <= rest[o]`), from which `NeverEarly` follows: what
`process_timeouts` takes has `rest <= 0`. The loops over the list end somewhere by
the well-foundedness of the natural numbers (`EarlierExists`), and inserting into a
sorted list at this place keeps it sorted (`InsertedSorted`).

### Entrypoint

`IInv` relates three layers. In the kernel, a context is queued exactly if it is
acknowledged and has submits (`KernelInv`), at most one of the two threads waits at
the receiver, and only while nothing can be delivered (`HandlerInv`): the mutex around
`block_for_signal` excludes the other (`MutexInv`). The contexts that are
not acknowledged are exactly those in the hands of a thread (`HoldInv`), which is why
`dissolve` may free a context after the kernel has answered its kill (`VictimInv`,
`AliveInv`). In the library, a notification that was handed out and not returned is
pending or about to be (`SignalInv`), unless contexts were managed again while they
looked pending (`reused`). All of this holds until the kernel delivers a signal of a
killed context (`late`); that a dissolve, submits during it and the wait for
`_destroy_mutex` do no harm before is part of the proof. `PendingInv` counts: at most
two contexts are pending, and for each of them there is a search for a pending signal under way, that
of the entrypoint on behalf of the proxy or that of a nested wait for I/O. It says
that a search never comes back empty-handed while a signal stays behind. This is not
obvious, since either thread may find the signal that was meant for the other, and
the flag `_signal_proxy_delivers_signal` tells the proxy in only one of the two
orders.

`IdleOnlyIfDone` needs `DeferredInv` besides: as long as signals are
deferred, there is a wait that will end by initiating their handling, the proxy comes
with a signal, or the handler of deferred signals has a submit in the kernel. With
`dispatch_pending_io_signal` none of them may be left, which is the fourth case,
`polled`.

### Only model-checked

* Liveness (`CallsEnd`, `SubmitsDelivered`, `KillsEnd`, `ReadySharesRun`, `WorkEnds`,
  `ResumeEnds`, `CallsReturn`, `TimeoutsFire`, and `SignalsHandled` in
  `Entrypoint_live`): TLAPS handles neither fairness nor `ENABLED`.

The same provers cannot instantiate the induction theorems of the library. Where a
proof needs induction, it uses well-foundedness of the natural numbers for a set
(`HighestPrio`, `EarlierExists`, `PartInduction`) or membership in a closed set
(`UsedShares`).

## 5. Not modelled

* Board support, page tables, drivers and assembly code: hardware access and
  data layout. Virtual machines: CPU jobs like threads, with a context switch
  that is hardware specific.
* The kernel lock itself: that passes exclude each other is the atomicity of all
  modules.
* Of the modelled parts: deletion of a thread with a listed timeout, death of a
  thread with capabilities in its UTCB, several capabilities per message, quota
  upgrades of signal contexts, destruction of receivers, semaphores and
  entrypoints, and suspend of an entrypoint.
* Core's services, sessions and quotas, object pools, allocators and parsers of
  the base library: sequential data structures and protocols of their own. Servers,
  drivers, applications and ports above, which make up nearly all lines of the
  repository: hundreds of independent programs, most of them third-party code. They
  use the mechanisms modelled here and share no state beyond them. Other kernels'
  code is not in the repository.
* Contents of messages, log output.

## 6. Plan

Done: the modules of section 2, and the proofs of section 4 about all of them.

Open: `RunningExists` and `HandlesOwnException` of `InterProcessor` with suspend, which
first need a formulation for CPUs that have just resumed.

Worth modelling next: the object pool and the life time of RPC objects
(`base/object_pool.h`, `weak_ptr.h`, with the hazard at `ipc.cc:152`), packet streams
(`os/packet_stream.h`), and a remote procedure call as an abstract specification
of *idle - called - received - answered or failed* that `ThreadIpc` implements.

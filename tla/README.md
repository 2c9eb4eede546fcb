# A TLA+ model of vsched

vsched is a task scheduler that lives in a vDSO: a shared object, mapped into the kernel and
into user processes, in which threads and coroutines are scheduled by the same code. This
directory holds TLA+ modules that model it, TLC configurations that check them, and proofs
checked by TLAPS. `src/` below is the root of the repository.

## 1. Inventory

| Component | Sources | State it keeps | Operations | Status |
|---|---|---|---|---|
| vDSO scheduler core | `vsched/src/sched.rs`, `api.rs` | one `PerCPU` per CPU | `spawn`/`add_task`, `yield_current`, `unblock_task`, `resched`, `resched_f`, `switch_to`, `take_prev_task_and_clear_on_cpu`; `preempt_current`, `task_tick`, `set_priority`; `migrate_entry` | partly: all but `migrate_entry`, which nothing calls |
| Ready queue, `PerCPU` | `scheduler/src/fifo.rs`, `percpu.rs` | `current_task`, `prev_task`, `idle_task`, the FIFO of capacity `RQ_CAP` | `add_task`, `put_prev_task`, `pick_next_task` | modelled |
| Task | `base_task/src/task.rs` | `state`, `on_cpu`, `in_wait_queue`, `need_resched`, `kstack`, context | loads, stores, `transition_state` | partly: no `preempt`, no `irq` feature |
| Thread and coroutine operations | `task_management/src/sched.rs`, `task.rs`, `task_api.rs` | the coroutine stack pool of each CPU | `init_vsched`, `spawn`, `yield_now(_f)`, `exit(_f)`, `blocked_resched`, the three futures, `coroutine_schedule`, `run_idle` | modelled |
| WaitQueue | `task_management/src/wait_queue.rs` | a deque of tasks under a spin lock | `wait(_f)`, `wait_until(_f)`, `notify_one`, `notify_all`, `notify_task`, `requeue`, `cancel_events` | modelled |
| WakerQueue, `TaskWaker` | `task_management/src/waker_queue.rs`, `task.rs` | a deque of wakers under a spin lock | `wait_f`, `wait_until_f`, `notify_one`, `notify_all`, `requeue`, `wake` | partly: no Arc counts of wakers |
| Join, exit codes | `task_management/src/task_inner_ext.rs` | `exit_code`, `wait_for_exit`, the Arc count of a task | `notify_exit`, `join(_f)` | modelled |
| Round-robin scheduler | `scheduler/src/round_robin.rs` | deque, time slices | as FIFO, `task_tick` | modelled |
| CFS scheduler | `scheduler/src/cfs.rs` | map of virtual run times, `min_vruntime`, `id_pool` | as FIFO, `task_tick`, `set_priority` | modelled |
| Lock-free deque | `utils/src/deque.rs` | a ring of slots with state words, `head`, `tail` | push and pop at both ends; `len`, `is_empty` read only | modelled |
| Lock-free map | `utils/src/btreemap.rs` | an array of slots with state and version, `len`, `global_version` | `insert`, `pop_first`, `first_key_value`, `clear`; `len`, `exact_len`, `for_each` read only | modelled |
| vDSO loading, configuration, tests | `vsched_apis`, `config`, `user_test` | - | - | not modelled: generated code, constants and examples |

How they interact. A CPU runs the code of its `current_task`. That code calls
`task_management`, which changes the state of the task, puts it into a queue of its own, and
calls the vDSO to reschedule; the vDSO picks the next task from the ready queue of this CPU
and either switches stacks (`switch_to`) or, for a coroutine, replaces `current_task` and lets
`coroutine_schedule` poll the next coroutine or switch. CPUs share tasks, wait queues
and nothing else: each ready queue is used only by its own CPU, and a task changes CPU when
a CPU other than the one it blocked on wakes it. (The vDSO's interface also lets a CPU spawn into
or wake into another CPU's queue; the models of the queues below FIFO's level allow it.) FIFO, round robin and CFS
are alternatives, chosen by a feature: round robin keeps its ready queue in the lock-free deque, CFS in the
lock-free map.

What is hard. Between the moment a task says it is Blocked and the moment its CPU has saved
its context, another CPU may wake it: `on_cpu` exists for this window. Wakers, notifiers,
joiners and exiting tasks interleave freely. `prev_task` tells the next task which one it has
replaced, through memory of the CPU that is only replaced by a switch. Ready queues are
bounded. The deque and the map work without locks: every access to an index, a slot or the counter
is a step others may come before or after, indices and slots are reused, and callers spin on slots others hold. There is no crash recovery, no message loss and no time-out in this code (the timer
paths are behind features whose code is not present).

What makes a component correct: a task runs on one CPU at a time and is in one place at a
time; assertions of the code hold; nobody who should be woken is forgotten; what has exited
stays so; stacks are neither shared nor piled up; locks and spins end. A queue neither loses nor
doubles what is put in, and says empty or full only when it is; a preemptive scheduler starves nobody and
reschedules when someone with a better claim waits.

## 2. Modules

* **`TaskLifecycle.tla`**: what a user of the scheduler may rely on. A task is New, Ready,
  Running, Blocked or Exited; a CPU runs one task or none. No queues, no stacks.
* **`VSched.tla`**: the scheduler and the operations on it, for any number of CPUs. The
  variables are the fields of the tasks (`TaskInner`, `TaskInnerExt`), of the CPUs (`PerCPU`
  and the stack pool) and of the queues; `pc` is where a CPU is.
* **`MCVSched.tla`**: gives `idle_task` its value on two CPUs, and defines the symmetry and the view of the run `mixed_2cpu`.
* **`VSched_proofs.tla`**: the inductive invariant and what follows from it.
* **`VSched_handover.tla`**: a second invariant on top of it: how CPUs hand over tasks, stacks and locks, and that
  no waiter and no Ready task is lost.
* **`VSched_refinement.tla`**: VSched implements TaskLifecycle.
* **`Deque.tla`**: what a shared double-ended queue promises: a successful call takes effect at one instant.
* **`LockFreeDeque.tla`**: `utils/src/deque.rs`, one action per atomic step, for any number of callers;
  `ImplementsDeque` refines `Deque`. **`MCDeque.tla`** gives callers their operations.
  **`LockFreeDeque_proofs.tla`**: its invariants; **`LockFreeDeque_refinement.tla`**: it implements `Deque`.
* **`EntryMap.tla`**: what a shared map promises: the effect of an insertion or a removal comes at one instant, and a
  removal takes the entry that was seen.
* **`LockFreeBTreeMap.tla`**: `utils/src/btreemap.rs`, likewise step by step; `ImplementsMap` refines `EntryMap`.
  **`MCBTreeMap.tla`** its callers; **`LockFreeBTreeMap_proofs.tla`**: its slots, entries, counter and scans, and that it
  implements `EntryMap`.
* **`RRScheduler.tla`**: the round-robin scheduler of one CPU over an atomic queue, with the calls of
  `vsched/src/sched.rs` that drive it. **`RRScheduler_proofs.tla`**: proofs about it.
* **`CFScheduler.tla`**: the CFS scheduler of one CPU over an atomic map, with several CPUs that spawn and wake into it.
  **`CFScheduler_proofs.tla`**: proofs about it.

Each model ends with its type invariant and the properties. The inductive invariants come first in the proof modules;
those of `VSched` and `RRScheduler` (`IInv`) say something a run should check as well and stand in the models.

### How VSched corresponds to the code

A step of the model ends where another CPU can observe or change shared state; code that
touches only this CPU, or is under the lock of a queue, is one step. The labels of `pc`:

| label | where the code is | actions |
|---|---|---|
| `run` | outside the library, or about to call it | `Spawn`, `Yield`, `Wait`, `WaitUntil`, `Join`, `WakerWait`, `StartNotify`, `NotifyTask`, `Requeue`, `Exit` |
| `cond` | `wait_until`, before the condition is read | `CondThread` (under the lock), `CondCoroutine` (without) |
| `block` | `wait_until_f`, before the poll of `BlockedReschedFuture` or `WakerBlockFuture` | `Block` |
| `requeue` | `requeue`, between the section under the lock of the source and the one under the lock of the target | `FinishRequeue` |
| `pended` | a poll of `WakerBlockFuture` has returned Pending | `Pended` |
| `cancel` | before `cancel_events` | `Cancel` |
| `store` | in `exit`, before `notify_exit` | `StoreExitCode` |
| `notify` | a turn of `notify_one` or of the loop of `notify_all` | `NotifyEmpty`, `NotifyWake`, `NotifyLost` |
| `spin` | `put_task_with_state` waits for `on_cpu` | `Spin` |
| `resched` | the task has given up the CPU, the next one is not picked | `PickSelf`, `PickOther`, `PickWild` |
| `switch` | `current_task` is replaced, the context is not yet | `Switch` |
| `resume` | a resume point, before `take_prev_task_and_clear_on_cpu` | `Resume` |
| `reap` | the same resume point, before the state of the previous task is read | `Reap` |

`frame[t]` is the call task t is in, with its arguments: it stands for the stack of a thread
or the state of a coroutine's future, and tells where t goes on (`Continue`).

Decisions a reader should know of:

* `wait_for_exit`, which every task has, is a queue named by the task itself.
* The condition a user passes to `wait_until` may be true or false at any time (`CondMay`); the condition of
  `join` is the state of the task. A wait on a condition therefore returns at any turn or never, and only joins have
  a claim to be woken.
* `requeue` drains the source into a `Vec` and, in a second locked section, appends it to the target. The `Vec`s are
  places like queues, one for tasks and one for wakers per CPU (`Hands`), so that a waiter in transit is in one place too.
  Source and target may be the same queue. A `notify_all` of either queue that comes between the two sections misses the
  tasks in transit; they are in the target afterwards, where a later notify finds them.
* `notify_task` takes `&mut self`. Safe code can make that call only while no other call borrows the queue, so
  nobody waits on the queue through its own `wait`; what `notify_task` can find has been requeued into it (`Unborrowed`). A
  requeue's borrow of its source ends, in the model, with its first section: the second does not touch the
  source. The position is searched by identity, which
  is any position, since the caller may name any task. From the wake-up on the call is a `notify_one`.
* Threads and coroutines make the same calls. They differ where the code does: the check of
  `wait_until`, the return of a yield to oneself (a coroutine passes no resume point), stacks.
* `take_prev_task_and_clear_on_cpu` replaces `prev_task` by an uninitialized value. In the
  release build that the Makefile makes (`src/Makefile:3`) this store has no effect, so that a second
  take without a switch in between reads the same task again. The model does that; any other
  outcome of such a read would be worse.
* A task that yields is in the ready queue of its own CPU before its context is saved. That is
  sound while only this CPU takes from the queue. When the flag `on_cpu` has been cleared too
  early (see `ReadyQueueOffCpu`) a task may be picked while another CPU still executes it:
  two CPUs would use one stack. `PickWild` stops the model there (`mode = "wild"`); all
  properties hold in all states up to there and no claim is made about what follows.
* `Main` exits by `main_task_exit`, which does not return: `mode = "exited"`.
* The idle task of the primary CPU is `run_idle`; on a secondary CPU it is the boot flow, which
  may spawn before it calls `run_idle`. The model lets idle tasks only yield and (secondary) spawn.
* The exit code is 0 (not stored) or 1 (stored). The count of dropped Arcs saturates at
  `MaxReleases` = 2: one drop too many is an error already.
* The CPU mask and the priorities are never read by the FIFO configuration and are left out.
  `need_resched` is written but, without the `preempt` feature, read by nobody.
* All CPUs have booted in `Init`; `init_vsched_secondary` touches only its own `PerCPU`.
* The queue under the FIFO is an external MPMC queue; each is used by one CPU only, so it is
  a bounded sequence.

### How the queues and the preemptive schedulers correspond to the code

`LockFreeDeque`: the four operations have one shape and one set of actions; `op[p]` says which one runs.

| label | action | code of `pop_back` (`utils/src/deque.rs`) |
|---|---|---|
| `idle` | `Call` | the call, with its item |
| `own`, `far` | `LoadOwn`, `LoadFar` | the loads in lines 268 and 269 |
| `recheck` | `Recheck` | lines 270 to 278: start over, return, or go on |
| `claim` | `Claim`, `ClaimFails` | the compare-exchange of the slot, line 287, and its failure, line 322 |
| `move` | `Move`, `MoveFails` | the compare-exchange of the index, line 297 |
| `settle` | `Settle` | read (write) the item and publish the slot, lines 303 to 309 |
| `release` | `Release` | give the slot back, line 313 |

`compare_exchange_weak` may fail for no reason (`WeakCAS`). `seen` is history: since the call
began the deque was full (for a push) or empty (for a pop). `out` are the items a caller may push: a task is never pushed twice.

`LockFreeBTreeMap`: `look`, `read`, `lock`, `update`/`unlock` are phase 1 of `insert` (an equal key is updated),
`place`, `write`, `count` phase 2 (a free slot is taken); `scan`, `confirm` are phase 1 of `pop_first` (slot by
slot, with the check of the version), `choose`, `restore`/`take`, `discount` phase 2. The number of an insertion is the version of its
slot and stands for the value too. `first_key_value` is the same scan once, with its result (`Report`); `clear` visits every
slot, locks what it saw valid (`visit`, `seize`) and empties it (`take`, `discount`, as a pop does) or, if the version has
changed, gives it back (`restore`). `try_lock_for_delete` (`Locks`, `LockFails`) loads the word and then tries to exchange it: it may fail on a valid
slot when the slot has been refilled since it was seen. The comparison in `read` is of an entry that another
caller may be writing (a data race in the code): both answers are allowed then. `stood` is history: the versions
of the entries that have been in the map ever since the present round of the scan, or phase 1 of the insert, began; `beaten`: another caller has locked a slot since then.

`RRScheduler`: `yield_current` and `preempt_current` put the current task back and pick; `Block` picks only;
`unblock_task` takes the flag `resched` from its caller; `task_tick` is the timer. The kernel reschedules when `task_tick` returns
true (trait `BaseScheduler`), so no tick comes while the slice is 0. Each operation is one step: the CPU's own ones run with
interrupts off, and those of others meet it only in the deque. `share` is history: the ticks others
got while a task waits.

`CFScheduler`: the accesses of `add_task` and `task_tick` to `min_vruntime` and to the map are steps of their own
(`SpawnStart`, `SetZero`, `Unwrap`, `InsertNew`, `FirstKey`, `StoreMin`; `TickStart`, `Check`, `Compare`,
`TickReturns`); `put_prev_task` works on a task nobody else touches and is one step; `pick_next_task` another. A panic
stops the CPU at label `panic`, so the run does not check deadlock. `foreign` is history: a CPU other than the owner has
spawned into the queue.

Operators named as a "faulty variant" of another are not used by the specification. Each is what
a plausible slip in the code would look like; the property named with it in `PROJECT.json`
fails when it replaces the original, which shows that the property does notice.

## 3. Runs

The runs of `VSched` have CPUs `{0, 1}`, tasks `main`, an idle task per CPU, and two tasks
that user code creates. User code may make the calls listed in `Calls` in any order and
at any time, so the state spaces need no other bound: every counter and queue is finite
because tasks are. In `mixed_2cpu` the two coroutines, and the two WaitQueues, are interchangeable (`Symmetry`): no definition
names one of them, and the run checks no liveness. Its `VIEW` leaves out `need_resched`, `exit_code` and `released`,
which the scheduler writes and no guard reads, so that states that differ in nothing else are explored once. Two CPUs suffice for every window between a CPU that gives a task up and
one that wakes it; two user tasks beside `main` give two waiters and a notifier.

| Run | Instance | Properties |
|---|---|---|
| `threads_2cpu` | 2 CPUs, threads that spawn, yield, wait, requeue, join and exit; fairness | `NoBlockedTaskLost`, `ThreadJoinWoken`, `SpinEnds`, `JoinEnds`, `IdleCpuPicksUp`, `ExitedForever`, `ImplementsLifecycle` |
| `mixed_2cpu` | 2 CPUs, `main` and two coroutines, two WaitQueues, a WakerQueue, `wait_until(_f)` on both kinds, `wait_f`, `notify_all`, `notify_task`, `requeue` | `NoReadyTaskLost`, `OnCpuJustified`, `IInv`, `RunningIsCurrent`, `OnePlace`, `AssertionsHold`, `OneStackPerCpu`, `InWaitQueueExact`, `NoBlockedThreadLost`, `LockHolderGetsOn` |
| `deque` | 1 consumer, 2 producers at both ends, 3 items, ring of 4; fairness | `SlotClaims`, `WindowExact`, `EveryItemOnce`, `NoneMeansEmpty`, `ImplementsDeque`, `OwnerCallsEnd` |
| `map` | 2 callers of `insert`, `pop_first`, `first_key_value` and `clear`, 3 keys, 2 slots | `EveryEntryOnce`, `OneHolder`, `LenAccounts`, `ScanFindsLeast`, `InsertFindsKey`, `RoundLostToOther`, `ImplementsMap` |
| `rr` | 3 tasks, slices of 2 ticks, a deque of 4 slots; fairness | `IInv`, `QueuedHaveTicks`, `FairShare`, `NoTaskLost`, `NoStarvation` |
| `cfs` | 2 tasks, the owning CPU and a remote one, nice 0 and 5, a map of 2 slots | `TaskInOnePlace`, `QueuedKeysCurrent`, `UnwrapSucceeds`, `VruntimeKept`, `TickSeesFirst` |

`RqCap` is 3: as many as there are tasks that can be queued at once, so no task is dropped.
`NoBlockedTaskLost` is checked where there are no WakerQueues: with late wakers it fails, see `waker_lost`; of threads
(`NoBlockedThreadLost`) it holds beside WakerQueues too.
The calls are divided over the two runs. `threads_2cpu` has waits, joins and liveness; its one WaitQueue is source and
target of its requeues, which shows waiters in transit beside new ones. `mixed_2cpu` moves waiters between two queues and wakes
them from the middle of one; joins of coroutines are in the run `coroutine_join` and, for all queues and calls together, in the proofs. No
liveness is claimed of tasks a requeue moves: whether the target is notified is up to user code.

The bounds of the others. The deque: a ring of `CAPACITY` 4 keeps one slot free, so three items fill it. It is
empty, full and wraps round, but an item more than there is room for is never pushed: as a ready queue it is
large enough, and `deque_full` shows what happens when it is not. The CPU of the queue (`cpu0`) uses all four operations, the other only
pushes, as spawns and wakes into a remote queue do. Each item is pushed again after it was popped, without limit.
`WeakCAS` is on: `compare_exchange_weak` may fail for no reason. The map: `MaxVersion` 5 bounds the insertions of a run,
so that each slot is filled and emptied more than once; `MAX_RETRIES` (16 in the code) is 2, which shows a pop that starts over and one that gives up;
one key (`Shared`) may be inserted while it is present, which takes the update path of `insert`. Three keys on two slots
make an insert fail on a full map. Round robin: `MAX_TIME_SLICE` (5 in the code) is 2, the least with a slice
that is used in part; `CAPACITY` is the least that holds the three tasks, as the deque keeps one slot free
(`user_test/src/bin/spawn.rs:9` allows main and `RQ_CAP - 2` more). CFS: `CAPACITY` is the number of tasks, all slots of the map are used; `MaxId` bounds the operations that put a task into the queue, `MaxVruntime` the ticks; both
only stop a run that was long enough to reorder two tasks twice. Two nice values show the folding of the
delta at a rounding weight. Both CPUs spawn; `TickSeesFirst` and `UnwrapSucceeds` speak of the runs, and the parts of runs,
before the second one does.

The next runs each check one thing a comment of the code states; TLC finds it violated by
what the code does.

| Run | Statement | What happens |
|---|---|---|
| `ready_queue_off_cpu` | `ReadyQueueOffCpu` (`vsched/src/sched.rs:126`) | `main`'s first yield, alone on its CPU, clears its own `on_cpu`; when it later blocks, a notifier does not wait for it |
| `released_off_cpu` | `ReleasedOffCpu` (`task_management/src/sched.rs:59`) | the state of the previous task is read after `on_cpu` is clear: it may have run on and be exiting elsewhere |
| `join_exit_code` | `JoinReturnsExitCode` (`task_inner_ext.rs:238`) | the state is Exited before the code is stored |
| `coroutine_join` | `CoroutineJoinWoken` (`task_inner_ext.rs:246`) | check and enqueue are two steps for a coroutine |
| `waker_lost` | `NoBlockedTaskLost` (`waker_queue.rs:75`) | a waker is used before its coroutine is Blocked |
| `deque_full` | `EmptyHoldsNothing` (`utils/src/deque.rs:49`) | pushes at both ends both find one place left and both succeed; head meets tail, and the full deque reads as empty |

Deadlock is checked in every run but `cfs`, where a CPU that panics stops: in
VSched some step is always possible while `mode = "up"`.

### Seen while modelling, without a run

These follow from the models and the lines named; no listed run states them.

* A task that yields to itself on a resume point without a switch releases the exited task in `prev_task` a second
  time (`task_management/src/sched.rs:94`).
* A FIFO queue at `RQ_CAP` drops the task that is enqueued, and `put_task_with_state` still returns true (`fifo.rs:132`);
  round robin and CFS ignore a refused insertion too (`round_robin.rs:143`). `NoReadyTaskLost`, `NoTaskLost` and
  `TaskInOnePlace` say that it does not happen to tasks that are few enough.
* With two consumers a pop with a stale head finds an EMPTY slot and returns None though the deque was never empty
  (`deque.rs:249`); a push whose old tail is current again after a turn of the ring is refused though the deque was never
  full (`deque.rs:135`). In run `deque`, which has one consumer as the ready queues do, the first
  branch (`Refuse` in `ClaimFails`) is never taken; it is in the model for queues with several.
* A caller that stops inside a deque operation makes the others spin (`deque.rs:106`): the deque is not lock-free in the
  strict sense.
* Two inserts of one key may store it twice: both look before either has stored it, or one meets a slot whose version has
  changed and goes on to take a free slot (`btreemap.rs:270`: the `break` leaves the search, where the comment says
  the next retry). CFS uses no key twice; `InsertFindsKey` is what holds of any key.
* A pop may take a key that was
  at no moment the smallest (`btreemap.rs:359`): the scan is no snapshot, and `ScanFindsLeast` is what it does give.
  A pop that has used up its rounds returns what an empty map returns (`btreemap.rs:432`); `RoundLostToOther` says what it takes.
* `TaskWaker::wake` turns the Arc it is given into a pointer and never gives it back, and the `waker` of `coroutine_schedule` is not
  dropped when the coroutine's stack is left through `switch_to` (`task_management/src/task.rs:193`): references leak.
* Under round robin a wake from another CPU with `resched` set goes to the front of the queue (`vsched/src/sched.rs:127`;
  the comment in line 129 says the flag is ignored).
* CFS, once two CPUs spawn into one queue: `min_vruntime` may become None between the check and the unwrap in line 198 of
  `cfs.rs`, or in those of `task_tick`, which panics: one `add_task` finds the queue empty, as its task has been picked already, and stores that,
  while the other has passed its check. And the first key is read and stored in two steps: a late store raises `min_vruntime`
  above a queued key, and `task_tick` answers false though a queued task is ahead (`cfs.rs:230`). TLC shows both when the
  condition `~foreign` is taken out of `UnwrapSucceeds` and `TickSeesFirst` (the second with three tasks). With spawns by the owner alone `min_vruntime` stays 0, so that
  `task_tick` may return true without need.

### Fairness

`FairSpec` assumes `WF(LibStep(c))`: a CPU inside the library goes on (it is code that runs with
nothing to stop it but a lock or `on_cpu`), and `WF(IdleYield(c))`: `run_idle` is an endless
loop of yields. Nothing is assumed of user code: a task may compute for ever.
`IdleCpuPicksUp` therefore speaks of idle CPUs only.

`LockFreeDeque!FairSpec`: a caller inside an operation goes on (`WF(Step(p))`), and a weak compare-exchange that can
succeed again and again does so at some time (`SF` of `Claim` and `Move`); nothing makes a caller call again. `OwnerCallsEnd` needs it of both
callers: one that stops while it holds a slot makes the other spin.
`RRScheduler!FairSpec`: the timer ticks, a task whose slice is used up is preempted, and `run_idle` yields. Tasks
need not yield, block or wake.

## 4. Proofs

TLC checks instances; the theorems hold for every value of the constants that satisfies the ASSUMEs of the modules: every set of
CPUs, tasks, queues, callers, items and keys, every capacity, slice and bound, and every choice of calls
(idle tasks are distinct and not `Main`; the kinds of queues are disjoint; capacities are positive). Where a
theorem needs more, the table says so.

| Module | Theorem | Statement |
|---|---|---|
| `VSched_proofs` | `Invariance` | `Spec => []IInv` |
| | `TypeCorrectness` | `Spec => []TypeOK` |
| | `OneCpuPerTask` | `Spec => []RunningIsCurrent` |
| | `NoDuplicates` | `Spec => []OnePlace` |
| | `AssertionsNeverFail` | `Spec => []AssertionsHold` |
| | `FlagMatchesQueues` | `Spec => []InWaitQueueExact` |
| `VSched_refinement` | `LifecycleImplemented` | `Spec => ImplementsLifecycle` |
| | `NoRevival` | `Spec => ExitedForever` |
| `VSched_handover` | `Waiting` | `Spec => []WInv` |
| | `FlagHasACpu` | `Spec => []OnCpuJustified` |
| | `StacksBounded` | `Spec => []OneStackPerCpu` |
| | `LockHolderProgress` | `Spec => []LockHolderGetsOn` |
| | `NoLostExit` | `Spec => []ThreadJoinWoken` |
| | `NoLostThread` | `Spec => []NoBlockedThreadLost` |
| | `NoLostWaiter` | `WakerQueues = {} => (Spec => []NoBlockedTaskLost)` |
| | `NoLostReady` | `HasRoom => (Spec => []NoReadyTaskLost)` |
| `LockFreeDeque_proofs` | `Inductive` | `Spec => []IInv` |
| | `SlotsExclusive` | `Spec => []SlotClaims` |
| | `WindowIsExact` | `HasRoom => (Spec => []WindowExact)` |
| | `ItemsKept` | `HasRoom => (Spec => []EveryItemOnce)` |
| | `NoneIsHonest` | `HasRoom /\ OnePopper => (Spec => NoneMeansEmpty)` |
| `LockFreeDeque_refinement` | `DequeImplemented` | `HasRoom => (Spec => ImplementsDeque)` |
| `LockFreeBTreeMap_proofs` | `SlotsConsistent` | `Spec => []SlotInv` |
| | `HoldersUnique` | `Spec => []OneHolder` |
| | `EntriesKept` | `Spec => []EveryEntryOnce` |
| | `LenExact` | `IsFiniteSet(Procs) => (Spec => []LenAccounts)` |
| | `LeastFound` | `Spec => []ScanFindsLeast` |
| | `KeyFound` | `Spec => InsertFindsKey` |
| | `RoundsLostToOthers` | `Spec => RoundLostToOther` |
| | `MapImplemented` | `Spec => ImplementsMap` |
| `RRScheduler_proofs` | `RRInvariance` | `Spec => []IInv` |
| | `QueuedTicks` | `Spec => []QueuedHaveTicks` |
| | `NoneDropped` | `Spec => []NoTaskLost` |
| | `FairShares` | `Spec => []FairShare` |
| `CFScheduler_proofs` | `CFSInvariance` | `Spec => []IInv` |
| | `KeysCurrent` | `Spec => []QueuedKeysCurrent` |
| | `CFSOnePlace` | `HasRoom => (Spec => []TaskInOnePlace)` |
| | `VruntimesKept` | `Spec => VruntimeKept` |
| | `TickSeesAll` | `HasRoom => (Spec => TickSeesFirst)` |
| | `UnwrapsSucceed` | `HasRoom => (Spec => []UnwrapSucceeds)` |

The hypotheses. `HasRoom` says that the tasks (items) are finitely many and fit into the queue; without it the code
drops tasks, as it ignores refused insertions, and the deque breaks (`deque_full`). The capacity is chosen for it
(`user_test/src/bin/spawn.rs:9`). `OnePopper`: one caller takes items out, as on a ready queue, which only its own CPU picks from; what
happens with more is in the list above. `WakerQueues = {}`: with them the property is false (`waker_lost`).
`IsFiniteSet(Procs)` is needed only because cardinalities are counted. `NoTaskLost` has its `HasRoom` inside.

### The scheduler

**`IInv`.** That a Running task is the current task of one CPU is not inductive: a picked task
must be known to be Ready, so ready queues must hold Ready tasks and none twice
(`ReadyInv`), also not the one a waking CPU holds in its hand; what is taken off a wait queue must be
Blocked or, for a waker, the coroutine of a CPU that is on its way to Blocked
(`QueueInv`); the idle task must be Ready whenever its CPU runs something else
(`IdleInv`); and the calls saved in `frame` must agree with where CPUs and tasks
are and with the kind of queue the call takes (`FrameInv`, `TargetFits`), or a resumed task could go on in the wrong
place or a waker land among tasks. A requeue needs that only its own `Vec` holds anything between its two sections
(`HandInv`): otherwise what `FinishRequeue` leaves behind, or overwrites, would be lost or doubled.
The proof of a step has few kinds: a CPU moves inside the library (`LocalMove`), a task gives up its
CPU (`GiveUp`), a CPU takes a task (`Dispatch`), a task enters or leaves a queue, waiters move from place to place. One lemma
per action applies them. `RemoveFacts` says what the i-th removal does to a queue, once for `pop_front` and for the `remove` of
`notify_task`; `DropOne` that the other parts of `IInv` survive it; the two wake-ups share `WakeUpKeeps`.

**`WInv`** is proved on top of `IInv`, part after part. Of the flag `on_cpu`, of stacks and of who executes what, only three
actions say anything: the choice of another task, the context switch and the resume point (`LibStepQuiet`,
`UserStepQuiet`); in between, `Executing(c)` and `current[c]` differ, and what a CPU switches to must be executed by nobody
(`ExecInv`). A thread gives the coroutine it switches to a stack before the switch, so `StackInv` counts that stack too.
A waiter is Blocked with `in_wait_queue` set, or is a coroutine that has left its waker somewhere (`BlockedInv`); with
`InWaitQueueExact` it then is in a queue. A thread in the queue of an exited task has checked the state under the lock that
`notify_exit` needs, so that call has still to come (`JoinInv`; for coroutines it fails, see
`coroutine_join`). The holder of a lock is spinning on `on_cpu` (`LockInv`), and whoever will clear the flag is past
every lock (`OnCpuJustified`): `LockHolderGetsOn` is the safety part of "spins end"; the run
`threads_2cpu` checks the liveness.
With `HasRoom`, an enqueue never fails, as a ready queue holds no task twice
(`RoomForOneMore`, by `FS_Injection`); so a Ready task is always somewhere.

The refinement maps `st[t]` to `state[t]` (New until spawned) and `running[c]` to the current
task if it is Running, else None; with `IInv` every action is one step of TaskLifecycle or none.

### The deque

Claims come first: a slot is WRITING or READING exactly while one caller holds it (`ClaimInv`); with the places of the items
(`ItemInv`) that is kept by every step, full ring or not. That the filled slots are those between `head` and `tail` (`WindowInv`) is not: a push
that finds one place left moves its index while another does the same at the other end. `HasRoom` excludes that
by counting: when a push is about to move its index, the items in the window and its own are distinct, so fewer than `CAPACITY - 1` are there (`RoomToMove`,
by `FS_PigeonHole`).

A pop that returns None has read its own index, then the other one, then its own again; others pushed between. With one
popper only pushes move the indices meanwhile, and they only add to what the pop saw: `Gap` is the way from the present
index at its end to the value it loaded there, `Reach` from that value to the one it loaded of the other end, and the
deque holds at least both together (`PopInv`). So if the two loaded values are equal and the first is still current, the deque was empty at one of the loads.

The refinement maps the contents to the items between the indices: a push takes effect when it moves its index, before its item is
written, so the item of a slot that is being filled is the one its writer carries (`Stored`). The proof shows that each
move of an index appends or removes one element at the end it names, and that no other step changes the sequence
(`SameContents`).

### The map

Every lemma about a step goes by what it does to the slots, of which there are six kinds (`Locking`, `Filling`, `Releasing`, `Placing`,
`Taking`, and `Beginning`, which only draws a version; otherwise `Quiet`). One lemma per action says
which (`StepEffect`); the invariants are proved from the kinds.

`SlotInv`: a version is given out once and sits in one slot (`VersionInv`), a locked slot has one holder (`HolderInv`), and an
occupied slot's entry is the one its version was given to (`EntryInv`). The last is why comparing versions is enough: a
caller that locks a slot with the version it has seen knows the entry. The parts need each other: a holder rewrites the entry under its own
version, and only because no one else can hold the slot does the old one go with the old entry.
`PlaceInv` says of a key that is inserted once at a time that it is in exactly one of four places, and each kind of step moves it from one to the
next or not at all. `LenAccounts` compares cardinalities before and after: a step changes at most one slot and one
caller (`AtChanges`).

`ScanInv` is about what a scan has passed: a slot whose version has stood since the round began had this version, and this entry, when the
scan came by (`Stable`), so the candidate is no greater. `stood` loses a version for ever once it is gone. `RoundInv`: the candidate
is valid where it was found unless somebody has locked a slot since.

The refinement maps the entries to those of the occupied slots, a locked one included: whoever holds it either fills it with a
new entry (`update`, one step of `Replace`) or empties it (`take`, a step of `Remove`) or gives it back unchanged. An insertion into a free slot
takes effect with the store of `mark_valid` (`write`, a step of `Add`; the slot was not occupied, so there is room: `RoomLeft`, by
`FS_Surjection`), though it is counted later. `found` is the candidate of the scan, or what `clear` has locked under
the version it saw; with another version it has seen nothing and gives the slot back. That `Remove` finds `found` among the entries is where `EntryInv` is used, and
that it removes one entry, and no slot keeps a second copy, is `OnlySlot`. A caller outside every call shows nothing (`IdleInv`). Which entry
`pop_first` sees, and when a call may fail, `EntryMap` leaves open: under concurrency the code does not choose the
smallest at the instant of the removal. What it does promise of that are `ScanFindsLeast`, `InsertFindsKey` and `RoundLostToOther`.

The versions of the model are unbounded, those of the code have 32 bits: the theorems speak of runs before the wrap.

### Round robin and CFS

Round robin: that queued tasks have ticks left needs that a tick goes to no queued task, hence that a task is
in one place, the queue holds none twice, and new tasks have their first slice. That no task is
dropped (`NoTaskLost`) follows with one more fact: a queue without duplicates is no longer than there are
tasks (`DistinctFits`). Fairness between two tasks is not inductive as stated: a task that has had its share must
either be behind the waiting one in the queue or have no ticks left. `Shares` says that what u has had since t
waits, and what it has left, is at most one slice together, for any u that is ahead of t, runs or sleeps. A task that yields its remaining ticks gets a new
slice, but at the back; one that is woken to the front keeps its old one.

CFS: entries follow the fields of their tasks, since only the current task's fields change and it is not queued (`PlaceInv`); keys differ since ids are drawn
from `id_pool` once (`IdInv`), so an insertion replaces nothing and, with `HasRoom`, is not refused. That a vruntime never goes
back is arithmetic: more ticks weigh no less (`DivMonotonic`, `VruntimeSteps`), and `set_priority` folds exactly what it drops.
`MinInv`: until another CPU spawns, `min_vruntime` is None or 0, because the task
that `add_task` has inserted, with vruntime 0, is still queued when it asks for the first key: nobody but this CPU picks, and it is in
`add_task`. What the check for None has found stays so.

### Not proved

The liveness properties (`SpinEnds`, `JoinEnds`, `IdleCpuPicksUp`, `OwnerCallsEnd`, `NoStarvation`) are only model-checked: fairness and
ENABLED are out of the prover's reach. All other properties of the passing runs are theorems.

## 5. Not modelled

* `vsched_apis`, `config`, `vsched/src/api.rs`'s generated tables: code generation and constants, which the modules take as CONSTANTS.
* `base_task/src/task_ext.rs`: a pointer attached to a task; nothing in the scheduler reads it.
* `user_test`: host threads as CPUs and the examples; the calls they make are the `Calls` of the models.
* The `preempt` and `irq` features of `base_task` (preempt counts, timer tickets): their callers are not in this repository. `select_run_queue_index` and
  `migrate_entry`, and a wake onto another CPU's queue in the FIFO configuration, have no caller either.
* The Arc counts of wakers: wakes and clones only change a number that no branch reads before the task is freed; the scheduler's own
  reference, which is dropped at resume points, is `released`.
* `exact_len` and `for_each` of the map, `len` and `is_empty` everywhere: they change nothing, and under concurrency promise nothing
  beyond the single loads they make. `Drop` of the deque and of the map has exclusive access.
* The wrap of slot versions at 2^32.

## 6. Plan

Done: `VSched` with its abstract specification, the lock-free deque and map with all their operations, each shown to implement an abstract one, round robin and CFS, each
with runs, and theorems for every safety property the runs check. Next:

1. Round robin over the steps of `LockFreeDeque`, with a full ring; a refinement of the sequence in `RRScheduler` by `Deque`,
   and CFS over `EntryMap`.
2. `migrate_entry` if it gets a caller.

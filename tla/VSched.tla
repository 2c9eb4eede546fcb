-------------------------------- MODULE VSched --------------------------------
(***************************************************************************)
(* The core of vsched: the per-CPU scheduler of the vDSO (vsched,          *)
(* base_task, scheduler) and the thread and coroutine operations that      *)
(* task_management builds on it: spawn, yield, block on a WaitQueue or a   *)
(* WakerQueue, notify, exit and join, for any number of CPUs that run      *)
(* concurrently.                                                           *)
(*                                                                         *)
(* Each CPU c is a process.  pc[c] = "run" while the code of its current   *)
(* task is outside the library; every other label is a point inside a      *)
(* library call at which another CPU may observe or change shared state.   *)
(* Code between two labels touches only state of this CPU, or is protected *)
(* by the spin lock of a queue, and is one step.                           *)
(***************************************************************************)
EXTENDS Integers, Sequences, FiniteSets

CONSTANTS
    CPUs,          \* CPU ids
    BootCpu,       \* the primary CPU, on which init_vsched ran
    Tasks,         \* every task: Main, the idle tasks, and those user code creates
    Coroutines,    \* the tasks created by new_f
    Main,          \* the execution flow that called init_vsched
    idle_task,     \* PerCPU::idle_task, a function from CPUs to Tasks
    WaitQueues,    \* the WaitQueue objects of user code
    WakerQueues,   \* the WakerQueue objects of user code
    RqCap,         \* config::RQ_CAP, the capacity of a ready queue
    Calls,         \* the library calls that user code makes
    ReschedFlags,  \* the values user code passes as `resched` to notify
    None

IdleTasks == {idle_task[c] : c \in CPUs}

\* The tasks user code creates and spawns.
UserTasks == Tasks \ (IdleTasks \cup {Main})

\* Every task owns the WaitQueue `wait_for_exit`; the model calls it by the task.
Queues == Tasks \cup WaitQueues \cup WakerQueues

\* requeue collects what it takes out of a queue in a Vec before it locks the target:
\* one Vec of tasks and one of wakers per CPU, places where a waiter may be like a queue.
Hands == CPUs \X {"tasks", "wakers"}

Places == Queues \cup Hands

\* The places that hold wakers, and those that hold tasks, whose in_wait_queue is set.
WakerPlaces == WakerQueues \cup (CPUs \X {"wakers"})

TaskPlaces == Places \ WakerPlaces

AllCalls == {"spawn", "yield", "wait", "wait_until", "notify_one", "notify_all", "notify_task",
             "requeue", "exit", "join", "waker_wait", "waker_until"}

ASSUME CpuAssumption ==
    /\ BootCpu \in CPUs
    /\ None \notin CPUs

ASSUME TaskAssumption ==
    /\ Main \in Tasks
    /\ None \notin Tasks
    /\ idle_task \in [CPUs -> Tasks \ {Main}]
    /\ \A c, d \in CPUs : idle_task[c] = idle_task[d] => c = d
    /\ Coroutines \subseteq UserTasks

ASSUME QueueAssumption ==
    /\ Tasks \cap WaitQueues = {}
    /\ Tasks \cap WakerQueues = {}
    /\ WaitQueues \cap WakerQueues = {}
    /\ Queues \cap Hands = {}

ASSUME ParameterAssumption ==
    /\ RqCap \in Nat \ {0}
    /\ Calls \subseteq AllCalls
    /\ ReschedFlags \subseteq BOOLEAN

VARIABLES
    (* Fields of the tasks (base_task::TaskInner and TaskInnerExt). *)
    state,          \* TaskState
    on_cpu,         \* the task is running, or still being switched out
    in_wait_queue,
    need_resched,   \* preemption is pending
    kstack,         \* for a coroutine: it holds a stack
    exit_code,      \* 0 until notify_exit stores the code
    frame,          \* the library call the task is in: its name and arguments
    spawned,        \* the tasks that have been handed to the scheduler
    released,       \* how often the scheduler's Arc of the task was dropped
    (* Fields of the CPUs (scheduler::PerCPU and the coroutine stack pool). *)
    current,        \* current_task
    prev_task,      \* prev_task; see Resume for what taking it leaves behind
    rq,             \* the ready queue of the FIFO scheduler
    pool,           \* how many stacks COROUTINE_STACK_POOL holds for the CPU
    pc,             \* the point of the library the CPU is at
    waking,         \* the task put_task_with_state spins for
    (* Wait queues. *)
    queue,          \* for each place the waiting tasks (or those whose wakers it holds)
    lock,           \* the CPU that holds the queue's spin lock between two steps
    mode            \* "up"; "exited" after Main exits; "wild", see PickWild

taskVars == <<state, on_cpu, in_wait_queue, need_resched, kstack, exit_code, frame,
              spawned, released>>
cpuVars == <<current, prev_task, rq, pool, waking>>
queueVars == <<queue, lock>>
vars == <<taskVars, cpuVars, queueVars, pc, mode>>

States == {"Running", "Ready", "Blocked", "Exited"}

Labels == {"run", "cond", "block", "cancel", "store", "notify", "spin", "requeue", "pended",
           "resched", "switch", "resume", "reap"}

Ops == {"none", "yield", "wait", "wait_until", "join", "exit", "notify_one", "notify_all",
        "requeue", "waker_wait"}

Frames == [op : Ops, q : Queues \cup {None}, resched : BOOLEAN]

NoFrame == [op |-> "none", q |-> None, resched |-> FALSE]

\* Dropping one Arc reference too many is already an error: the count saturates.
MaxReleases == 2

-----------------------------------------------------------------------------
(* init_vsched on the primary CPU, init_vsched_secondary on the others.    *)

BootTask(c) == IF c = BootCpu THEN Main ELSE idle_task[c]

BootTasks == {BootTask(c) : c \in CPUs}

Init ==
    /\ state = [t \in Tasks |-> IF t \in BootTasks THEN "Running" ELSE "Ready"]
    /\ on_cpu = [t \in Tasks |-> t \in BootTasks]
    /\ in_wait_queue = [t \in Tasks |-> FALSE]
    /\ need_resched = [t \in Tasks |-> FALSE]
    /\ kstack = [t \in Tasks |-> FALSE]
    /\ exit_code = [t \in Tasks |-> 0]
    /\ frame = [t \in Tasks |-> NoFrame]
    /\ spawned = IdleTasks \cup {Main}
    /\ released = [t \in Tasks |-> 0]
    /\ current = [c \in CPUs |-> BootTask(c)]
    /\ prev_task = [c \in CPUs |-> BootTask(c)]
    /\ rq = [c \in CPUs |-> <<>>]
    /\ pool = [c \in CPUs |-> 0]
    /\ pc = [c \in CPUs |-> "run"]
    /\ waking = [c \in CPUs |-> None]
    /\ queue = [q \in Places |-> <<>>]
    /\ lock = [q \in Queues |-> None]
    /\ mode = "up"

-----------------------------------------------------------------------------
(* Helpers.                                                                *)

\* CPU c is at the label, and the program is still going.
At(c, label) == mode = "up" /\ pc[c] = label

Goto(c, label) == pc' = [pc EXCEPT ![c] = label]

\* The task whose stack and registers CPU c is really using: current_task is
\* replaced before the context switch.
Executing(c) == IF pc[c] = "switch" THEN prev_task[c] ELSE current[c]

\* Faulty variant of Enqueue: the bound is off by one.
EnqueueOneLess(s, t) == IF Len(s) < RqCap - 1 THEN Append(s, t) ELSE s

\* FifoScheduler::add_task and put_prev_task: the result of the enqueue is ignored,
\* so a task that does not fit is dropped.
Enqueue(s, t) == IF Len(s) < RqCap THEN Append(s, t) ELSE s

\* Faulty variants of NextTask: it falls back to the current task; to the idle task of
\* the primary CPU; an idle task goes on as long as it can.
NextTaskCurrent(c) == IF rq[c] = <<>> THEN current[c] ELSE Head(rq[c])
NextTaskBootIdle(c) == IF rq[c] = <<>> THEN idle_task[BootCpu] ELSE Head(rq[c])
NextTaskStayIdle(c) ==
    IF rq[c] = <<>> \/ current[c] \in IdleTasks THEN idle_task[c] ELSE Head(rq[c])

\* The task resched picks: the head of the ready queue, else the idle task.
NextTask(c) == IF rq[c] = <<>> THEN idle_task[c] ELSE Head(rq[c])

\* User code of CPU c may make the call: its current task is outside the library.
\* The idle task of the primary CPU is run_idle, which only yields; the idle task
\* of another CPU is its boot code, which may spawn before it calls run_idle.
MayCall(c, call) ==
    /\ At(c, "run")
    /\ call \in Calls
    /\ current[c] \in IdleTasks =>
          call = "yield" \/ (call = "spawn" /\ c # BootCpu)

\* Where a task goes on after its resume point: a wait returns through
\* cancel_events, a join or another wait_until checks its condition again.
Continue(f) ==
    IF f.op = "wait" THEN "cancel"
    ELSE IF f.op \in {"join", "wait_until"} THEN "cond" ELSE "run"

\* Leave the library call at a resume point, or go on inside it.
GoOn(c) ==
    LET t == current[c] IN
    /\ Goto(c, Continue(frame[t]))
    /\ frame' = IF Continue(frame[t]) = "run" THEN [frame EXCEPT ![t] = NoFrame] ELSE frame

-----------------------------------------------------------------------------
(* Calls that do not block.                                                *)

\* task_api::spawn: the task is added to the ready queue of this CPU.
Spawn(c, t) ==
    /\ MayCall(c, "spawn")
    /\ t \notin spawned
    /\ spawned' = spawned \cup {t}
    /\ rq' = [rq EXCEPT ![c] = Enqueue(@, t)]
    /\ UNCHANGED <<state, on_cpu, in_wait_queue, need_resched, kstack, exit_code, frame,
                   released, current, prev_task, pool, waking, queueVars, pc, mode>>

\* yield_now and yield_now_f up to the reschedule: put_task_with_state makes the task
\* Ready and, unless it is the idle task, puts it into the ready queue.
Yield(c) ==
    LET t == current[c] IN
    /\ MayCall(c, "yield")
    /\ state' = [state EXCEPT ![t] = "Ready"]
    /\ rq' = IF t \in IdleTasks THEN rq ELSE [rq EXCEPT ![c] = Enqueue(@, t)]
    /\ frame' = [frame EXCEPT ![t] = [op |-> "yield", q |-> None, resched |-> FALSE]]
    /\ Goto(c, "resched")
    /\ UNCHANGED <<on_cpu, in_wait_queue, need_resched, kstack, exit_code, spawned, released,
                   current, prev_task, pool, waking, queueVars, mode>>

-----------------------------------------------------------------------------
(* Blocking.                                                               *)

\* blocked_resched, or the first poll of BlockedReschedFuture, up to the reschedule:
\* under the lock of q the task becomes Blocked and joins the queue.
BlockOn(c, q) ==
    LET t == current[c] IN
    /\ lock[q] = None
    /\ state' = [state EXCEPT ![t] = "Blocked"]
    /\ in_wait_queue' = [in_wait_queue EXCEPT ![t] = TRUE]
    /\ queue' = [queue EXCEPT ![q] = Append(@, t)]
    /\ Goto(c, "resched")
    /\ UNCHANGED <<on_cpu, need_resched, kstack, exit_code, spawned, released, cpuVars, lock, mode>>

\* WaitQueue::wait and wait_f.
Wait(c, q) ==
    /\ MayCall(c, "wait")
    /\ frame' = [frame EXCEPT ![current[c]] = [op |-> "wait", q |-> q, resched |-> FALSE]]
    /\ BlockOn(c, q)

\* TaskInner::join and join_f: wait_until(_f) on the exit queue of task u.
Join(c, u) ==
    /\ MayCall(c, "join")
    /\ u \in spawned \ {current[c]}
    /\ frame' = [frame EXCEPT ![current[c]] = [op |-> "join", q |-> u, resched |-> FALSE]]
    /\ Goto(c, "cond")
    /\ UNCHANGED <<state, on_cpu, in_wait_queue, need_resched, kstack, exit_code, spawned,
                   released, cpuVars, queueVars, mode>>

\* wait_until and wait_until_f, of a WaitQueue ("wait_until") or of a WakerQueue, which has
\* the second only ("waker_until").
WaitUntil(c, call, q) ==
    /\ MayCall(c, call)
    /\ call = "waker_until" => current[c] \in Coroutines
    /\ q \in IF call = "wait_until" THEN WaitQueues ELSE WakerQueues
    /\ frame' = [frame EXCEPT ![current[c]] =
                    [op |-> "wait_until", q |-> q, resched |-> FALSE]]
    /\ Goto(c, "cond")
    /\ UNCHANGED <<state, on_cpu, in_wait_queue, need_resched, kstack, exit_code, spawned,
                   released, cpuVars, queueVars, mode>>

\* What the condition may return: a join waits for the exit of the task, the condition of
\* user code may be true or false at any time.
CondMay(f) == IF f.op = "join" THEN {state[f.q] = "Exited"} ELSE BOOLEAN

\* Faulty variant of CondThread: the lock is released between the check and the wait.
CondThreadUnlocked(c) ==
    /\ At(c, "cond") /\ current[c] \notin Coroutines
    /\ \E done \in CondMay(frame[current[c]]) : Goto(c, IF done THEN "cancel" ELSE "block")
    /\ UNCHANGED <<taskVars, cpuVars, queueVars, mode>>

\* wait_until: a thread checks the condition while it holds the queue's lock, and
\* keeps the lock until it is in the queue.
CondThread(c) ==
    LET q == frame[current[c]].q IN
    /\ At(c, "cond") /\ current[c] \notin Coroutines
    /\ lock[q] = None
    /\ \E done \in CondMay(frame[current[c]]) :
          IF done
          THEN /\ Goto(c, "cancel")
               /\ UNCHANGED <<taskVars, cpuVars, queueVars, mode>>
          ELSE BlockOn(c, q) /\ UNCHANGED frame

\* wait_until_f: a coroutine checks the condition without the lock.
CondCoroutine(c) ==
    /\ At(c, "cond") /\ current[c] \in Coroutines
    /\ \E done \in CondMay(frame[current[c]]) : Goto(c, IF done THEN "cancel" ELSE "block")
    /\ UNCHANGED <<taskVars, cpuVars, queueVars, mode>>

\* The poll of WakerBlockFuture: it leaves a clone of the waker in the queue and returns
\* Pending; the coroutine is still Running.
LeaveWaker(c, q) ==
    /\ lock[q] = None
    /\ queue' = [queue EXCEPT ![q] = Append(@, current[c])]
    /\ Goto(c, "pended")
    /\ UNCHANGED <<state, on_cpu, in_wait_queue, need_resched, kstack, exit_code, spawned,
                   released, cpuVars, lock, mode>>

\* The poll of the future that follows the check of wait_until_f.
Block(c) ==
    LET q == frame[current[c]].q IN
    /\ At(c, "block")
    /\ IF q \in WakerQueues THEN LeaveWaker(c, q) ELSE BlockOn(c, q)
    /\ UNCHANGED frame

\* cancel_events (a WakerQueue has none, and never finds the flag set), then the return
\* of the wait, or of join with the exit code it loads.
Cancel(c) ==
    LET t == current[c]
        q == frame[t].q IN
    /\ At(c, "cancel")
    /\ IF in_wait_queue[t]
       THEN /\ lock[q] = None
            /\ queue' = [queue EXCEPT ![q] = SelectSeq(@, LAMBDA x : x # t)]
            /\ in_wait_queue' = [in_wait_queue EXCEPT ![t] = FALSE]
       ELSE UNCHANGED <<queue, in_wait_queue>>
    /\ frame' = [frame EXCEPT ![t] = NoFrame]
    /\ Goto(c, "run")
    /\ UNCHANGED <<state, on_cpu, need_resched, kstack, exit_code, spawned, released,
                   cpuVars, lock, mode>>

\* WakerQueue::wait_f.
WakerWait(c, q) ==
    LET t == current[c] IN
    /\ MayCall(c, "waker_wait") /\ t \in Coroutines
    /\ frame' = [frame EXCEPT ![t] = [op |-> "waker_wait", q |-> q, resched |-> FALSE]]
    /\ LeaveWaker(c, q)

\* coroutine_schedule after a poll that left the coroutine Running: it is blocked now.
Pended(c) ==
    /\ At(c, "pended")
    /\ state' = [state EXCEPT ![current[c]] = "Blocked"]
    /\ Goto(c, "resched")
    /\ UNCHANGED <<on_cpu, in_wait_queue, need_resched, kstack, exit_code, frame, spawned,
                   released, cpuVars, queueVars, mode>>

-----------------------------------------------------------------------------
(* Waking.                                                                 *)

\* notify_one and notify_all of WaitQueue and WakerQueue.
StartNotify(c, call, q, resched) ==
    /\ MayCall(c, call)
    /\ frame' = [frame EXCEPT ![current[c]] = [op |-> call, q |-> q, resched |-> resched]]
    /\ Goto(c, "notify")
    /\ UNCHANGED <<state, on_cpu, in_wait_queue, need_resched, kstack, exit_code, spawned,
                   released, cpuVars, queueVars, mode>>

\* After one turn of notify: notify_one returns, notify_all and notify_exit go round.
AfterWake(c) ==
    LET t == current[c] IN
    IF frame[t].op = "notify_one"
    THEN Goto(c, "run") /\ frame' = [frame EXCEPT ![t] = NoFrame]
    ELSE Goto(c, "notify") /\ UNCHANGED frame

\* The queue is empty: the call returns; an exiting task reschedules.
NotifyEmpty(c) ==
    LET t == current[c] IN
    /\ At(c, "notify")
    /\ lock[frame[t].q] = None
    /\ queue[frame[t].q] = <<>>
    /\ IF frame[t].op = "exit"
       THEN Goto(c, "resched") /\ UNCHANGED frame
       ELSE Goto(c, "run") /\ frame' = [frame EXCEPT ![t] = NoFrame]
    /\ UNCHANGED <<state, on_cpu, in_wait_queue, need_resched, kstack, exit_code, spawned,
                   released, cpuVars, queueVars, mode>>

\* VecDeque::remove, and pop_front with i = 1.
Without(s, i) == SubSeq(s, 1, i - 1) \o SubSeq(s, i + 1, Len(s))

\* Faulty variants of TakeOut: the queue keeps the task; the flag stays set.
TakeOutPeeks(q, i) ==
    /\ in_wait_queue' = IF q \in WakerQueues THEN in_wait_queue
                        ELSE [in_wait_queue EXCEPT ![queue[q][i]] = FALSE]
    /\ UNCHANGED queue
TakeOutKeepsFlag(q, i) ==
    /\ queue' = [queue EXCEPT ![q] = Without(@, i)]
    /\ UNCHANGED in_wait_queue

\* unblock_one_task gets the i-th waiter, taken off the queue; a waker leaves the flag alone.
TakeOut(q, i) ==
    /\ queue' = [queue EXCEPT ![q] = Without(@, i)]
    /\ in_wait_queue' = IF q \in WakerQueues THEN in_wait_queue
                        ELSE [in_wait_queue EXCEPT ![queue[q][i]] = FALSE]

\* Faulty variant of Wakeable: the compare-and-exchange takes Running for Blocked, too.
WakeableRunning(t) == state[t] \in {"Blocked", "Running"}

\* put_task_with_state goes on only if its transition_state finds the task Blocked.
Wakeable(t) == state[t] = "Blocked"

\* The i-th task of the queue was Blocked and is Ready from here on; the caller keeps the
\* lock while put_task_with_state waits for the task to leave its CPU.
WakeUp(c, q, i) ==
    LET t == queue[q][i] IN
    /\ TakeOut(q, i)
    /\ state' = [state EXCEPT ![t] = "Ready"]
    /\ waking' = [waking EXCEPT ![c] = t]
    /\ lock' = [lock EXCEPT ![q] = c]
    /\ Goto(c, "spin")
    /\ UNCHANGED <<on_cpu, need_resched, kstack, exit_code, spawned, released,
                   current, prev_task, rq, pool, mode>>

NotifyWake(c) ==
    LET q == frame[current[c]].q IN
    /\ At(c, "notify")
    /\ lock[q] = None
    /\ queue[q] # <<>>
    /\ Wakeable(queue[q][1])
    /\ WakeUp(c, q, 1)
    /\ UNCHANGED frame

\* The first task of the queue was not Blocked: unblock_task does nothing.
NotifyLost(c) ==
    LET q == frame[current[c]].q IN
    /\ At(c, "notify")
    /\ lock[q] = None
    /\ queue[q] # <<>>
    /\ ~Wakeable(queue[q][1])
    /\ TakeOut(q, 1)
    /\ AfterWake(c)
    /\ UNCHANGED <<state, on_cpu, need_resched, kstack, exit_code, spawned, released,
                   cpuVars, lock, mode>>

\* No call that borrows the queue is going on.
Unborrowed(q) == \A t \in Tasks : frame[t].q # q

\* WaitQueue::notify_task takes `&mut self`: what it can find has been requeued here.  From
\* the wake-up on it goes on as notify_one does.
NotifyTask(c, q, i, resched) ==
    /\ MayCall(c, "notify_task")
    /\ Unborrowed(q)
    /\ lock[q] = None
    /\ i \in 1..Len(queue[q])
    /\ IF Wakeable(queue[q][i])
       THEN /\ WakeUp(c, q, i)
            /\ frame' = [frame EXCEPT ![current[c]] =
                            [op |-> "notify_one", q |-> q, resched |-> resched]]
       ELSE /\ TakeOut(q, i)
            /\ UNCHANGED <<state, on_cpu, need_resched, kstack, exit_code, frame, spawned,
                           released, cpuVars, lock, pc, mode>>

\* put_task_with_state once on_cpu is clear: the task enters the ready queue of the
\* waking CPU; with `resched` (which a waker always passes) the current task is marked.
Spin(c) ==
    LET t == current[c]
        q == frame[t].q IN
    /\ At(c, "spin")
    /\ ~on_cpu[waking[c]]
    /\ rq' = [rq EXCEPT ![c] = Enqueue(@, waking[c])]
    /\ waking' = [waking EXCEPT ![c] = None]
    /\ lock' = [lock EXCEPT ![q] = None]
    /\ need_resched' = IF frame[t].resched \/ q \in WakerQueues
                       THEN [need_resched EXCEPT ![t] = TRUE] ELSE need_resched
    /\ AfterWake(c)
    /\ UNCHANGED <<state, on_cpu, in_wait_queue, kstack, exit_code, spawned, released,
                   current, prev_task, pool, queue, mode>>

-----------------------------------------------------------------------------
(* Moving waiters to another queue.                                        *)

HandOf(c, q) == <<c, IF q \in WakerQueues THEN "wakers" ELSE "tasks">>

\* requeue, first part: under the lock of q the first n tasks leave it.  With none to
\* move the call returns without a change.
Requeue(c, q, target, n) ==
    /\ MayCall(c, "requeue")
    /\ q \in WakerQueues <=> target \in WakerQueues
    /\ lock[q] = None
    /\ n \in 1..Len(queue[q])
    /\ queue' = [queue EXCEPT ![q] = SubSeq(@, n + 1, Len(@)),
                              ![HandOf(c, q)] = SubSeq(queue[q], 1, n)]
    /\ frame' = [frame EXCEPT ![current[c]] =
                    [op |-> "requeue", q |-> target, resched |-> FALSE]]
    /\ Goto(c, "requeue")
    /\ UNCHANGED <<state, on_cpu, in_wait_queue, need_resched, kstack, exit_code, spawned,
                   released, cpuVars, lock, mode>>

\* Faulty variant of FinishRequeue: the target's queue is replaced.
FinishRequeueReplaces(c) ==
    LET t == current[c]
        q == frame[t].q IN
    /\ At(c, "requeue")
    /\ lock[q] = None
    /\ queue' = [queue EXCEPT ![q] = queue[HandOf(c, q)], ![HandOf(c, q)] = <<>>]
    /\ frame' = [frame EXCEPT ![t] = NoFrame]
    /\ Goto(c, "run")
    /\ UNCHANGED <<state, on_cpu, in_wait_queue, need_resched, kstack, exit_code, spawned,
                   released, cpuVars, lock, mode>>

\* Second part: under the lock of the target they join it.
FinishRequeue(c) ==
    LET t == current[c]
        q == frame[t].q IN
    /\ At(c, "requeue")
    /\ lock[q] = None
    /\ queue' = [queue EXCEPT ![q] = @ \o queue[HandOf(c, q)], ![HandOf(c, q)] = <<>>]
    /\ frame' = [frame EXCEPT ![t] = NoFrame]
    /\ Goto(c, "run")
    /\ UNCHANGED <<state, on_cpu, in_wait_queue, need_resched, kstack, exit_code, spawned,
                   released, cpuVars, lock, mode>>

-----------------------------------------------------------------------------
(* Exit.                                                                   *)

\* exit and ExitFuture: Main ends the program (main_task_exit does not return), any
\* other task becomes Exited before notify_exit runs.
Exit(c) ==
    LET t == current[c] IN
    /\ MayCall(c, "exit")
    /\ IF t = Main
       THEN mode' = "exited" /\ UNCHANGED <<state, frame, pc>>
       ELSE /\ state' = [state EXCEPT ![t] = "Exited"]
            /\ frame' = [frame EXCEPT ![t] = [op |-> "exit", q |-> t, resched |-> FALSE]]
            /\ Goto(c, "store")
            /\ UNCHANGED mode
    /\ UNCHANGED <<on_cpu, in_wait_queue, need_resched, kstack, exit_code, spawned, released,
                   cpuVars, queueVars>>

\* Faulty variant of StoreExitCode: nobody is notified.
StoreWithoutNotify(c) ==
    /\ At(c, "store")
    /\ exit_code' = [exit_code EXCEPT ![current[c]] = 1]
    /\ Goto(c, "resched")
    /\ UNCHANGED <<state, on_cpu, in_wait_queue, need_resched, kstack, frame, spawned, released,
                   cpuVars, queueVars, mode>>

\* notify_exit stores the code (any code but 0, the initial value, will do here).
StoreExitCode(c) ==
    /\ At(c, "store")
    /\ exit_code' = [exit_code EXCEPT ![current[c]] = 1]
    /\ Goto(c, "notify")
    /\ UNCHANGED <<state, on_cpu, in_wait_queue, need_resched, kstack, frame, spawned, released,
                   cpuVars, queueVars, mode>>

-----------------------------------------------------------------------------
(* The reschedule: resched and switch_to for a thread, resched_f and the   *)
(* rest of the loop of coroutine_schedule for a coroutine.                 *)

\* Faulty variant of Pick: the task stays in the ready queue.
PickPeeks(c) ==
    /\ need_resched' = [need_resched EXCEPT ![NextTask(c)] = FALSE]
    /\ state' = [state EXCEPT ![NextTask(c)] = "Running"]
    /\ UNCHANGED rq

\* Take the picked task out of the ready queue and make it Running.
Pick(c) ==
    LET next == NextTask(c) IN
    /\ rq' = IF rq[c] = <<>> THEN rq ELSE [rq EXCEPT ![c] = Tail(@)]
    /\ need_resched' = [need_resched EXCEPT ![next] = FALSE]
    /\ state' = [state EXCEPT ![next] = "Running"]

\* The task yielded to itself: switch_to and resched_f return early.  A thread still
\* goes through its resume point, a coroutine's future is Ready at once.
PickSelf(c) ==
    /\ At(c, "resched")
    /\ NextTask(c) = current[c]
    /\ Pick(c)
    /\ IF current[c] \in Coroutines THEN GoOn(c) ELSE Goto(c, "resume") /\ UNCHANGED frame
    /\ UNCHANGED <<on_cpu, in_wait_queue, kstack, exit_code, spawned, released,
                   current, prev_task, pool, waking, queueVars, mode>>

\* Faulty variant of PoolTake: the pool is not used.
PoolTakeNone(c) == pool

\* The pool of the CPU after it has given a stack: one it holds, or a new one.
PoolTake(c) == IF pool[c] > 0 THEN [pool EXCEPT ![c] = @ - 1] ELSE pool

\* A coroutine that a thread switches to gets a stack first (set_kstack).
PickOther(c) ==
    LET next == NextTask(c)
        needsStack == current[c] \notin Coroutines /\ next \in Coroutines /\ ~kstack[next] IN
    /\ At(c, "resched")
    /\ next # current[c]
    /\ \A d \in CPUs \ {c} : Executing(d) # next
    /\ Pick(c)
    /\ on_cpu' = [on_cpu EXCEPT ![next] = TRUE]
    /\ kstack' = IF needsStack THEN [kstack EXCEPT ![next] = TRUE] ELSE kstack
    /\ pool' = IF needsStack THEN PoolTake(c) ELSE pool
    /\ prev_task' = [prev_task EXCEPT ![c] = current[c]]
    /\ current' = [current EXCEPT ![c] = next]
    /\ Goto(c, "switch")
    /\ UNCHANGED <<in_wait_queue, exit_code, frame, spawned, released, waking, queueVars, mode>>

\* The picked task is still being executed by another CPU, which has not saved its
\* context: from here on two CPUs use one stack.  The model stops at this step.
PickWild(c) ==
    /\ At(c, "resched")
    /\ \E d \in CPUs \ {c} : Executing(d) = NextTask(c)
    /\ mode' = "wild"
    /\ UNCHANGED <<taskVars, cpuVars, queueVars, pc>>

\* The context switch.  A coroutine that is switched out gives up its stack, to the
\* next coroutine or to the pool.
Switch(c) ==
    LET prev == prev_task[c]
        next == current[c]
        handOff == next \in Coroutines /\ ~kstack[next] IN
    /\ At(c, "switch")
    /\ IF prev \in Coroutines
       THEN /\ kstack' = IF handOff THEN [kstack EXCEPT ![prev] = FALSE, ![next] = TRUE]
                         ELSE [kstack EXCEPT ![prev] = FALSE]
            /\ pool' = IF handOff THEN pool ELSE [pool EXCEPT ![c] = @ + 1]
       ELSE UNCHANGED <<kstack, pool>>
    /\ Goto(c, "resume")
    /\ UNCHANGED <<state, on_cpu, in_wait_queue, need_resched, exit_code, frame, spawned,
                   released, current, prev_task, rq, waking, queueVars, mode>>

\* Faulty variants of Resume: the flag of the wrong task is cleared; no flag is.
ResumeClearsCurrent(c) ==
    /\ At(c, "resume")
    /\ on_cpu' = [on_cpu EXCEPT ![current[c]] = FALSE]
    /\ Goto(c, "reap")
    /\ UNCHANGED <<state, in_wait_queue, need_resched, kstack, exit_code, frame, spawned,
                   released, cpuVars, queueVars, mode>>
ResumeClearsNone(c) ==
    /\ At(c, "resume")
    /\ Goto(c, "reap")
    /\ UNCHANGED <<taskVars, cpuVars, queueVars, mode>>

\* take_prev_task_and_clear_on_cpu.  It replaces prev_task by an uninitialized value,
\* a store the optimizer leaves out: a later take without a switch in between reads
\* the same task again.
Resume(c) ==
    /\ At(c, "resume")
    /\ on_cpu' = [on_cpu EXCEPT ![prev_task[c]] = FALSE]
    /\ Goto(c, "reap")
    /\ UNCHANGED <<state, in_wait_queue, need_resched, kstack, exit_code, frame, spawned,
                   released, cpuVars, queueVars, mode>>

\* The rest of every resume point: if the previous task has exited, drop the Arc that
\* spawn handed to the scheduler.
Reap(c) ==
    LET prev == prev_task[c] IN
    /\ At(c, "reap")
    /\ released' = IF state[prev] = "Exited" /\ released[prev] < MaxReleases
                   THEN [released EXCEPT ![prev] = @ + 1] ELSE released
    /\ GoOn(c)
    /\ UNCHANGED <<state, on_cpu, in_wait_queue, need_resched, kstack, exit_code, spawned,
                   cpuVars, queueVars, mode>>

-----------------------------------------------------------------------------
(* Steps of a CPU inside the library, and calls by user code. *)
LibStep(c) ==
    \/ CondThread(c) \/ CondCoroutine(c) \/ Block(c) \/ Cancel(c) \/ Pended(c)
    \/ NotifyEmpty(c) \/ NotifyWake(c) \/ NotifyLost(c) \/ Spin(c)
    \/ FinishRequeue(c) \/ StoreExitCode(c)
    \/ PickSelf(c) \/ PickOther(c) \/ PickWild(c) \/ Switch(c) \/ Resume(c) \/ Reap(c)

UserStep(c) ==
    \/ \E t \in UserTasks : Spawn(c, t)
    \/ Yield(c)
    \/ Exit(c)
    \/ \E q \in WaitQueues : Wait(c, q)
    \/ \E u \in UserTasks : Join(c, u)
    \/ \E call \in {"wait_until", "waker_until"}, q \in WaitQueues \cup WakerQueues :
          WaitUntil(c, call, q)
    \/ \E q \in WakerQueues : WakerWait(c, q)
    \/ \E call \in {"notify_one", "notify_all"}, q \in WaitQueues \cup WakerQueues,
          resched \in ReschedFlags : StartNotify(c, call, q, resched)
    \/ \E q \in WaitQueues, i \in 1..Cardinality(Tasks), resched \in ReschedFlags :
          NotifyTask(c, q, i, resched)
    \/ \E q, target \in WaitQueues \cup WakerQueues, n \in 1..Cardinality(Tasks) :
          Requeue(c, q, target, n)

\* The program has ended, or left what the code defines.
Stopped == mode # "up" /\ UNCHANGED vars

Next == (\E c \in CPUs : LibStep(c) \/ UserStep(c)) \/ Stopped

Spec == Init /\ [][Next]_vars

(* Every CPU goes on while it is inside the library, and run_idle is an    *)
(* endless loop.  Nothing is assumed about the code of the other tasks.    *)
IdleYield(c) == current[c] \in IdleTasks /\ Yield(c)

Fairness == \A c \in CPUs : WF_vars(LibStep(c)) /\ WF_vars(IdleYield(c))

FairSpec == Spec /\ Fairness

-----------------------------------------------------------------------------
(* Properties.                                                             *)

\* Every variable has its type.
TypeOK ==
    /\ state \in [Tasks -> States]
    /\ on_cpu \in [Tasks -> BOOLEAN]
    /\ in_wait_queue \in [Tasks -> BOOLEAN]
    /\ need_resched \in [Tasks -> BOOLEAN]
    /\ kstack \in [Tasks -> BOOLEAN]
    /\ exit_code \in [Tasks -> {0, 1}]
    /\ frame \in [Tasks -> Frames]
    /\ spawned \subseteq Tasks
    /\ released \in [Tasks -> 0..MaxReleases]
    /\ current \in [CPUs -> Tasks]
    /\ prev_task \in [CPUs -> Tasks]
    /\ rq \in [CPUs -> Seq(Tasks)]
    /\ pool \in [CPUs -> Nat]
    /\ pc \in [CPUs -> Labels]
    /\ waking \in [CPUs -> Tasks \cup {None}]
    /\ queue \in [Places -> Seq(Tasks)]
    /\ lock \in [Queues -> CPUs \cup {None}]
    /\ mode \in {"up", "exited", "wild"}

\* At this label, in this call, a CPU runs its current task: it is neither in the
\* reschedule that gives the task up nor in the code that ends it.
OwnAt(label, f) ==
    label # "resched" /\ ~(f.op = "exit" /\ label \in {"store", "notify", "spin"})

Own(c) == OwnAt(pc[c], frame[current[c]])

InRq(t) == \E c \in CPUs : \E i \in 1..Len(rq[c]) : rq[c][i] = t

InQueue(t, q) == \E i \in 1..Len(queue[q]) : queue[q][i] = t

Waking(t) == \E c \in CPUs : waking[c] = t

\* A task is Running exactly when one CPU has it as its current task and is not giving
\* it up: the states that resched and switch_to, the blocking calls, the exit calls and
\* remote wake-ups store agree with what the CPUs do.
RunningIsCurrent ==
    \A t \in Tasks :
        /\ state[t] = "Running" => \E c \in CPUs : Own(c) /\ current[c] = t
        /\ \A c, d \in CPUs : (current[c] = t /\ current[d] = t) => c = d
        /\ \A c \in CPUs : (Own(c) /\ current[c] = t) => state[t] = "Running"

\* The scheduler holds a task at most once: in one place of one ready queue, or with one
\* CPU that is waking it, and only while it is Ready; a queue holds a task at most once
\* and none that is Ready or Exited.
OnePlace ==
    /\ \A c, d \in CPUs : \A i \in 1..Len(rq[c]), j \in 1..Len(rq[d]) :
          rq[c][i] = rq[d][j] => c = d /\ i = j
    /\ \A c, d \in CPUs : waking[c] # None /\ waking[c] = waking[d] => c = d
    /\ \A p \in Places : \A i \in 1..Len(queue[p]) :
          \A q \in Places : \A j \in 1..Len(queue[q]) :
             queue[p][i] = queue[q][j] => p = q /\ i = j
    /\ \A t \in Tasks :
          /\ InRq(t) => state[t] = "Ready" /\ ~Waking(t)
          /\ Waking(t) => state[t] = "Ready"
          /\ \A q \in Places : InQueue(t, q) =>
                state[t] = "Blocked" \/ (q \in WakerPlaces /\ state[t] = "Running")

\* No assert! of the code fails: curr.is_running() in the calls that give up the CPU
\* (yield_current, blocked_resched, exit, ExitFuture), next.is_ready() in resched and
\* resched_f, resched_f returning true in ExitFuture.
AssertionsHold ==
    \A c \in CPUs :
        /\ pc[c] \in {"run", "cond", "block", "pended"} => state[current[c]] = "Running"
        /\ pc[c] = "resched" =>
              /\ state[NextTask(c)] = "Ready"
              /\ frame[current[c]].op = "exit" => NextTask(c) # current[c]

\* A Ready task is on its way to a CPU: in a ready queue, or about to be put into one.
NoReadyTaskLost ==
    \A t \in spawned \ IdleTasks : state[t] = "Ready" => InRq(t) \/ Waking(t)

\* A Blocked task can be woken: it is in a queue.
NoBlockedTaskLost ==
    \A t \in Tasks : state[t] = "Blocked" => \E q \in Places : InQueue(t, q)

\* A thread, which never blocks on a WakerQueue, is in a queue whenever it is Blocked.
NoBlockedThreadLost ==
    \A t \in Tasks \ Coroutines : state[t] = "Blocked" => \E q \in Places : InQueue(t, q)

\* The flag and the queues agree, so a wait that returns has been notified and
\* cancel_events finds nothing to remove.
InWaitQueueExact ==
    \A t \in Tasks : in_wait_queue[t] <=> \E q \in TaskPlaces : InQueue(t, q)

\* No lost wake-up in wait_until: a thread that waits for the exit of u, after u has become
\* Exited, is woken by u's own notify_exit, which has not finished.
ThreadJoinWoken ==
    \A t \in Tasks \ Coroutines, u \in Tasks :
        InQueue(t, u) /\ state[u] = "Exited" =>
            \E c \in CPUs : current[c] = u /\ pc[c] \in {"store", "notify", "spin"}

\* The scheduler never needs more than one stack per CPU for its coroutines: a CPU that
\* executes a coroutine has an empty pool, any other CPU at most one stack to spare.
OneStackPerCpu ==
    \A c \in CPUs :
        /\ pool[c] <= 1
        /\ Executing(c) \in Coroutines => pool[c] = 0 /\ kstack[Executing(c)]

\* on_cpu is set only for a task that a CPU is executing or has just switched away from,
\* so that the wait of put_task_with_state for a Blocked task ends.
OnCpuJustified ==
    \A t \in Tasks : on_cpu[t] =>
        \E c \in CPUs : current[c] = t \/ (pc[c] \in {"switch", "resume"} /\ prev_task[c] = t)

\* The lock of a queue is held by a CPU that is waking a task; if it still waits for that
\* task's on_cpu, another CPU is about to clear the flag and needs no lock for it.
LockHolderGetsOn ==
    \A q \in Queues : lock[q] # None =>
        LET c == lock[q] IN
        /\ pc[c] = "spin" /\ frame[current[c]].q = q
        /\ on_cpu[waking[c]] => \E d \in CPUs \ {c} :
              \/ pc[d] = "resched" /\ current[d] = waking[c]
              \/ pc[d] \in {"switch", "resume"} /\ prev_task[d] = waking[c]

\* A task that has exited is never run again: no late wake-up or reschedule revives it.
ExitedForever == [][\A t \in Tasks : state[t] = "Exited" => state'[t] = "Exited"]_vars

\* The view of TaskLifecycle: tasks that have not been handed over are New, and a CPU
\* whose current task is not Running is rescheduling.
lifecycle == [t \in Tasks |-> IF t \in spawned THEN state[t] ELSE "New"]

holder == [c \in CPUs |-> IF state[current[c]] = "Running" THEN current[c] ELSE None]

Life == INSTANCE TaskLifecycle WITH st <- lifecycle, running <- holder

\* The scheduler keeps the promise of TaskLifecycle: what spawn, yield, block, exit, wake
\* and resched do on many CPUs are steps in the life of one task at a time.
ImplementsLifecycle == Life!Spec

\* A wake-up that found its task Blocked ends: nobody waits for on_cpu for ever.
SpinEnds == \A c \in CPUs : pc[c] = "spin" ~> pc[c] # "spin" \/ mode # "up"

\* A thread that waits for a task that exits is made Ready.
JoinEnds ==
    \A t \in UserTasks \cup {Main} : \A u \in UserTasks \ {t} :
        InQueue(t, u) /\ state[u] = "Exited" ~> ~InQueue(t, u) \/ mode # "up"

\* A task that is put into the ready queue of an idle CPU gets that CPU.
IdleCpuPicksUp ==
    \A c \in CPUs : current[c] = idle_task[c] /\ rq[c] # <<>>
                        ~> current[c] # idle_task[c] \/ mode # "up"

-----------------------------------------------------------------------------
(* What comments of the code state and the code does not guarantee.        *)

\* "target task can not be insert into the run queue until it finishes its scheduling
\* process" (unblock_task): a task in the ready queue of one CPU is not executed by another.
ReadyQueueOffCpu ==
    \A c, d \in CPUs : \A i \in 1..Len(rq[c]) : Executing(d) = rq[c][i] => c = d

\* Resume points release the Arc of an exited task: when no CPU executes it any more.
ReleasedOffCpu == \A t \in Tasks, c \in CPUs : released[t] > 0 => Executing(c) # t

\* join returns the exit code: it has been stored when join goes on to load it.
JoinReturnsExitCode ==
    \A c \in CPUs : pc[c] = "cancel" /\ frame[current[c]].op = "join"
                        => exit_code[frame[current[c]].q] = 1

\* join_f waits until the task exits: no coroutine stays in the queue of a task whose
\* notify_exit is over.
CoroutineJoinWoken ==
    \A t \in Coroutines, u \in Tasks :
        InQueue(t, u) /\ state[u] = "Exited" =>
            \E c \in CPUs : current[c] = u /\ pc[c] \in {"store", "notify", "spin"}

-----------------------------------------------------------------------------
(* The inductive invariant behind RunningIsCurrent, OnePlace and the       *)
(* assertions of the code; its parts are proved together.                  *)

\* A CPU that has not given up its current task has it Running, and nobody else has it.
CpuInv ==
    /\ \A c, d \in CPUs : current[c] = current[d] => c = d
    /\ \A c \in CPUs : Own(c) => state[current[c]] = "Running"
    /\ \A t \in Tasks : state[t] = "Running" => \E c \in CPUs : Own(c) /\ current[c] = t
    /\ \A c \in CPUs : current[c] \in spawned

\* The queue that call f of task t is about is of the kind the call takes.
TargetFits(t, f) ==
    /\ f.op = "wait" => f.q \in WaitQueues
    /\ f.op = "join" => f.q \in UserTasks
    /\ f.op \in {"wait_until", "requeue"} => f.q \in WaitQueues \cup WakerQueues
    /\ f.op = "wait_until" /\ f.q \in WakerQueues => t \in Coroutines

\* What a task's saved call says agrees with where its CPU is and with its state.
FrameInv ==
    /\ \A t \in Tasks : frame[t].op = "exit" => state[t] = "Exited"
    /\ \A t \in Tasks : TargetFits(t, frame[t])
    /\ \A c \in CPUs : pc[c] = "store" => frame[current[c]].op = "exit"
    /\ \A c \in CPUs : pc[c] \in {"cond", "block"} => frame[current[c]].op \in {"join", "wait_until"}
    /\ \A c \in CPUs : pc[c] = "cancel" => frame[current[c]].op \in {"wait", "join", "wait_until"}
    /\ \A c \in CPUs : pc[c] = "requeue" => frame[current[c]].op = "requeue"
    /\ \A c \in CPUs : pc[c] \in {"store", "notify", "spin"} =>
                          /\ frame[current[c]].q \in Queues
                          /\ frame[current[c]].op \in {"exit", "notify_one", "notify_all"}

\* Ready queues hold Ready tasks, none twice; so does the hand of a waking CPU.
ReadyInv ==
    /\ \A c \in CPUs : \A i \in 1..Len(rq[c]) :
          rq[c][i] \in spawned \ IdleTasks /\ state[rq[c][i]] = "Ready"
    /\ \A c, d \in CPUs : \A i \in 1..Len(rq[c]), j \in 1..Len(rq[d]) :
          rq[c][i] = rq[d][j] => c = d /\ i = j
    /\ \A c \in CPUs : waking[c] # None <=> pc[c] = "spin"
    /\ \A c \in CPUs : waking[c] # None =>
          waking[c] \in spawned \ IdleTasks /\ state[waking[c]] = "Ready"
    /\ \A c, d \in CPUs : waking[c] # None /\ waking[c] = waking[d] => c = d
    /\ \A c, d \in CPUs : \A i \in 1..Len(rq[d]) : waking[c] # rq[d][i]

\* Only the Vec of a requeue that has not finished holds anything, and it is the one that
\* will be put into the target.
HandInv ==
    \A c \in CPUs, h \in Hands : h[1] = c /\ queue[h] # <<>> =>
        pc[c] = "requeue" /\ h = HandOf(c, frame[current[c]].q)

\* Wait queues hold Blocked tasks, none twice; a coroutine may still be on its way to
\* Blocked when its waker is already in a WakerQueue.
QueueInv ==
    /\ \A q \in Places : \A i \in 1..Len(queue[q]) :
          /\ queue[q][i] \in spawned \ IdleTasks
          /\ \/ state[queue[q][i]] = "Blocked"
             \/ /\ q \in WakerPlaces
                /\ \E c \in CPUs : current[c] = queue[q][i] /\ pc[c] = "pended"
    /\ \A p \in Places : \A i \in 1..Len(queue[p]) :
          \A q \in Places : \A j \in 1..Len(queue[q]) :
             queue[p][i] = queue[q][j] => p = q /\ i = j
    /\ HandInv

\* An idle task stays on its CPU and never blocks or exits; a task that has not been
\* spawned is Ready and, by the parts above, nowhere.
IdleInv ==
    /\ IdleTasks \cup {Main} \subseteq spawned
    /\ \A c \in CPUs : state[idle_task[c]] \in {"Ready", "Running"}
    /\ \A c, d \in CPUs : current[c] = idle_task[d] => c = d
    /\ \A c \in CPUs : current[c] \in IdleTasks =>
          pc[c] \in {"run", "resched", "switch", "resume", "reap"}
    /\ \A t \in IdleTasks : frame[t].op \in {"none", "yield"}
    /\ \A t \in Tasks \ spawned : state[t] = "Ready"

\* The conjunction, strong enough to be kept by every step of every CPU.
IInv == TypeOK /\ CpuInv /\ FrameInv /\ ReadyInv /\ QueueInv /\ IdleInv /\ InWaitQueueExact
=============================================================================

---------------------------- MODULE RRScheduler ----------------------------
(***************************************************************************)
(* scheduler/src/round_robin.rs: the preemptive round-robin scheduler of   *)
(* one CPU, driven through vsched/src/sched.rs.  Every task has a time     *)
(* slice that a timer tick decrements; a task that is preempted with some  *)
(* of it left goes to the front of the ready queue, every other task goes  *)
(* to the back with a fresh slice.  The ready queue is a LockFreeDeque,    *)
(* whose successful operations are atomic (ImplementsDeque in              *)
(* LockFreeDeque) and which keeps one of its slots free.                   *)
(***************************************************************************)
EXTENDS Integers, Sequences, FiniteSets, SequencesExt

CONSTANTS Tasks,           \* the tasks of the CPU, without its idle task
          Idle,            \* the idle task, which is never queued
          MAX_TIME_SLICE,
          CAPACITY         \* config::RQ_CAP, the slots of the deque

ASSUME SliceAssumption == MAX_TIME_SLICE \in Nat \ {0} /\ Idle \notin Tasks

ASSUME CapacityAssumption == CAPACITY \in Nat \ {0}

VARIABLES ready,       \* the ready queue, front first
          time_slice,  \* [Tasks -> remaining ticks]
          current,     \* PerCPU::current_task
          asleep,      \* blocked tasks
          fresh,       \* tasks not spawned yet
          share        \* history: [waiting task -> [task -> ticks it got meanwhile]]

vars == <<ready, time_slice, current, asleep, fresh, share>>

Queued == ToSet(ready)
NoShare == [u \in Tasks |-> 0]

Init ==
  /\ ready = <<>>
  /\ time_slice = [t \in Tasks |-> MAX_TIME_SLICE]
  /\ current = Idle
  /\ asleep = {}
  /\ fresh = Tasks
  /\ share = [t \in Tasks |-> NoShare]

-----------------------------------------------------------------------------
(* The ready queue                                                         *)

\* Faulty variant of Fits: one slot more is kept free.
FitsLess(q) == Len(q) + 2 < CAPACITY

\* A push is refused when the end it moves would meet the other one.
Fits(q) == Len(q) + 1 < CAPACITY

\* The scheduler ignores a refusal: the task is dropped.
push_back(q, t) == IF Fits(q) THEN Append(q, t) ELSE q
push_front(q, t) == IF Fits(q) THEN <<t>> \o q ELSE q

-----------------------------------------------------------------------------
(* RRScheduler                                                             *)

\* Faulty variants: a used-up slice is kept too; a preempted task goes to the
\* front even with a new slice; a new slice is added to the rest of the old.
KeepsEmptySlice(t, preempt) == preempt
PutFront(t, preempt) == IF preempt THEN push_front(ready, t) ELSE push_back(ready, t)
put_prev_adds(t, preempt) ==
  time_slice' = IF time_slice[t] > 0 /\ preempt THEN time_slice
                ELSE [time_slice EXCEPT ![t] = @ + MAX_TIME_SLICE]

\* The ready queue and the slices after put_prev_task(t, preempt).
KeepsSlice(t, preempt) == time_slice[t] > 0 /\ preempt
PutQueue(t, preempt) ==
  IF KeepsSlice(t, preempt) THEN push_front(ready, t) ELSE push_back(ready, t)
put_prev_task(t, preempt) ==
  time_slice' = IF KeepsSlice(t, preempt) THEN time_slice
                ELSE [time_slice EXCEPT ![t] = MAX_TIME_SLICE]

\* pick_next_task on the queue q, and the switch to the task it returns.
PickFrom(q) ==
  IF q = <<>>
  THEN current' = Idle /\ ready' = q /\ UNCHANGED share
  ELSE /\ current' = Head(q)
       /\ ready' = Tail(q)
       /\ share' = [share EXCEPT ![Head(q)] = NoShare]

-----------------------------------------------------------------------------
(* vsched::sched                                                           *)

\* spawn: add_task.
Spawn(t) ==
  /\ t \in fresh
  /\ fresh' = fresh \ {t}
  /\ ready' = push_back(ready, t)
  /\ UNCHANGED <<time_slice, current, asleep, share>>

\* yield_current and preempt_current: put the current task back and resched.
\* The idle task is not put back.
GiveUp(preempt) ==
  /\ IF current = Idle
     THEN UNCHANGED time_slice /\ PickFrom(ready)
     ELSE put_prev_task(current, preempt) /\ PickFrom(PutQueue(current, preempt))
  /\ UNCHANGED <<asleep, fresh>>

yield_current == GiveUp(FALSE)
preempt_current == GiveUp(TRUE)

\* The current task blocks: resched without putting it back.
Block ==
  /\ current # Idle
  /\ asleep' = asleep \cup {current}
  /\ PickFrom(ready)
  /\ UNCHANGED <<time_slice, fresh>>

\* unblock_task(t, resched), called on this CPU or on another one: the flag
\* is the preempt argument of put_prev_task either way.  (A local caller also
\* marks the current task, and the kernel then calls preempt_current.)
unblock_task(t, resched) ==
  /\ t \in asleep
  /\ asleep' = asleep \ {t}
  /\ ready' = PutQueue(t, resched)
  /\ put_prev_task(t, resched)
  /\ UNCHANGED <<current, fresh, share>>

\* The timer: task_tick(current) asks for a reschedule on the last tick of
\* the slice, and the kernel preempts the task before the next tick, so the
\* slice stays in 0..MAX_TIME_SLICE.  The idle task's own slice is not kept.
task_tick ==
  /\ current # Idle
  /\ time_slice[current] > 0
  /\ time_slice' = [time_slice EXCEPT ![current] = @ - 1]
  /\ share' = [t \in Tasks |->
                 IF t \in Queued THEN [share[t] EXCEPT ![current] = @ + 1] ELSE share[t]]
  /\ UNCHANGED <<ready, current, asleep, fresh>>

\* What the kernel does when task_tick returned true.
TickPreempts == current # Idle /\ time_slice[current] = 0 /\ preempt_current

Next == \/ \E t \in fresh : Spawn(t)
        \/ \E t \in asleep, resched \in BOOLEAN : unblock_task(t, resched)
        \/ yield_current \/ preempt_current \/ Block \/ task_tick

Spec == Init /\ [][Next]_vars

\* The timer goes on, an expired task is preempted, and run_idle yields.
FairSpec == /\ Spec
            /\ WF_vars(task_tick)
            /\ WF_vars(TickPreempts)
            /\ WF_vars(current = Idle /\ yield_current)

-----------------------------------------------------------------------------
(* Properties                                                              *)

Distinct(q) == \A i, j \in 1..Len(q) : q[i] = q[j] => i = j

TypeOK ==
  /\ ready \in Seq(Tasks)
  /\ time_slice \in [Tasks -> 0..MAX_TIME_SLICE]
  /\ current \in Tasks \cup {Idle}
  /\ asleep \subseteq Tasks /\ fresh \subseteq Tasks

\* A queued task has ticks left, whichever way it came into the queue: no
\* task is picked only to be preempted by its first tick.
QueuedHaveTicks == \A t \in Queued : time_slice[t] > 0

\* The inductive invariant behind it: a task is in one place, and a task that
\* was never queued still has its first slice.
IInv ==
  /\ TypeOK
  /\ Distinct(ready)
  /\ Queued \cap (asleep \cup fresh \cup {current}) = {}
  /\ asleep \cap (fresh \cup {current}) = {}
  /\ current \notin fresh
  /\ \A t \in Queued \cup fresh : time_slice[t] > 0

\* With more slots than tasks no task is dropped by the pushes whose results add_task and
\* put_prev_task ignore, in whatever order tasks yield, block, are spawned and woken: main and
\* RQ_CAP - 2 others are not too many (user_test/src/bin/spawn.rs:9).
HasRoom == IsFiniteSet(Tasks) /\ Cardinality(Tasks) < CAPACITY
NoTaskLost == HasRoom => Tasks \subseteq Queued \cup asleep \cup fresh \cup {current}

\* While a task waits in the queue no other task gets more ticks than one
\* time slice, in spite of preemptions, wake-ups to the front and yields.
FairShare == \A t, u \in Tasks : t \in Queued => share[t][u] <= MAX_TIME_SLICE

\* A queued task gets the CPU.
NoStarvation == \A t \in Tasks : t \in Queued ~> current = t
=============================================================================

---------------------------- MODULE CFScheduler ----------------------------
(***************************************************************************)
(* scheduler/src/cfs.rs: the completely fair scheduler of one CPU.  The    *)
(* ready queue is a map from (vruntime, id) to tasks; the CPU picks the    *)
(* smallest key.  min_vruntime is the vruntime a spawned task starts with  *)
(* and what task_tick compares the running task with.                      *)
(*                                                                         *)
(* The CPU that owns the queue ticks, picks and puts back; every CPU may   *)
(* spawn a task into the queue or wake one.  An operation on the map, and  *)
(* one on an atomic field, is one step; add_task and task_tick take        *)
(* several, and other CPUs come between them.  What the map itself does    *)
(* under concurrency is in LockFreeBTreeMap: here its operations are       *)
(* atomic, and a full one refuses an entry.                                *)
(***************************************************************************)
EXTENDS Integers, FiniteSets

CONSTANTS Callers,  \* CPUs that call into this queue
          Home,     \* the CPU that owns it
          Tasks, Idle, None,
          Nices,    \* nice values tried
          CAPACITY, \* config::RQ_CAP, the slots of the map
          MaxId,    \* bound on id_pool
          MaxVruntime  \* bound: no tick for a task that reached it

ASSUME CFSAssumption ==
  /\ Home \in Callers /\ Idle \notin Tasks /\ None \notin Tasks \cup Nat
  /\ Nices \subseteq -20..19 /\ 0 \in Nices
  /\ CAPACITY \in Nat \ {0}

VARIABLES ready_queue,   \* set of [vr, id, task]
          min_vruntime,  \* a vruntime or None
          id_pool,
          task,          \* [Tasks -> [init_vruntime, delta, nice, id]]
          current,       \* PerCPU::current_task
          asleep, fresh, \* blocked tasks; tasks not spawned yet
          pc,            \* per caller: next step of add_task or task_tick
          arg,           \* per caller: the task being added
          foreign        \* history: a CPU other than Home has spawned a task here

vars == <<ready_queue, min_vruntime, id_pool, task, current, asleep, fresh, pc, arg, foreign>>
locals == <<pc, arg>>

\* NICE2WEIGHT_POS and NICE2WEIGHT_NEG.
NICE2WEIGHT_POS == <<1024, 820, 655, 526, 423, 335, 272, 215, 172, 137, 110, 87,
                     70, 56, 45, 36, 29, 23, 18, 15>>
NICE2WEIGHT_NEG == <<1024, 1277, 1586, 1991, 2501, 3121, 3906, 4904, 6100, 7620,
                     9548, 11916, 14949, 18705, 23254, 29154, 36291, 46273, 56483,
                     71755, 88761>>
get_weight(nice) == IF nice >= 0 THEN NICE2WEIGHT_POS[nice + 1]
                    ELSE NICE2WEIGHT_NEG[1 - nice]

\* A tick weighs 1024 / weight; the delta is never negative.
vruntime_of(f) == f.init_vruntime + (f.delta * 1024) \div get_weight(f.nice)
get_vruntime(t) == vruntime_of(task[t])

\* Faulty variant of repriced: the delta is dropped.
repriced_drops(f, nice) == [f EXCEPT !.delta = 0, !.nice = nice]

\* CFSTask::set_priority: the vruntime so far becomes the initial one.
repriced(f, nice) ==
  [f EXCEPT !.init_vruntime = vruntime_of(f), !.delta = 0, !.nice = nice]

-----------------------------------------------------------------------------
(* The ready queue                                                         *)

Before(e, f) == e.vr < f.vr \/ (e.vr = f.vr /\ e.id < f.id)
First(q) == CHOOSE e \in q : \A f \in q \ {e} : Before(e, f)
first_vruntime == IF ready_queue = {} THEN None ELSE First(ready_queue).vr

\* insert replaces the value of an equal key, and stores nothing in a full map.  The
\* scheduler ignores what it returns.
Inserted(vr, id, t) ==
  LET others == {e \in ready_queue : ~(e.vr = vr /\ e.id = id)} IN
  IF Cardinality(others) < CAPACITY
  THEN others \cup {[vr |-> vr, id |-> id, task |-> t]} ELSE ready_queue

-----------------------------------------------------------------------------
Init ==
  /\ ready_queue = {}
  /\ min_vruntime = None
  /\ id_pool = 0
  /\ task = [t \in Tasks |-> [init_vruntime |-> 0, delta |-> 0, nice |-> 0, id |-> 0]]
  /\ current = Idle
  /\ asleep = {} /\ fresh = Tasks
  /\ pc = [c \in Callers |-> "idle"]
  /\ arg = [c \in Callers |-> None]
  /\ foreign = FALSE

Goto(c, l) == pc' = [pc EXCEPT ![c] = l]

-----------------------------------------------------------------------------
(* add_task                                                                *)

\* Faulty variant of SpawnStart: min_vruntime is not set when it is None.
SpawnStartUnset(c, t) ==
  /\ pc[c] = "idle" /\ t \in fresh /\ id_pool < MaxId
  /\ fresh' = fresh \ {t}
  /\ arg' = [arg EXCEPT ![c] = t]
  /\ foreign' = (foreign \/ c # Home)
  /\ Goto(c, "unwrap")
  /\ UNCHANGED <<ready_queue, min_vruntime, id_pool, task, current, asleep>>

SpawnStart(c, t) ==
  /\ pc[c] = "idle" /\ t \in fresh /\ id_pool < MaxId
  /\ fresh' = fresh \ {t}
  /\ arg' = [arg EXCEPT ![c] = t]
  /\ foreign' = (foreign \/ c # Home)
  /\ Goto(c, IF min_vruntime = None THEN "set_zero" ELSE "unwrap")
  /\ UNCHANGED <<ready_queue, min_vruntime, id_pool, task, current, asleep>>

SetZero(c) ==
  /\ pc[c] = "set_zero"
  /\ min_vruntime' = 0
  /\ Goto(c, "unwrap")
  /\ UNCHANGED <<ready_queue, id_pool, task, current, asleep, fresh, arg, foreign>>

\* min_vruntime.load().unwrap(), and the fields of the new task, which no one
\* else sees yet.
Unwrap(c) ==
  /\ pc[c] = "unwrap"
  /\ IF min_vruntime = None
     THEN Goto(c, "panic") /\ UNCHANGED <<task, id_pool>>
     ELSE /\ id_pool' = id_pool + 1
          /\ task' = [task EXCEPT ![arg[c]].init_vruntime = min_vruntime,
                                  ![arg[c]].id = id_pool]
          /\ Goto(c, "insert")
  /\ UNCHANGED <<ready_queue, min_vruntime, current, asleep, fresh, arg, foreign>>

InsertNew(c) ==
  /\ pc[c] = "insert"
  /\ LET t == arg[c] IN
     ready_queue' = Inserted(task[t].init_vruntime, task[t].id, t)
  /\ Goto(c, "first")
  /\ UNCHANGED <<min_vruntime, id_pool, task, current, asleep, fresh, arg, foreign>>

\* first_key_value; what it returned is stored in the next step.
FirstKey(c) ==
  /\ pc[c] = "first"
  /\ arg' = [arg EXCEPT ![c] = first_vruntime]
  /\ Goto(c, "store")
  /\ UNCHANGED <<ready_queue, min_vruntime, id_pool, task, current, asleep, fresh, foreign>>

StoreMin(c) ==
  /\ pc[c] = "store"
  /\ min_vruntime' = arg[c]
  /\ arg' = [arg EXCEPT ![c] = None]
  /\ Goto(c, "idle")
  /\ UNCHANGED <<ready_queue, id_pool, task, current, asleep, fresh, foreign>>

-----------------------------------------------------------------------------
(* put_prev_task and pick_next_task                                        *)

\* Faulty variants of put_prev_task: the old id is kept; the delta is not in
\* the key.
put_prev_old_id(t) ==
  /\ ready_queue' = Inserted(get_vruntime(t), task[t].id, t)
  /\ id_pool' = id_pool /\ task' = [task EXCEPT ![t].id = 0]
put_prev_no_delta(t) ==
  /\ id_pool < MaxId
  /\ id_pool' = id_pool + 1
  /\ task' = [task EXCEPT ![t].id = id_pool]
  /\ ready_queue' = Inserted(task[t].init_vruntime, id_pool, t)

\* put_prev_task: only the one who puts the task back touches it.
put_prev_task(t) ==
  /\ id_pool < MaxId
  /\ id_pool' = id_pool + 1
  /\ task' = [task EXCEPT ![t].id = id_pool]
  /\ ready_queue' = Inserted(get_vruntime(t), id_pool, t)

\* pick_next_task is a step of its own: others come between it and the
\* put_prev_task before it.
PutBack ==
  /\ pc[Home] = "idle" /\ current # Idle
  /\ put_prev_task(current)
  /\ Goto(Home, "pick")
  /\ UNCHANGED <<min_vruntime, current, asleep, fresh, arg, foreign>>

\* The blocked task stays the current one until the switch: unblock_task
\* spins on its on_cpu flag until then.
Block ==
  /\ pc[Home] = "idle" /\ current # Idle
  /\ asleep' = asleep \cup {current}
  /\ Goto(Home, "pick")
  /\ UNCHANGED <<ready_queue, min_vruntime, id_pool, task, current, fresh, arg, foreign>>

IdleYields ==
  /\ pc[Home] = "idle" /\ current = Idle
  /\ Goto(Home, "pick")
  /\ UNCHANGED <<ready_queue, min_vruntime, id_pool, task, current, asleep, fresh, arg, foreign>>

pick_next_task ==
  /\ pc[Home] = "pick"
  /\ IF ready_queue = {}
     THEN current' = Idle /\ UNCHANGED ready_queue
     ELSE /\ current' = First(ready_queue).task
          /\ ready_queue' = ready_queue \ {First(ready_queue)}
  /\ Goto(Home, "idle")
  /\ UNCHANGED <<min_vruntime, id_pool, task, asleep, fresh, arg, foreign>>

unblock_task(c, t) ==
  /\ pc[c] = "idle" /\ t \in asleep \ {current}
  /\ put_prev_task(t)
  /\ asleep' = asleep \ {t}
  /\ UNCHANGED <<min_vruntime, current, fresh, locals, foreign>>

-----------------------------------------------------------------------------
(* task_tick and set_priority, on the current task                         *)

\* One tick, and is_empty() on the queue.
TickStart ==
  /\ pc[Home] = "idle" /\ current # Idle /\ get_vruntime(current) < MaxVruntime
  /\ task' = [task EXCEPT ![current].delta = @ + 1]
  /\ Goto(Home, IF ready_queue = {} THEN "tick_false" ELSE "check")
  /\ UNCHANGED <<ready_queue, min_vruntime, id_pool, current, asleep, fresh, arg, foreign>>

\* min_vruntime.load().is_none()
Check ==
  /\ pc[Home] = "check"
  /\ Goto(Home, IF min_vruntime = None THEN "tick_true" ELSE "compare")
  /\ UNCHANGED <<ready_queue, min_vruntime, id_pool, task, current, asleep, fresh, arg, foreign>>

\* Faulty variant of Compare: the delta is not counted.
CompareInit ==
  /\ pc[Home] = "compare"
  /\ Goto(Home, IF min_vruntime = None THEN "tick_panic"
                ELSE IF task[current].init_vruntime > min_vruntime THEN "tick_true"
                ELSE "tick_false")
  /\ UNCHANGED <<ready_queue, min_vruntime, id_pool, task, current, asleep, fresh, arg, foreign>>

\* get_vruntime() > min_vruntime.load().unwrap()
Compare ==
  /\ pc[Home] = "compare"
  /\ Goto(Home, IF min_vruntime = None THEN "tick_panic"
                ELSE IF get_vruntime(current) > min_vruntime THEN "tick_true"
                ELSE "tick_false")
  /\ UNCHANGED <<ready_queue, min_vruntime, id_pool, task, current, asleep, fresh, arg, foreign>>

\* task_tick returns; when it returned true the kernel may reschedule next.
TickReturns ==
  /\ pc[Home] \in {"tick_true", "tick_false"}
  /\ Goto(Home, "idle")
  /\ UNCHANGED <<ready_queue, min_vruntime, id_pool, task, current, asleep, fresh, arg, foreign>>

set_priority(nice) ==
  /\ pc[Home] = "idle" /\ current # Idle
  /\ task' = [task EXCEPT ![current] = repriced(@, nice)]
  /\ UNCHANGED <<ready_queue, min_vruntime, id_pool, current, asleep, fresh, locals, foreign>>

Next ==
  \/ \E c \in Callers :
       \/ \E t \in fresh : SpawnStart(c, t)
       \/ SetZero(c) \/ Unwrap(c) \/ InsertNew(c) \/ FirstKey(c) \/ StoreMin(c)
       \/ \E t \in asleep : unblock_task(c, t)
  \/ PutBack \/ Block \/ IdleYields \/ pick_next_task
  \/ TickStart \/ Check \/ Compare \/ TickReturns
  \/ \E nice \in Nices : set_priority(nice)

Spec == Init /\ [][Next]_vars

-----------------------------------------------------------------------------
(* Properties                                                              *)

Labels == {"idle", "set_zero", "unwrap", "insert", "first", "store", "panic",
           "pick", "check", "compare", "tick_true", "tick_false", "tick_panic"}
AddSteps == {"set_zero", "unwrap", "insert", "panic"}

\* CFSTask, without the task inside it.
Fields == [init_vruntime : Nat, delta : Nat, nice : -20..19, id : Nat]

TypeOK ==
  /\ ready_queue \subseteq [vr : Nat, id : Nat, task : Tasks] /\ IsFiniteSet(ready_queue)
  /\ min_vruntime \in Nat \cup {None}
  /\ id_pool \in Nat
  /\ task \in [Tasks -> Fields]
  /\ current \in Tasks \cup {Idle}
  /\ asleep \subseteq Tasks /\ fresh \subseteq Tasks
  /\ pc \in [Callers -> Labels]
  /\ arg \in [Callers -> Tasks \cup Nat \cup {None}]
  /\ foreign \in BOOLEAN
  /\ \A c \in Callers : /\ pc[c] \in AddSteps => arg[c] \in Tasks
                        /\ pc[c] = "store" => arg[c] \in Nat \cup {None}

InQueue(t) == {e \in ready_queue : e.task = t}
Adding(t) == {c \in Callers : pc[c] \in {"set_zero", "unwrap", "insert", "panic"} /\ arg[c] = t}

\* A task is in one place: not spawned, being added, queued once, running or
\* asleep, as long as the map has a slot for every task.  Two equal keys would
\* make insert drop one of their tasks.
HasRoom == IsFiniteSet(Tasks) /\ Cardinality(Tasks) <= CAPACITY
TaskInOnePlace ==
  \A t \in Tasks :
    Cardinality(InQueue(t)) + Cardinality(Adding(t))
    + (IF t \in fresh THEN 1 ELSE 0) + (IF t \in asleep THEN 1 ELSE 0)
    + (IF t = current /\ pc[Home] # "pick" THEN 1 ELSE 0) = 1

\* The key a task waits under is the vruntime and the id it has now: ticks
\* and priority changes never reach a queued task.
QueuedKeysCurrent ==
  \A e \in ready_queue : e.vr = get_vruntime(e.task) /\ e.id = task[e.task].id

\* The vruntime of a spawned task never goes back, and set_priority alone
\* does not change it ("no change in vruntime").
VruntimeKept ==
  [][\A t \in Tasks \ fresh :
       /\ Adding(t) = {} => vruntime_of(task'[t]) >= get_vruntime(t)
       /\ task'[t].nice # task[t].nice => vruntime_of(task'[t]) = get_vruntime(t)]_vars

Decides(answer) == pc[Home] # answer /\ pc'[Home] = answer

\* task_tick does not decide on false while a queued task is ahead of the
\* current one, whatever the other CPUs wake meanwhile, until one of them spawns a
\* task here: min_vruntime, which nobody but add_task writes, does not move once
\* the CPU of the queue has set it.
TickSeesFirst ==
  [][Decides("tick_false") /\ ~foreign =>
       \A e \in ready_queue : vruntime_of(task'[current]) <= e.vr]_vars

\* Nor does an unwrap of min_vruntime in add_task or task_tick, each in a step after the
\* check for None, find None until then.
UnwrapSucceeds == ~foreign => \A c \in Callers : pc[c] \notin {"panic", "tick_panic"}
=============================================================================

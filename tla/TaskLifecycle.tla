---------------------------- MODULE TaskLifecycle -----------------------------
(***************************************************************************)
(* What the scheduler promises its users: the life of a task, without      *)
(* queues, contexts and stacks.  A task that has been handed over is       *)
(* Ready; a CPU that runs nothing takes any Ready task; only the running   *)
(* task itself gives its CPU up, to be Ready again, Blocked or Exited;     *)
(* somebody may wake a Blocked task; an Exited one is never seen again.    *)
(***************************************************************************)
CONSTANTS CPUs, Tasks, None

VARIABLES
    st,        \* where each task is in its life
    running    \* the task each CPU runs, or None while it reschedules

lifeVars == <<st, running>>

Stages == {"New", "Ready", "Running", "Blocked", "Exited"}

LifeTypeOK == st \in [Tasks -> Stages] /\ running \in [CPUs -> Tasks \cup {None}]

\* Every CPU starts with a boot task of its own; the other tasks are yet to come, or
\* Ready as the idle tasks are.
Init ==
    /\ st \in [Tasks -> {"New", "Ready", "Running"}]
    /\ running \in [CPUs -> Tasks]
    /\ \A c, d \in CPUs : running[c] = running[d] => c = d
    /\ \A t \in Tasks : st[t] = "Running" <=> \E c \in CPUs : running[c] = t

\* spawn
Create(t) ==
    /\ st[t] = "New"
    /\ st' = [st EXCEPT ![t] = "Ready"]
    /\ UNCHANGED running

\* The scheduler gives a CPU to a task.
Dispatch(c, t) ==
    /\ running[c] = None /\ st[t] = "Ready"
    /\ st' = [st EXCEPT ![t] = "Running"]
    /\ running' = [running EXCEPT ![c] = t]

\* The running task yields, blocks or exits.
GiveUp(c, s) ==
    /\ running[c] # None
    /\ st' = [st EXCEPT ![running[c]] = s]
    /\ running' = [running EXCEPT ![c] = None]

\* A notifier or a waker wakes a task.
Wake(t) ==
    /\ st[t] = "Blocked"
    /\ st' = [st EXCEPT ![t] = "Ready"]
    /\ UNCHANGED running

Next ==
    \/ \E t \in Tasks : Create(t) \/ Wake(t)
    \/ \E c \in CPUs, t \in Tasks : Dispatch(c, t)
    \/ \E c \in CPUs, s \in {"Ready", "Blocked", "Exited"} : GiveUp(c, s)

Spec == Init /\ [][Next]_lifeVars

=============================================================================

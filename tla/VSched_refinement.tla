-------------------------- MODULE VSched_refinement ---------------------------
(***************************************************************************)
(* VSched implements TaskLifecycle: every step of every CPU is one step in *)
(* the life of one task, or none.  The mapping reads only state, current   *)
(* and spawned, so the many steps that change none of them map to nothing. *)
(***************************************************************************)
EXTENDS VSched_proofs

\* A CPU owns its current task exactly when that task is Running.
LEMMA OwnIsRunning ==
    ASSUME IInv, NEW c \in CPUs
    PROVE  Own(c) <=> state[current[c]] = "Running"
  <1>1. current[c] \in Tasks
    BY CurrentFacts
  <1> QED BY <1>1 DEF IInv, CpuInv

\* The initial states are initial states of TaskLifecycle.
LEMMA InitRefines == Init => Life!Init
  <1> SUFFICES ASSUME Init PROVE Life!Init
    OBVIOUS
  <1>1. /\ \A c \in CPUs : BootTask(c) \in Tasks /\ BootTask(c) \in IdleTasks \cup {Main}
        /\ \A c, d \in CPUs : BootTask(c) = BootTask(d) => c = d
    BY TaskAssumption DEF BootTask, IdleTasks
  <1>2. /\ \A c \in CPUs : current[c] = BootTask(c) /\ state[current[c]] = "Running"
        /\ \A t \in Tasks : state[t] \in {"Ready", "Running"}
        /\ \A t \in Tasks : state[t] = "Running" <=> t \in BootTasks
    BY <1>1 DEF Init, BootTasks
  <1>3. holder \in [CPUs -> Tasks] /\ \A c \in CPUs : holder[c] = BootTask(c)
    BY <1>1, <1>2 DEF holder
  <1>4. \A t \in Tasks : lifecycle[t] = "Running" <=> t \in BootTasks
    BY <1>1, <1>2 DEF lifecycle, Init, BootTasks
  <1>5. lifecycle \in [Tasks -> {"New", "Ready", "Running"}]
    BY <1>2 DEF lifecycle
  <1> QED BY <1>1, <1>3, <1>4, <1>5 DEF Life!Init, BootTasks

\* A step that changes neither state, current nor spawned is a stutter.
LEMMA Stutter ==
    ASSUME UNCHANGED <<state, current, spawned>>
    PROVE  UNCHANGED Life!lifeVars
  BY DEF Life!lifeVars, lifecycle, holder

\* The running task gives up its CPU.
LEMMA GiveUpRefines ==
    ASSUME IInv, NEW c \in CPUs, NEW s \in {"Ready", "Blocked", "Exited"}, Own(c),
           state' = [state EXCEPT ![current[c]] = s],
           UNCHANGED <<current, spawned>>
    PROVE  Life!Next
  <1>1. /\ current[c] \in Tasks /\ state[current[c]] = "Running" /\ current[c] \in spawned
        /\ \A d \in CPUs : current[d] \in Tasks /\ (current[d] = current[c] => d = c)
        /\ current[c] # None
    BY TaskAssumption DEF IInv, CpuInv, TypeOK
  <1>2. \A t \in Tasks : state'[t] = IF t = current[c] THEN s ELSE state[t]
    BY DEF IInv, TypeOK
  <1>3. holder[c] = current[c]
    BY <1>1 DEF holder
  <1>4. lifecycle' = [lifecycle EXCEPT ![holder[c]] = s]
    BY <1>1, <1>2, <1>3 DEF lifecycle
  <1>5. holder' = [holder EXCEPT ![c] = None]
    <2>1. \A d \in CPUs : holder'[d] = IF d = c THEN None ELSE holder[d]
      BY <1>1, <1>2 DEF holder
    <2> QED BY <2>1 DEF holder
  <1>6. Life!GiveUp(c, s)
    BY <1>1, <1>3, <1>4, <1>5 DEF Life!GiveUp
  <1> QED BY <1>6 DEF Life!Next

\* The picked task starts to run.
LEMMA DispatchRefines ==
    ASSUME IInv, NEW c \in CPUs, pc[c] = "resched", Pick(c),
           \A d \in CPUs \ {c} : current[d] # NextTask(c),
           current' = [current EXCEPT ![c] = NextTask(c)],
           UNCHANGED spawned
    PROVE  Life!Next
  <1> DEFINE n == NextTask(c)
  <1>1. n \in spawned /\ n \in Tasks /\ state[n] = "Ready"
    BY NextTaskFacts
  <1>2. /\ \A t \in Tasks : state'[t] = IF t = n THEN "Running" ELSE state[t]
        /\ \A d \in CPUs : current'[d] = IF d = c THEN n ELSE current[d]
        /\ \A d \in CPUs : current[d] \in Tasks
        /\ \A d \in CPUs : d # c => current[d] # n
    BY DEF IInv, TypeOK, Pick
  <1>3. state[current[c]] # "Running"
    BY OwnIsRunning DEF Own, OwnAt
  <1> HIDE DEF n
  <1>4. holder[c] = None /\ lifecycle[n] = "Ready"
    BY <1>1, <1>3 DEF holder, lifecycle
  <1>5. lifecycle' = [lifecycle EXCEPT ![n] = "Running"]
    BY <1>1, <1>2 DEF lifecycle
  <1>6. holder' = [holder EXCEPT ![c] = n]
    <2>1. \A d \in CPUs : holder'[d] = IF d = c THEN n ELSE holder[d]
      BY <1>1, <1>2 DEF holder
    <2> QED BY <2>1 DEF holder
  <1>7. Life!Dispatch(c, n)
    BY <1>4, <1>5, <1>6 DEF Life!Dispatch
  <1> QED BY <1>1, <1>7 DEF Life!Next

\* A task that is handed to the scheduler is created.
LEMMA SpawnRefines ==
    ASSUME IInv, NEW c \in CPUs, NEW t \in UserTasks, Spawn(c, t)
    PROVE  Life!Next
  <1>1. /\ t \in Tasks /\ t \notin spawned /\ spawned' = spawned \cup {t}
        /\ UNCHANGED <<state, current>>
    BY DEF Spawn, UserTasks
  <1>2. state[t] = "Ready"
    BY <1>1 DEF IInv, IdleInv
  <1>3. lifecycle[t] = "New" /\ UNCHANGED holder
    BY <1>1 DEF lifecycle, holder
  <1>4. lifecycle' = [lifecycle EXCEPT ![t] = "Ready"]
    BY <1>1, <1>2 DEF lifecycle
  <1>5. Life!Create(t)
    BY <1>3, <1>4 DEF Life!Create
  <1> QED BY <1>1, <1>5 DEF Life!Next

\* A Blocked task that is taken off a queue is woken.
LEMMA WakeUpRefines ==
    ASSUME IInv, NEW c \in CPUs, NEW q \in Queues, NEW n \in 1..Len(queue[q]),
           WakeUp(c, q, n), state[queue[q][n]] = "Blocked"
    PROVE  Life!Next
  <1> DEFINE t == queue[q][n]
  <1>1. /\ state[t] = "Blocked" /\ TakeOut(q, n)
        /\ state' = [state EXCEPT ![t] = "Ready"]
        /\ UNCHANGED <<current, spawned>>
    BY DEF WakeUp
  <1>3. t \in spawned /\ t \in Tasks
    <2>1. t \in spawned
      BY <1>1, TakeOutFacts
    <2> QED BY <2>1 DEF IInv, TypeOK
  <1> HIDE DEF t
  <1>4. \A x \in Tasks : state'[x] = IF x = t THEN "Ready" ELSE state[x]
    BY <1>1 DEF IInv, TypeOK
  <1>5. \A d \in CPUs : current[d] \in Tasks
    BY DEF IInv, TypeOK
  <1>6. UNCHANGED holder
    <2>1. \A d \in CPUs : holder'[d] = holder[d]
      BY <1>1, <1>4, <1>5 DEF holder
    <2> QED BY <2>1 DEF holder
  <1>7. lifecycle[t] = "Blocked" /\ lifecycle' = [lifecycle EXCEPT ![t] = "Ready"]
    BY <1>1, <1>3, <1>4 DEF lifecycle
  <1>8. Life!Wake(t)
    BY <1>6, <1>7 DEF Life!Wake
  <1> QED BY <1>3, <1>8 DEF Life!Next

\* A step inside the library is a step of TaskLifecycle, or none.
LEMMA LibStepRefines ==
    ASSUME IInv, NEW c \in CPUs, LibStep(c)
    PROVE  [Life!Next]_(Life!lifeVars)
  <1> USE DEF At
  <1>1. CASE CondThread(c)
    <2>1. pc[c] = "cond" /\ Own(c)
      BY <1>1, CurrentFacts DEF CondThread, Own, OwnAt
    <2>2. \/ UNCHANGED <<state, current, spawned>>
          \/ state' = [state EXCEPT ![current[c]] = "Blocked"] /\ UNCHANGED <<current, spawned>>
      BY <1>1 DEF CondThread, BlockOn, taskVars, cpuVars
    <2> QED BY <2>1, <2>2, Stutter, GiveUpRefines
  <1>2. CASE Block(c)
    <2>1. Own(c)
      BY <1>2, CurrentFacts DEF Block, Own, OwnAt
    <2>2. \/ UNCHANGED <<state, current, spawned>>
          \/ state' = [state EXCEPT ![current[c]] = "Blocked"] /\ UNCHANGED <<current, spawned>>
      BY <1>2 DEF Block, BlockOn, LeaveWaker, cpuVars
    <2> QED BY <2>1, <2>2, Stutter, GiveUpRefines
  <1>3. CASE Pended(c)
    <2>1. Own(c)
      BY <1>3, CurrentFacts DEF Pended, Own, OwnAt
    <2> QED BY <1>3, <2>1, GiveUpRefines DEF Pended, cpuVars
  <1>4. CASE NotifyWake(c)
    <2> DEFINE q == frame[current[c]].q
    <2>1. q \in Queues /\ queue[q] # <<>>
      BY <1>4, CurrentFacts DEF NotifyWake
    <2>2. 1 \in 1..Len(queue[q])
      BY <2>1, PlaceFacts, TailFacts DEF IInv, TypeOK
    <2>3. WakeUp(c, q, 1) /\ state[queue[q][1]] = "Blocked"
      BY <1>4 DEF NotifyWake, Wakeable
    <2> QED BY <2>1, <2>2, <2>3, WakeUpRefines
  <1>5. CASE PickSelf(c)
    <2>1. /\ pc[c] = "resched" /\ NextTask(c) = current[c] /\ Pick(c)
          /\ UNCHANGED <<current, spawned>>
      BY <1>5 DEF PickSelf
    <2>2. /\ current' = [current EXCEPT ![c] = NextTask(c)]
          /\ \A d \in CPUs \ {c} : current[d] # NextTask(c)
      BY <2>1 DEF IInv, TypeOK, CpuInv
    <2> QED BY <2>1, <2>2, DispatchRefines
  <1>6. CASE PickOther(c)
    <2>1. /\ pc[c] = "resched" /\ Pick(c)
          /\ current' = [current EXCEPT ![c] = NextTask(c)]
          /\ UNCHANGED spawned
      BY <1>6 DEF PickOther
    <2>2. \A d \in CPUs \ {c} : current[d] # NextTask(c)
      BY <1>6, PickOtherFree
    <2> QED BY <2>1, <2>2, DispatchRefines
  <1>7. CASE CondCoroutine(c) \/ NotifyEmpty(c) \/ StoreExitCode(c) \/ PickWild(c)
    BY <1>7, Stutter DEF CondCoroutine, NotifyEmpty, StoreExitCode, PickWild, taskVars, cpuVars
  <1>8. CASE Cancel(c) \/ NotifyLost(c) \/ Spin(c) \/ FinishRequeue(c)
    BY <1>8, Stutter DEF Cancel, NotifyLost, Spin, FinishRequeue, cpuVars
  <1>9. CASE Switch(c) \/ Resume(c) \/ Reap(c)
    BY <1>9, Stutter DEF Switch, Resume, Reap, cpuVars
  <1> QED BY <1>1, <1>2, <1>3, <1>4, <1>5, <1>6, <1>7, <1>8, <1>9 DEF LibStep

\* A call by user code is a step of TaskLifecycle, or none.
LEMMA UserStepRefines ==
    ASSUME IInv, NEW c \in CPUs, UserStep(c)
    PROVE  [Life!Next]_(Life!lifeVars)
  <1> USE DEF MayCall, At
  <1>1. ASSUME NEW t \in UserTasks, Spawn(c, t) PROVE Life!Next
    BY <1>1, SpawnRefines
  <1>2. CASE Yield(c)
    <2>1. Own(c)
      BY <1>2, CurrentFacts DEF Yield, Own, OwnAt
    <2> QED BY <1>2, <2>1, GiveUpRefines DEF Yield
  <1>3. CASE Exit(c)
    <2>1. Own(c)
      BY <1>3, CurrentFacts DEF Exit, Own, OwnAt
    <2>2. \/ UNCHANGED <<state, current, spawned>>
          \/ state' = [state EXCEPT ![current[c]] = "Exited"] /\ UNCHANGED <<current, spawned>>
      BY <1>3 DEF Exit, cpuVars
    <2> QED BY <2>1, <2>2, Stutter, GiveUpRefines
  <1>4. ASSUME NEW q \in WaitQueues, Wait(c, q) PROVE Life!Next
    <2>1. Own(c)
      BY <1>4, CurrentFacts DEF Wait, Own, OwnAt
    <2> QED BY <1>4, <2>1, GiveUpRefines DEF Wait, BlockOn, cpuVars
  <1>5. ASSUME NEW u \in UserTasks, Join(c, u) PROVE UNCHANGED Life!lifeVars
    BY <1>5, Stutter DEF Join, cpuVars
  <1>6. ASSUME NEW q \in WakerQueues, WakerWait(c, q) PROVE UNCHANGED Life!lifeVars
    BY <1>6, Stutter DEF WakerWait, LeaveWaker, cpuVars
  <1>7. ASSUME NEW call \in {"notify_one", "notify_all"}, NEW q \in WaitQueues \cup WakerQueues,
               NEW r \in ReschedFlags, StartNotify(c, call, q, r)
        PROVE  UNCHANGED Life!lifeVars
    BY <1>7, Stutter DEF StartNotify, cpuVars
  <1>8. ASSUME NEW call, NEW q \in WaitQueues \cup WakerQueues, WaitUntil(c, call, q)
        PROVE  UNCHANGED Life!lifeVars
    BY <1>8, Stutter DEF WaitUntil, cpuVars
  <1>9. ASSUME NEW q \in WaitQueues \cup WakerQueues, NEW target \in WaitQueues \cup WakerQueues,
               NEW n, Requeue(c, q, target, n)
        PROVE  UNCHANGED Life!lifeVars
    BY <1>9, Stutter DEF Requeue, cpuVars
  <1>10. ASSUME NEW q \in WaitQueues, NEW i, NEW r \in ReschedFlags, NotifyTask(c, q, i, r)
         PROVE  Life!Next
    <2>1. q \in Queues /\ i \in 1..Len(queue[q])
      BY <1>10 DEF NotifyTask, Queues
    <2>2. state[queue[q][i]] = "Blocked"
      BY <2>1, PlaceFacts, QueueAssumption DEF IInv, QueueInv, Queues
    <2>3. WakeUp(c, q, i)
      BY <1>10, <2>2 DEF NotifyTask, Wakeable
    <2> QED BY <2>1, <2>2, <2>3, WakeUpRefines
  <1> QED BY <1>1, <1>2, <1>3, <1>4, <1>5, <1>6, <1>7, <1>8, <1>9, <1>10 DEF UserStep

LEMMA NextRefines == IInv /\ [Next]_vars => [Life!Next]_(Life!lifeVars)
  <1> SUFFICES ASSUME IInv, [Next]_vars PROVE [Life!Next]_(Life!lifeVars)
    OBVIOUS
  <1>1. CASE \E c \in CPUs : LibStep(c) \/ UserStep(c)
    BY <1>1, LibStepRefines, UserStepRefines
  <1>2. CASE UNCHANGED vars
    BY <1>2, Stutter DEF vars, taskVars, cpuVars
  <1> QED BY <1>1, <1>2 DEF Next, Stopped

\* For any number of CPUs, tasks and queues the scheduler is an implementation of
\* TaskLifecycle: no interleaving of the calls of several CPUs shows a user a task that
\* runs twice, starts without being Ready, or comes back from Exited.
THEOREM LifecycleImplemented == Spec => ImplementsLifecycle
  BY InitRefines, NextRefines, Invariance, PTL DEF Spec, ImplementsLifecycle, Life!Spec

\* An exited task stays Exited: TaskLifecycle has no step out of that stage.
THEOREM NoRevival == Spec => ExitedForever
  <1>1. ASSUME IInv, IInv', [Life!Next]_(Life!lifeVars)
        PROVE  \A t \in Tasks : state[t] = "Exited" => state'[t] = "Exited"
    <2> SUFFICES ASSUME NEW t \in Tasks, state[t] = "Exited" PROVE state'[t] = "Exited"
      OBVIOUS
    <2>1. lifecycle[t] = "Exited"
      BY <1>1 DEF lifecycle, IInv, IdleInv
    <2>2. \A c \in CPUs : holder[c] # t
      BY <2>1, TaskAssumption DEF holder
    <2>3. lifecycle'[t] = "Exited"
      BY <1>1, <2>1, <2>2 DEF Life!Next, Life!Create, Life!Wake, Life!Dispatch, Life!GiveUp,
                              Life!lifeVars, lifecycle
    <2> QED BY <2>3 DEF lifecycle
  <1>2. IInv /\ IInv' /\ [Next]_vars
            => [\A t \in Tasks : state[t] = "Exited" => state'[t] = "Exited"]_vars
    BY <1>1, NextRefines
  <1> QED BY <1>2, Invariance, PTL DEF Spec, ExitedForever

=============================================================================

--------------------------- MODULE VSched_handover ---------------------------
(***************************************************************************)
(* Proofs about VSched, second part: how CPUs hand over tasks, stacks and  *)
(* locks (on_cpu, kstack, the lock of a queue), and that no waiter and no  *)
(* Ready task is lost.  WInv is kept by every step from a state in which   *)
(* IInv holds; its parts are proved one after the other, each from the few *)
(* kinds of step that can disturb it.                                      *)
(***************************************************************************)
EXTENDS VSched_proofs, FiniteSetTheorems

-----------------------------------------------------------------------------
(* What the properties proved here need beside IInv                        *)

\* No two CPUs execute one task, nor does a CPU execute what another switches to.
ExecInv ==
    /\ \A c, d \in CPUs : Executing(c) = Executing(d) => c = d
    /\ \A c, d \in CPUs : pc[c] = "switch" => Executing(d) # current[c]

\* A thread has given the coroutine that its CPU switches to a stack already.
Equipped(c) == pc[c] = "switch" /\ current[c] \in Coroutines /\ prev_task[c] \notin Coroutines

\* Every stack in use is under a coroutine that a CPU executes or switches to.
StackInv ==
    /\ OneStackPerCpu
    /\ \A c \in CPUs : Equipped(c) => pool[c] = 0 /\ kstack[current[c]]
    /\ \A t \in Tasks : kstack[t] =>
          /\ t \in Coroutines
          /\ \E c \in CPUs : Executing(c) = t \/ (Equipped(c) /\ current[c] = t)

LockInv == \A q \in Queues : lock[q] # None => pc[lock[q]] = "spin" /\ frame[current[lock[q]]].q = q

\* An exited task has only its own notify_exit to finish; only coroutines are between the
\* check and the enqueue of a wait.
JoinInv ==
    /\ \A t \in Tasks : state[t] = "Exited" => frame[t].op = "exit" /\ frame[t].q = t
    /\ \A c \in CPUs : pc[c] = "block" => current[c] \in Coroutines
    /\ ThreadJoinWoken

\* A task that is Blocked is in a WaitQueue, or is a coroutine that has left its waker in a
\* WakerQueue, where it need not be any more.
BlockedInv ==
    /\ \A c \in CPUs : pc[c] = "pended" =>
          current[c] \in Coroutines /\ frame[current[c]].q \in WakerQueues
    /\ \A t \in Tasks : state[t] = "Blocked" =>
          in_wait_queue[t] \/ (t \in Coroutines /\ frame[t].q \in WakerQueues)

\* The conjunction, kept by every step from a state in which IInv holds.
WInv == ExecInv /\ StackInv /\ OnCpuJustified /\ LockInv /\ JoinInv /\ BlockedInv

-----------------------------------------------------------------------------
(* Who executes what: on_cpu and the stacks of coroutines.                 *)

\* A step that hands nothing over: no CPU comes to a switch or leaves a resume point.
Quiet ==
    /\ UNCHANGED <<on_cpu, kstack, current, prev_task, pool>>
    /\ \A d \in CPUs :
          pc'[d] = pc[d] \/ (pc[d] \notin {"switch", "resume"} /\ pc'[d] # "switch")

\* Only a reschedule to another task, the context switch and the resume point hand over.
LEMMA LibStepQuiet ==
    ASSUME IInv, NEW c \in CPUs, LibStep(c)
    PROVE  Quiet \/ PickOther(c) \/ Switch(c) \/ Resume(c)
  <1> USE DEF At, Goto, taskVars, cpuVars, queueVars
  <1>0. pc \in [CPUs -> Labels]
    BY DEF IInv, TypeOK
  <1>1. ASSUME NEW l, pc' = [pc EXCEPT ![c] = l], l # "switch",
               pc[c] \notin {"switch", "resume"},
               UNCHANGED <<on_cpu, kstack, current, prev_task, pool>>
        PROVE  Quiet
    BY <1>0, <1>1 DEF Quiet
  <1>2. ASSUME CondThread(c) \/ CondCoroutine(c) \/ Block(c) \/ Cancel(c) \/ Pended(c)
        PROVE  Quiet
    BY <1>1, <1>2 DEF CondThread, CondCoroutine, Block, BlockOn, LeaveWaker, Cancel, Pended
  <1>3. ASSUME NotifyEmpty(c) \/ NotifyWake(c) \/ FinishRequeue(c) \/ StoreExitCode(c)
        PROVE  Quiet
    BY <1>1, <1>3 DEF NotifyEmpty, NotifyWake, WakeUp, FinishRequeue, StoreExitCode
  <1>4. ASSUME NotifyLost(c) \/ Spin(c)
        PROVE  Quiet
    BY <1>1, <1>4 DEF NotifyLost, Spin, AfterWake
  <1>5. ASSUME PickSelf(c) \/ Reap(c)
        PROVE  Quiet
    <2>1. GoOn(c) => pc' = [pc EXCEPT ![c] = Continue(frame[current[c]])]
                     /\ Continue(frame[current[c]]) # "switch"
      BY GoOnFacts
    <2> QED BY <1>1, <1>5, <2>1 DEF PickSelf, Reap
  <1>6. ASSUME PickWild(c)
        PROVE  Quiet
    BY <1>6 DEF PickWild, Quiet
  <1> QED BY <1>2, <1>3, <1>4, <1>5, <1>6 DEF LibStep

\* A call by user code hands nothing over.
LEMMA UserStepQuiet ==
    ASSUME IInv, NEW c \in CPUs, UserStep(c)
    PROVE  Quiet
  <1> USE DEF MayCall, At, Goto, taskVars, cpuVars, queueVars
  <1>0. pc \in [CPUs -> Labels]
    BY DEF IInv, TypeOK
  <1>1. ASSUME NEW l, pc' = [pc EXCEPT ![c] = l], l # "switch", pc[c] = "run",
               UNCHANGED <<on_cpu, kstack, current, prev_task, pool>>
        PROVE  Quiet
    BY <1>0, <1>1 DEF Quiet
  <1>2. ASSUME UNCHANGED <<on_cpu, kstack, current, prev_task, pool, pc>>
        PROVE  Quiet
    BY <1>2 DEF Quiet
  <1>3. ASSUME \E t \in UserTasks : Spawn(c, t) PROVE Quiet
    BY <1>2, <1>3 DEF Spawn
  <1>4. ASSUME Yield(c) \/ Exit(c) PROVE Quiet
    BY <1>1, <1>2, <1>4 DEF Yield, Exit
  <1>5. ASSUME \E q \in WaitQueues : Wait(c, q) PROVE Quiet
    BY <1>1, <1>5 DEF Wait, BlockOn
  <1>6. ASSUME \E u \in UserTasks : Join(c, u) PROVE Quiet
    BY <1>1, <1>6 DEF Join
  <1>7. ASSUME NEW call, NEW q, NEW r,
               WaitUntil(c, call, q) \/ StartNotify(c, call, q, r)
        PROVE  Quiet
    BY <1>1, <1>7 DEF WaitUntil, StartNotify
  <1>8. ASSUME \E q \in WakerQueues : WakerWait(c, q) PROVE Quiet
    BY <1>1, <1>8 DEF WakerWait, LeaveWaker
  <1>9. ASSUME NEW q, NEW i, NEW r, NotifyTask(c, q, i, r) PROVE Quiet
    BY <1>1, <1>2, <1>9 DEF NotifyTask, WakeUp
  <1>10. ASSUME NEW q, NEW target, NEW n, Requeue(c, q, target, n) PROVE Quiet
    BY <1>1, <1>10 DEF Requeue
  <1> QED BY <1>3, <1>4, <1>5, <1>6, <1>7, <1>8, <1>9, <1>10 DEF UserStep

\* What a handover leaves behind, as one formula.
HandoverInv == ExecInv /\ StackInv /\ OnCpuJustified

\* A quiet step changes neither who executes what nor who needs a stack.
LEMMA QuietHandover ==
    ASSUME IInv, HandoverInv, Quiet
    PROVE  HandoverInv'
  <1>1. \A d \in CPUs : pc'[d] = "switch" <=> pc[d] = "switch"
    BY DEF Quiet
  <1>2. UNCHANGED <<on_cpu, kstack, current, prev_task, pool>>
    BY DEF Quiet
  <1>3. \A d \in CPUs : Executing(d)' = Executing(d) /\ (Equipped(d)' <=> Equipped(d))
    BY <1>1, <1>2 DEF Executing, Equipped
  <1>4. ExecInv'
    BY <1>1, <1>2, <1>3 DEF HandoverInv, ExecInv
  <1>5. StackInv'
    BY <1>2, <1>3 DEF HandoverInv, StackInv, OneStackPerCpu
  <1>6. OnCpuJustified'
    BY <1>2 DEF HandoverInv, OnCpuJustified, Quiet
  <1> QED BY <1>4, <1>5, <1>6 DEF HandoverInv

\* A stack that is in use is not free to be taken: a task that no CPU executes or switches
\* to has none.
LEMMA NoIdleStack ==
    ASSUME StackInv, NEW t \in Tasks,
           \A d \in CPUs : Executing(d) # t /\ (Equipped(d) => current[d] # t)
    PROVE  ~kstack[t]
  BY DEF StackInv

\* A CPU that switches to another task goes on executing the one it had.
LEMMA PickOtherHandover ==
    ASSUME IInv, HandoverInv, NEW c \in CPUs, PickOther(c)
    PROVE  HandoverInv'
  <1> DEFINE n == NextTask(c)
             cur == current[c]
             needsStack == cur \notin Coroutines /\ n \in Coroutines /\ ~kstack[n]
  <1>1. /\ n \in Tasks /\ cur \in Tasks
        /\ \A d \in CPUs : current[d] # n
        /\ \A d \in CPUs : Executing(d) # n
    BY NextTaskFacts, PickOtherFree DEF PickOther, At, Executing, IInv, TypeOK
  <1>2. /\ pc[c] = "resched"
        /\ \A d \in CPUs : pc'[d] = IF d = c THEN "switch" ELSE pc[d]
        /\ \A d \in CPUs : current'[d] = IF d = c THEN n ELSE current[d]
        /\ \A d \in CPUs : prev_task'[d] = IF d = c THEN cur ELSE prev_task[d]
        /\ \A t \in Tasks : on_cpu'[t] = IF t = n THEN TRUE ELSE on_cpu[t]
    BY DEF PickOther, At, Goto, IInv, TypeOK
  <1>3. /\ kstack' = IF needsStack THEN [kstack EXCEPT ![n] = TRUE] ELSE kstack
        /\ pool' = IF needsStack THEN PoolTake(c) ELSE pool
        /\ kstack \in [Tasks -> BOOLEAN] /\ pool \in [CPUs -> Nat]
    BY DEF PickOther, IInv, TypeOK
  <1>4. ~kstack[n]
    BY <1>1, NoIdleStack DEF HandoverInv
  <1> HIDE DEF n, cur
  <1>5. \A d \in CPUs : Executing(d)' = Executing(d)
    BY <1>2 DEF Executing, cur
  <1>6. \A d \in CPUs \ {c} : Equipped(d)' <=> Equipped(d)
    BY <1>2 DEF Equipped
  <1>7. ~Equipped(c) /\ Executing(c) = cur /\ (Equipped(c)' <=> n \in Coroutines /\ cur \notin Coroutines)
    BY <1>2 DEF Equipped, Executing, cur
  <1>8. ExecInv'
    BY <1>1, <1>2, <1>5 DEF HandoverInv, ExecInv
  <1>9. StackInv'
    <2>1. \A d \in CPUs : pool[d] \in Nat /\ pool[d] <= 1
      BY <1>3 DEF HandoverInv, StackInv, OneStackPerCpu
    <2>2. CASE needsStack
      <3>1. \A t \in Tasks : kstack'[t] = IF t = n THEN TRUE ELSE kstack[t]
        BY <1>1, <1>3, <2>2
      <3>2. \A d \in CPUs : pool'[d] = IF d = c THEN 0 ELSE pool[d]
        BY <1>3, <2>1, <2>2 DEF PoolTake
      <3>3. OneStackPerCpu'
        <4> SUFFICES ASSUME NEW d \in CPUs
                     PROVE  /\ pool'[d] <= 1
                            /\ Executing(d)' \in Coroutines => pool'[d] = 0 /\ kstack'[Executing(d)']
          BY DEF OneStackPerCpu
        <4>1. Executing(d) \in Tasks
          BY DEF Executing, IInv, TypeOK
        <4>2. Executing(d) \in Coroutines => pool[d] = 0 /\ kstack[Executing(d)]
          BY DEF HandoverInv, StackInv, OneStackPerCpu
        <4>3. pool'[d] <= 1 /\ (Executing(d) \in Coroutines => pool'[d] = 0)
          BY <2>1, <3>2, <4>2
        <4>4. Executing(d) \in Coroutines => kstack'[Executing(d)]
          BY <3>1, <4>1, <4>2
        <4> QED BY <1>5, <4>3, <4>4
      <3>4. ASSUME NEW d \in CPUs, Equipped(d)' PROVE pool'[d] = 0 /\ kstack'[current'[d]]
        <4>1. CASE d = c
          BY <1>1, <1>2, <3>1, <3>2, <4>1
        <4>2. CASE d # c
          <5>1. Equipped(d) /\ current'[d] = current[d] /\ current[d] \in Tasks
            BY <1>2, <1>6, <3>4, <4>2 DEF IInv, TypeOK
          <5> QED BY <3>1, <3>2, <4>2, <5>1 DEF HandoverInv, StackInv
        <4> QED BY <4>1, <4>2
      <3>5. ASSUME NEW t \in Tasks, kstack'[t]
            PROVE  t \in Coroutines /\ \E d \in CPUs : Executing(d)' = t \/ (Equipped(d)' /\ current'[d] = t)
        <4>1. CASE t = n
          BY <1>2, <1>7, <2>2, <4>1
        <4>2. CASE t # n
          <5>1. kstack[t]
            BY <3>1, <3>5, <4>2
          <5>2. t \in Coroutines /\ \E d \in CPUs : Executing(d) = t \/ (Equipped(d) /\ current[d] = t)
            BY <5>1 DEF HandoverInv, StackInv
          <5> QED BY <1>2, <1>5, <1>6, <1>7, <5>2
        <4> QED BY <4>1, <4>2
      <3> QED BY <3>3, <3>4, <3>5 DEF StackInv
    <2>3. CASE ~needsStack
      <3>1. UNCHANGED <<kstack, pool>>
        BY <1>3, <2>3
      <3>2. ~Equipped(c)'
        BY <1>4, <1>7, <2>3
      <3>3. OneStackPerCpu'
        BY <1>5, <3>1 DEF HandoverInv, StackInv, OneStackPerCpu
      <3> QED BY <1>2, <1>5, <1>6, <1>7, <3>1, <3>2, <3>3 DEF HandoverInv, StackInv
    <2> QED BY <2>2, <2>3
  <1>10. OnCpuJustified'
    <2> SUFFICES ASSUME NEW t \in Tasks, on_cpu'[t]
                 PROVE  \E d \in CPUs :
                           current'[d] = t \/ (pc'[d] \in {"switch", "resume"} /\ prev_task'[d] = t)
      BY DEF OnCpuJustified
    <2>1. CASE t = n
      BY <1>2, <2>1
    <2>2. CASE t # n
      <3>1. on_cpu[t]
        BY <1>2, <2>2
      <3>2. PICK d \in CPUs : current[d] = t \/ (pc[d] \in {"switch", "resume"} /\ prev_task[d] = t)
        BY <3>1 DEF HandoverInv, OnCpuJustified
      <3> QED BY <1>2, <3>2 DEF cur
    <2> QED BY <2>1, <2>2
  <1> QED BY <1>8, <1>9, <1>10 DEF HandoverInv

\* The context switch takes the stack of a coroutine that is switched out.
LEMMA SwitchHandover ==
    ASSUME IInv, HandoverInv, NEW c \in CPUs, Switch(c)
    PROVE  HandoverInv'
  <1> DEFINE prev == prev_task[c]
             next == current[c]
             handOff == next \in Coroutines /\ ~kstack[next]
  <1>1. /\ prev \in Tasks /\ next \in Tasks /\ pc[c] = "switch"
        /\ \A d \in CPUs : pc'[d] = IF d = c THEN "resume" ELSE pc[d]
        /\ UNCHANGED <<on_cpu, current, prev_task>>
        /\ kstack \in [Tasks -> BOOLEAN] /\ pool \in [CPUs -> Nat]
    BY DEF Switch, At, Goto, IInv, TypeOK
  <1>2. /\ Executing(c) = prev /\ Executing(c)' = next
        /\ \A d \in CPUs \ {c} : Executing(d)' = Executing(d)
        /\ \A d \in CPUs \ {c} : Equipped(d)' <=> Equipped(d)
        /\ ~Equipped(c)'
        /\ Equipped(c) <=> next \in Coroutines /\ prev \notin Coroutines
    BY <1>1 DEF Executing, Equipped
  <1>3. /\ \A d \in CPUs : Executing(d) # next
        /\ \A d \in CPUs \ {c} : Executing(d) # prev
        /\ \A d \in CPUs : pc[d] = "switch" => current[d] # prev
        /\ \A d \in CPUs \ {c} : current[d] # next
    BY <1>1, <1>2 DEF HandoverInv, ExecInv, IInv, CpuInv
  <1>4. ExecInv'
    <2>1. \A d, e \in CPUs : Executing(d)' = Executing(e)' => d = e
      BY <1>2, <1>3 DEF HandoverInv, ExecInv
    <2>2. \A d, e \in CPUs : pc'[d] = "switch" => Executing(e)' # current'[d]
      BY <1>1, <1>2, <1>3 DEF HandoverInv, ExecInv
    <2> QED BY <2>1, <2>2 DEF ExecInv
  <1>5. StackInv'
    <2>1. CASE prev \in Coroutines
      <3>1. pool[c] = 0 /\ kstack[prev]
        BY <1>2, <2>1 DEF HandoverInv, StackInv, OneStackPerCpu
      <3>2. ~kstack[next]
        BY <1>1, <1>2, <1>3, <2>1, NoIdleStack DEF HandoverInv
      <3>3. \A t \in Tasks : kstack'[t] = IF t = prev THEN FALSE
                                         ELSE IF t = next /\ next \in Coroutines THEN TRUE ELSE kstack[t]
        BY <1>1, <1>3, <2>1, <3>2 DEF Switch
      <3>4. \A d \in CPUs : pool'[d] = IF d = c /\ next \notin Coroutines THEN 1 ELSE pool[d]
        BY <1>1, <2>1, <3>1, <3>2 DEF Switch
      <3>5. next # prev
        BY <1>1, <1>3
      <3>6. OneStackPerCpu'
        <4> SUFFICES ASSUME NEW d \in CPUs
                     PROVE  /\ pool'[d] <= 1
                            /\ Executing(d)' \in Coroutines => pool'[d] = 0 /\ kstack'[Executing(d)']
          BY DEF OneStackPerCpu
        <4>1. CASE d = c
          <5>1. pool'[c] = IF next \notin Coroutines THEN 1 ELSE 0
            BY <3>1, <3>4
          <5>2. next \in Coroutines => kstack'[next]
            BY <1>1, <3>3, <3>5
          <5>3. Executing(d)' = next
            BY <1>2, <4>1
          <5> HIDE DEF next
          <5> QED BY <4>1, <5>1, <5>2, <5>3
        <4>2. CASE d # c
          <5>1. Executing(d) \in Tasks /\ Executing(d) # prev
            BY <1>3, <4>2 DEF Executing, IInv, TypeOK
          <5>2. /\ pool[d] <= 1
                /\ Executing(d) \in Coroutines => pool[d] = 0 /\ kstack[Executing(d)]
            BY DEF HandoverInv, StackInv, OneStackPerCpu
          <5>3. Executing(d)' = Executing(d) /\ pool'[d] = pool[d]
            BY <1>2, <3>4, <4>2
          <5>4. kstack[Executing(d)] => kstack'[Executing(d)]
            BY <3>3, <5>1
          <5> QED BY <5>2, <5>3, <5>4
        <4> QED BY <4>1, <4>2
      <3>7. ASSUME NEW d \in CPUs, Equipped(d)' PROVE pool'[d] = 0 /\ kstack'[current'[d]]
        <4>1. Equipped(d) /\ d # c /\ pc[d] = "switch"
          BY <1>2, <3>7 DEF Equipped
        <4>2. current[d] # prev /\ current[d] \in Tasks
          BY <1>3, <4>1 DEF IInv, TypeOK
        <4> QED BY <1>1, <3>3, <3>4, <4>1, <4>2 DEF HandoverInv, StackInv
      <3>8. ASSUME NEW t \in Tasks, kstack'[t]
            PROVE  t \in Coroutines /\ \E d \in CPUs : Executing(d)' = t \/ (Equipped(d)' /\ current'[d] = t)
        <4>1. CASE t = next /\ next \in Coroutines
          BY <1>2, <4>1
        <4>2. CASE ~(t = next /\ next \in Coroutines)
          <5>1. kstack[t] /\ t # prev
            BY <3>3, <3>8, <4>2
          <5>2. t \in Coroutines /\ \E d \in CPUs : Executing(d) = t \/ (Equipped(d) /\ current[d] = t)
            BY <5>1 DEF HandoverInv, StackInv
          <5> QED BY <1>1, <1>2, <2>1, <5>1, <5>2
        <4> QED BY <4>1, <4>2
      <3> QED BY <3>6, <3>7, <3>8 DEF StackInv
    <2>2. CASE prev \notin Coroutines
      <3>1. UNCHANGED <<kstack, pool>>
        BY <2>2 DEF Switch
      <3>2. OneStackPerCpu'
        BY <1>2, <2>2, <3>1 DEF HandoverInv, StackInv, OneStackPerCpu
      <3> QED BY <1>1, <1>2, <2>2, <3>1, <3>2 DEF HandoverInv, StackInv
    <2> QED BY <2>1, <2>2
  <1>6. OnCpuJustified'
    BY <1>1 DEF HandoverInv, OnCpuJustified
  <1> QED BY <1>4, <1>5, <1>6 DEF HandoverInv

\* The resume point clears the flag of the task that was switched out.
LEMMA ResumeHandover ==
    ASSUME IInv, HandoverInv, NEW c \in CPUs, Resume(c)
    PROVE  HandoverInv'
  <1>1. /\ pc[c] = "resume"
        /\ \A d \in CPUs : pc'[d] = IF d = c THEN "reap" ELSE pc[d]
        /\ \A t \in Tasks : on_cpu'[t] = IF t = prev_task[c] THEN FALSE ELSE on_cpu[t]
        /\ UNCHANGED <<kstack, current, prev_task, pool>>
    BY DEF Resume, At, Goto, cpuVars, IInv, TypeOK
  <1>2. \A d \in CPUs : Executing(d)' = Executing(d) /\ (Equipped(d)' <=> Equipped(d))
    BY <1>1 DEF Executing, Equipped
  <1>3. ExecInv'
    BY <1>1, <1>2 DEF HandoverInv, ExecInv
  <1>4. StackInv'
    BY <1>1, <1>2 DEF HandoverInv, StackInv, OneStackPerCpu
  <1>5. OnCpuJustified'
    BY <1>1 DEF HandoverInv, OnCpuJustified
  <1> QED BY <1>3, <1>4, <1>5 DEF HandoverInv

\* Every CPU executes its boot task, and no coroutine does.
LEMMA InitHandover == Init => HandoverInv
  <1> SUFFICES ASSUME Init PROVE HandoverInv
    OBVIOUS
  <1> USE TaskAssumption DEF Init
  <1>1. \A c, d \in CPUs : BootTask(c) = BootTask(d) => c = d
    BY DEF BootTask, IdleTasks
  <1>2. \A c \in CPUs : Executing(c) = BootTask(c) /\ BootTask(c) \notin Coroutines
    BY DEF Executing, BootTask, UserTasks, IdleTasks
  <1>3. ExecInv
    BY <1>1, <1>2 DEF ExecInv
  <1>4. StackInv
    BY <1>2 DEF StackInv, OneStackPerCpu, Equipped
  <1>5. OnCpuJustified
    BY DEF OnCpuJustified, BootTasks
  <1> QED BY <1>3, <1>4, <1>5 DEF HandoverInv

\* Every step keeps it.
LEMMA NextHandover == IInv /\ HandoverInv /\ [Next]_vars => HandoverInv'
  <1> SUFFICES ASSUME IInv, HandoverInv, [Next]_vars PROVE HandoverInv'
    OBVIOUS
  <1>1. CASE \E c \in CPUs : LibStep(c)
    BY <1>1, LibStepQuiet, QuietHandover, PickOtherHandover, SwitchHandover, ResumeHandover
  <1>2. CASE \E c \in CPUs : UserStep(c)
    BY <1>2, UserStepQuiet, QuietHandover
  <1>3. CASE UNCHANGED vars
    BY <1>3, QuietHandover DEF Quiet, vars, taskVars, cpuVars
  <1> QED BY <1>1, <1>2, <1>3 DEF Next, Stopped

\* Executing, stacks and on_cpu agree in every reachable state.
LEMMA Handover == Spec => []HandoverInv
  BY InitHandover, NextHandover, Invariance, PTL DEF Spec

\* on_cpu is set only while a CPU has the task or has just switched away from it: whoever
\* waits in put_task_with_state for the flag waits for a CPU that is on its way to clear it.
THEOREM FlagHasACpu == Spec => []OnCpuJustified
  <1>1. HandoverInv => OnCpuJustified
    BY DEF HandoverInv
  <1> QED BY <1>1, Handover, PTL

\* However many coroutines there are, a CPU keeps at most one stack to spare, and none while
\* it executes a coroutine, which has one.
THEOREM StacksBounded == Spec => []OneStackPerCpu
  <1>1. HandoverInv => OneStackPerCpu
    BY DEF HandoverInv, StackInv
  <1> QED BY <1>1, Handover, PTL

-----------------------------------------------------------------------------
(* Locks and waiters.                                                      *)

\* A step of CPU c leaves the other CPUs, and the calls of all other tasks, alone.
StepOf(c) ==
    /\ \A d \in CPUs \ {c} : pc'[d] = pc[d] /\ current'[d] = current[d] /\ current[d] # current[c]
    /\ \A t \in Tasks : t # current[c] => frame'[t] = frame[t]

\* It is enough to know where the step may write.
LEMMA StepOfCpu ==
    ASSUME IInv, NEW c \in CPUs,
           UNCHANGED pc \/ \E l : pc' = [pc EXCEPT ![c] = l],
           UNCHANGED frame \/ \E f : frame' = [frame EXCEPT ![current[c]] = f],
           UNCHANGED current \/ \E t : current' = [current EXCEPT ![c] = t]
    PROVE  StepOf(c)
  BY DEF StepOf, IInv, TypeOK, CpuInv

\* Every step inside the library is a step of its CPU.
LEMMA LibStepOf ==
    ASSUME IInv, NEW c \in CPUs, LibStep(c)
    PROVE  StepOf(c)
  <1> USE DEF At, Goto, taskVars, cpuVars, queueVars
  <1>1. ASSUME CondThread(c) \/ CondCoroutine(c) \/ Block(c) \/ Cancel(c) \/ Pended(c)
        PROVE  StepOf(c)
    BY <1>1, StepOfCpu DEF CondThread, CondCoroutine, Block, BlockOn, LeaveWaker, Cancel, Pended
  <1>2. ASSUME NotifyEmpty(c) \/ NotifyWake(c) \/ FinishRequeue(c) \/ StoreExitCode(c)
        PROVE  StepOf(c)
    BY <1>2, StepOfCpu DEF NotifyEmpty, NotifyWake, WakeUp, FinishRequeue, StoreExitCode
  <1>3. ASSUME NotifyLost(c) \/ Spin(c)
        PROVE  StepOf(c)
    BY <1>3, StepOfCpu DEF NotifyLost, Spin, AfterWake
  <1>4. ASSUME PickSelf(c) \/ Reap(c)
        PROVE  StepOf(c)
    BY <1>4, StepOfCpu DEF PickSelf, Reap, GoOn
  <1>5. ASSUME PickOther(c) \/ PickWild(c) \/ Switch(c) \/ Resume(c)
        PROVE  StepOf(c)
    BY <1>5, StepOfCpu DEF PickOther, PickWild, Switch, Resume
  <1> QED BY <1>1, <1>2, <1>3, <1>4, <1>5 DEF LibStep

\* So is every call by user code.
LEMMA UserStepOf ==
    ASSUME IInv, NEW c \in CPUs, UserStep(c)
    PROVE  StepOf(c)
  <1> USE DEF Goto, cpuVars, queueVars
  <1>1. ASSUME \E t \in UserTasks : Spawn(c, t) PROVE StepOf(c)
    BY <1>1, StepOfCpu DEF Spawn
  <1>2. ASSUME Yield(c) \/ Exit(c) PROVE StepOf(c)
    BY <1>2, StepOfCpu DEF Yield, Exit
  <1>3. ASSUME \E q \in WaitQueues : Wait(c, q) PROVE StepOf(c)
    BY <1>3, StepOfCpu DEF Wait, BlockOn
  <1>4. ASSUME \E u \in UserTasks : Join(c, u) PROVE StepOf(c)
    BY <1>4, StepOfCpu DEF Join
  <1>5. ASSUME NEW call, NEW q, NEW r,
               WaitUntil(c, call, q) \/ StartNotify(c, call, q, r)
        PROVE  StepOf(c)
    BY <1>5, StepOfCpu DEF WaitUntil, StartNotify
  <1>6. ASSUME \E q \in WakerQueues : WakerWait(c, q) PROVE StepOf(c)
    BY <1>6, StepOfCpu DEF WakerWait, LeaveWaker
  <1>7. ASSUME NEW q, NEW i, NEW r, NotifyTask(c, q, i, r) PROVE StepOf(c)
    BY <1>7, StepOfCpu DEF NotifyTask, WakeUp
  <1>8. ASSUME NEW q, NEW target, NEW n, Requeue(c, q, target, n) PROVE StepOf(c)
    BY <1>8, StepOfCpu DEF Requeue
  <1> QED BY <1>1, <1>2, <1>3, <1>4, <1>5, <1>6, <1>7, <1>8 DEF UserStep

\* A step neither takes nor releases a lock, nor is its CPU waking a task.
LockKept(c) == UNCHANGED lock /\ pc[c] # "spin"

\* A step that takes a lock does so to wake a task, in a call about that queue.
TakesLock(c) ==
    \E q \in Queues :
        /\ lock' = [lock EXCEPT ![q] = c] /\ pc[c] # "spin" /\ pc'[c] = "spin"
        /\ current'[c] = current[c] /\ frame'[current[c]].q = q

\* How a step of a CPU deals with the locks.
LEMMA LibStepLock ==
    ASSUME IInv, NEW c \in CPUs, LibStep(c)
    PROVE  LockKept(c) \/ TakesLock(c) \/ Spin(c)
  <1> USE DEF At, cpuVars, queueVars
  <1>1. ASSUME NotifyWake(c) PROVE TakesLock(c)
    BY <1>1, CurrentFacts DEF NotifyWake, WakeUp, Goto, TakesLock, IInv, TypeOK
  <1>2. ASSUME \/ CondThread(c) \/ CondCoroutine(c) \/ Block(c) \/ Cancel(c) \/ Pended(c)
               \/ NotifyEmpty(c) \/ NotifyLost(c) \/ FinishRequeue(c) \/ StoreExitCode(c)
        PROVE  LockKept(c)
    BY <1>2 DEF CondThread, CondCoroutine, Block, BlockOn, LeaveWaker, Cancel, Pended,
                NotifyEmpty, NotifyLost, FinishRequeue, StoreExitCode, LockKept
  <1>3. ASSUME \/ PickSelf(c) \/ PickOther(c) \/ PickWild(c) \/ Switch(c) \/ Resume(c) \/ Reap(c)
        PROVE  LockKept(c)
    BY <1>3 DEF PickSelf, PickOther, PickWild, Switch, Resume, Reap, LockKept
  <1> QED BY <1>1, <1>2, <1>3 DEF LibStep

\* Of the calls of user code only notify_task comes to wake a task at once.
LEMMA UserStepLock ==
    ASSUME IInv, NEW c \in CPUs, UserStep(c)
    PROVE  LockKept(c) \/ TakesLock(c)
  <1> USE DEF MayCall, At, cpuVars, queueVars, LockKept
  <1>1. ASSUME \E t \in UserTasks : Spawn(c, t) PROVE LockKept(c)
    BY <1>1 DEF Spawn
  <1>2. ASSUME Yield(c) \/ Exit(c) PROVE LockKept(c)
    BY <1>2 DEF Yield, Exit
  <1>3. ASSUME \E q \in WaitQueues : Wait(c, q) PROVE LockKept(c)
    BY <1>3 DEF Wait, BlockOn
  <1>4. ASSUME \E u \in UserTasks : Join(c, u) PROVE LockKept(c)
    BY <1>4 DEF Join
  <1>5. ASSUME NEW call, NEW q, NEW r,
               WaitUntil(c, call, q) \/ StartNotify(c, call, q, r)
        PROVE  LockKept(c)
    BY <1>5 DEF WaitUntil, StartNotify
  <1>6. ASSUME \E q \in WakerQueues : WakerWait(c, q) PROVE LockKept(c)
    BY <1>6 DEF WakerWait, LeaveWaker
  <1>7. ASSUME NEW q \in WaitQueues, NEW i, NEW r, NotifyTask(c, q, i, r)
        PROVE  LockKept(c) \/ TakesLock(c)
    BY <1>7 DEF NotifyTask, WakeUp, Goto, TakesLock, Queues, IInv, TypeOK
  <1>8. ASSUME NEW q, NEW target, NEW n, Requeue(c, q, target, n) PROVE LockKept(c)
    BY <1>8 DEF Requeue
  <1> QED BY <1>1, <1>2, <1>3, <1>4, <1>5, <1>6, <1>7, <1>8 DEF UserStep

\* The lock of a queue stays with the CPU that wakes a task of it.
LEMMA LockStep ==
    ASSUME IInv, LockInv, NEW c \in CPUs, StepOf(c), LockKept(c) \/ TakesLock(c) \/ Spin(c)
    PROVE  LockInv'
  <1> SUFFICES ASSUME NEW q \in Queues, lock'[q] # None
               PROVE  pc'[lock'[q]] = "spin" /\ frame'[current'[lock'[q]]].q = q
    BY DEF LockInv
  <1>1. lock \in [Queues -> CPUs \cup {None}] /\ current \in [CPUs -> Tasks]
    BY DEF IInv, TypeOK
  <1>2. ASSUME lock'[q] = lock[q], lock[q] # c
        PROVE  pc'[lock'[q]] = "spin" /\ frame'[current'[lock'[q]]].q = q
    BY <1>1, <1>2 DEF StepOf, LockInv
  <1>3. CASE LockKept(c)
    BY <1>1, <1>2, <1>3 DEF LockKept, LockInv
  <1>4. CASE TakesLock(c)
    <2>1. PICK p \in Queues :
             /\ lock' = [lock EXCEPT ![p] = c] /\ pc[c] # "spin" /\ pc'[c] = "spin"
             /\ current'[c] = current[c] /\ frame'[current[c]].q = p
      BY <1>4 DEF TakesLock
    <2>2. CASE q = p
      BY <1>1, <2>1, <2>2
    <2>3. CASE q # p
      <3>1. lock'[q] = lock[q]
        BY <1>1, <2>1, <2>3
      <3>2. lock[q] # c
        BY <2>1, <3>1 DEF LockInv
      <3> QED BY <1>2, <3>1, <3>2
    <2> QED BY <2>2, <2>3
  <1>5. CASE Spin(c)
    <2>1. lock' = [lock EXCEPT ![frame[current[c]].q] = None]
      BY <1>5 DEF Spin
    <2>2. q # frame[current[c]].q /\ lock'[q] = lock[q]
      BY <1>1, <2>1
    <2>3. lock[q] # c
      BY <2>2 DEF LockInv
    <2> QED BY <1>2, <2>2, <2>3
  <1> QED BY <1>3, <1>4, <1>5

\* The notify_exit of an exited task that this CPU runs goes on, or has emptied the queue.
ExitGoesOn(c) ==
    pc[c] \in {"store", "notify", "spin"} /\ frame[current[c]].op = "exit" =>
        \/ current'[c] = current[c] /\ pc'[c] \in {"store", "notify", "spin"}
        \/ queue[frame[current[c]].q] = <<>>

\* Waiters are safe from a step that makes none Blocked or Exited, takes the flag of no task
\* that stays Blocked, and puts nobody into an exit queue.
LEMMA WaitsKept ==
    ASSUME IInv, JoinInv, BlockedInv, NEW c \in CPUs, StepOf(c), ExitGoesOn(c),
           \A t \in Tasks : state'[t] \in {"Exited", "Blocked"} =>
                              state'[t] = state[t] /\ frame'[t] = frame[t],
           \A t, u \in Tasks : InQueue(t, u)' => InQueue(t, u),
           \A t \in Tasks : state'[t] = "Blocked" /\ in_wait_queue[t] => in_wait_queue'[t],
           pc'[c] # "pended",
           pc'[c] = "block" => current'[c] \in Coroutines
    PROVE  JoinInv' /\ BlockedInv'
  <1>1. \A t \in Tasks : state'[t] = "Exited" => frame'[t].op = "exit" /\ frame'[t].q = t
    BY DEF JoinInv
  <1>2. \A d \in CPUs : pc'[d] = "block" => current'[d] \in Coroutines
    BY DEF JoinInv, StepOf
  <1>3. ASSUME NEW t \in Tasks \ Coroutines, NEW u \in Tasks, InQueue(t, u)', state'[u] = "Exited"
        PROVE  \E d \in CPUs : current'[d] = u /\ pc'[d] \in {"store", "notify", "spin"}
    <2>1. InQueue(t, u) /\ state[u] = "Exited" /\ frame[u].op = "exit" /\ frame[u].q = u
      BY <1>3 DEF JoinInv
    <2>2. PICK d \in CPUs : current[d] = u /\ pc[d] \in {"store", "notify", "spin"}
      BY <2>1 DEF JoinInv, ThreadJoinWoken
    <2>3. queue[u] # <<>>
      BY <2>1 DEF InQueue
    <2>4. CASE d = c
      BY <2>1, <2>2, <2>3, <2>4 DEF ExitGoesOn
    <2>5. CASE d # c
      BY <2>2, <2>5 DEF StepOf
    <2> QED BY <2>4, <2>5
  <1>4. \A d \in CPUs : pc'[d] = "pended" =>
           current'[d] \in Coroutines /\ frame'[current'[d]].q \in WakerQueues
    <2> SUFFICES ASSUME NEW d \in CPUs, pc'[d] = "pended"
                 PROVE  current'[d] \in Coroutines /\ frame'[current'[d]].q \in WakerQueues
      OBVIOUS
    <2>1. d # c /\ pc[d] = "pended" /\ current'[d] = current[d] /\ current[d] # current[c]
      BY DEF StepOf
    <2>2. current[d] \in Tasks /\ frame'[current[d]] = frame[current[d]]
      BY <2>1 DEF StepOf, IInv, TypeOK
    <2> QED BY <2>1, <2>2 DEF BlockedInv
  <1>5. \A t \in Tasks : state'[t] = "Blocked" =>
           in_wait_queue'[t] \/ (t \in Coroutines /\ frame'[t].q \in WakerQueues)
    BY DEF BlockedInv
  <1>6. JoinInv'
    BY <1>1, <1>2, <1>3 DEF JoinInv, ThreadJoinWoken
  <1>7. BlockedInv'
    BY <1>4, <1>5 DEF BlockedInv
  <1> QED BY <1>6, <1>7

\* A CPU with a Running task moves on without a change of states and queues.
LEMMA OwnWaits ==
    ASSUME IInv, JoinInv, BlockedInv, NEW c \in CPUs, StepOf(c), Own(c),
           UNCHANGED <<state, queue, in_wait_queue>>,
           pc'[c] # "pended",
           pc'[c] = "block" => current'[c] \in Coroutines
    PROVE  JoinInv' /\ BlockedInv'
  <1>1. state[current[c]] = "Running"
    BY CurrentFacts
  <1>2. \A t \in Tasks : state'[t] \in {"Exited", "Blocked"} =>
                              state'[t] = state[t] /\ frame'[t] = frame[t]
    BY <1>1 DEF StepOf
  <1>3. ExitGoesOn(c)
    BY DEF ExitGoesOn, Own, OwnAt
  <1>4. \A t, u \in Tasks : InQueue(t, u)' => InQueue(t, u)
    BY DEF InQueue
  <1> QED BY <1>2, <1>3, <1>4, WaitsKept

\* A task that ends its CPU's turn, or notifies from notify_exit, keeps its call.
LEMMA ExitWaits ==
    ASSUME IInv, JoinInv, BlockedInv, NEW c \in CPUs, StepOf(c), ExitGoesOn(c),
           UNCHANGED <<state, queue, in_wait_queue, frame>>,
           pc'[c] \notin {"pended", "block"}
    PROVE  JoinInv' /\ BlockedInv'
  <1>1. \A t, u \in Tasks : InQueue(t, u)' => InQueue(t, u)
    BY DEF InQueue
  <1> QED BY <1>1, WaitsKept

\* A waiter that is taken off a queue in which it was not Blocked, or made Ready.
LEMMA TakeOutWaits ==
    ASSUME IInv, JoinInv, BlockedInv, NEW c \in CPUs, StepOf(c), ExitGoesOn(c),
           NEW q \in Queues, NEW n \in 1..Len(queue[q]), TakeOut(q, n),
           state'[queue[q][n]] \notin {"Exited", "Blocked"},
           \A t \in Tasks : t # queue[q][n] => state'[t] = state[t],
           frame'[current[c]] = frame[current[c]] \/ state[current[c]] \notin {"Exited", "Blocked"},
           pc'[c] \notin {"pended", "block"}
    PROVE  JoinInv' /\ BlockedInv'
  <1>1. \A t, u \in Tasks : InQueue(t, u)' => InQueue(t, u)
    <2> SUFFICES ASSUME NEW t \in Tasks, NEW u \in Tasks, NEW i \in 1..Len(queue'[u]), queue'[u][i] = t
                 PROVE  \E k \in 1..Len(queue[u]) : queue[u][k] = t
      BY DEF InQueue
    <2>1. u \in Places
      BY PlaceFacts DEF Queues
    <2>2. \A p \in Places : \A j \in 1..Len(queue'[p]) :
             \E k \in 1..Len(queue[p]) :
                queue'[p][j] = queue[p][k] /\ queue'[p][j] # queue[q][n] /\ k = After(p, q, j, n)
      BY DropOne
    <2> QED BY <2>1, <2>2
  <1>2. \A t \in Tasks : state'[t] \in {"Exited", "Blocked"} =>
                              state'[t] = state[t] /\ frame'[t] = frame[t]
    BY DEF StepOf
  <1>3. \A t \in Tasks : state'[t] = "Blocked" /\ in_wait_queue[t] => in_wait_queue'[t]
    BY DEF TakeOut, IInv, TypeOK
  <1> QED BY <1>1, <1>2, <1>3, WaitsKept

\* A task becomes Blocked in a WaitQueue, or in the exit queue of a task that has not exited,
\* or is a coroutine.
LEMMA BlockOnWaits ==
    ASSUME IInv, JoinInv, BlockedInv, NEW c \in CPUs, NEW q \in Queues, StepOf(c),
           BlockOn(c, q), pc[c] \in {"run", "cond", "block"},
           \/ q \notin Tasks
           \/ state[q] # "Exited"
           \/ current[c] \in Coroutines
    PROVE  JoinInv' /\ BlockedInv'
  <1> DEFINE t == current[c]
  <1>1. /\ t \in Tasks /\ state[t] = "Running"
        /\ \A x \in Tasks : state'[x] = IF x = t THEN "Blocked" ELSE state[x]
        /\ \A x \in Tasks : in_wait_queue'[x] = IF x = t THEN TRUE ELSE in_wait_queue[x]
        /\ \A d \in CPUs : pc'[d] = IF d = c THEN "resched" ELSE pc[d]
        /\ UNCHANGED current
    BY CurrentFacts DEF BlockOn, Goto, cpuVars, Own, OwnAt, IInv, TypeOK
  <1>2. ASSUME NEW x \in Tasks, NEW u \in Tasks, InQueue(x, u)'
        PROVE  InQueue(x, u) \/ (x = t /\ u = q)
    <2>1. u \in Places /\ q \in Places
      BY PlaceFacts DEF Queues
    <2>2. queue' = [queue EXCEPT ![q] = Append(@, current[c])]
      BY DEF BlockOn
    <2>3. \A i \in 1..Len(queue'[u]) :
             \/ i \in 1..Len(queue[u]) /\ queue'[u][i] = queue[u][i]
             \/ u = q /\ i = Len(queue[q]) + 1 /\ queue'[u][i] = current[c]
      BY <2>1, <2>2, AppendQueue
    <2> QED BY <1>2, <2>3 DEF InQueue
  <1>3. ASSUME NEW x \in Tasks \ Coroutines, NEW u \in Tasks, InQueue(x, u)', state'[u] = "Exited"
        PROVE  \E d \in CPUs : current'[d] = u /\ pc'[d] \in {"store", "notify", "spin"}
    <2>1. InQueue(x, u) /\ state[u] = "Exited"
      BY <1>1, <1>2, <1>3
    <2>2. PICK d \in CPUs : current[d] = u /\ pc[d] \in {"store", "notify", "spin"}
      BY <2>1 DEF JoinInv, ThreadJoinWoken
    <2>3. d # c
      BY <2>2
    <2> QED BY <1>1, <2>2, <2>3
  <1>4. JoinInv'
    BY <1>1, <1>3 DEF JoinInv, ThreadJoinWoken, StepOf
  <1>5. BlockedInv'
    <2>1. ASSUME NEW d \in CPUs, pc'[d] = "pended"
          PROVE  current'[d] \in Coroutines /\ frame'[current'[d]].q \in WakerQueues
      <3>1. d # c /\ pc[d] = "pended" /\ current[d] # current[c] /\ current[d] \in Tasks
        BY <1>1, <2>1 DEF StepOf, IInv, TypeOK
      <3> QED BY <1>1, <3>1 DEF StepOf, BlockedInv
    <2>2. \A x \in Tasks : state'[x] = "Blocked" =>
             in_wait_queue'[x] \/ (x \in Coroutines /\ frame'[x].q \in WakerQueues)
      BY <1>1 DEF StepOf, BlockedInv
    <2> QED BY <2>1, <2>2 DEF BlockedInv
  <1> QED BY <1>4, <1>5

\* A coroutine leaves its waker in a WakerQueue.
LEMMA LeaveWakerWaits ==
    ASSUME IInv, JoinInv, BlockedInv, NEW c \in CPUs, NEW q \in WakerQueues, StepOf(c),
           LeaveWaker(c, q), pc[c] \in {"run", "block"}, current[c] \in Coroutines,
           frame'[current[c]].q = q
    PROVE  JoinInv' /\ BlockedInv'
  <1>1. /\ current[c] \in Tasks /\ state[current[c]] = "Running"
        /\ \A d \in CPUs : pc'[d] = IF d = c THEN "pended" ELSE pc[d]
        /\ UNCHANGED <<state, in_wait_queue, current>>
    BY CurrentFacts DEF LeaveWaker, Goto, cpuVars, Own, OwnAt, IInv, TypeOK
  <1>2. \A u \in Tasks : queue'[u] = queue[u]
    <2>1. \A u \in Tasks : u # q /\ u \in Places
      BY QueueAssumption, PlaceFacts DEF Queues
    <2> QED BY <2>1 DEF LeaveWaker, IInv, TypeOK
  <1>3. JoinInv'
    BY <1>1, <1>2 DEF JoinInv, ThreadJoinWoken, StepOf, InQueue
  <1>4. BlockedInv'
    <2>1. ASSUME NEW d \in CPUs, pc'[d] = "pended"
          PROVE  current'[d] \in Coroutines /\ frame'[current'[d]].q \in WakerQueues
      <3>1. CASE d = c
        BY <1>1, <3>1
      <3>2. CASE d # c
        <4>1. pc[d] = "pended" /\ current[d] # current[c] /\ current[d] \in Tasks
          BY <1>1, <2>1, <3>2 DEF StepOf, IInv, TypeOK
        <4> QED BY <1>1, <4>1 DEF StepOf, BlockedInv
      <3> QED BY <3>1, <3>2
    <2>2. \A x \in Tasks : state'[x] = "Blocked" =>
             in_wait_queue'[x] \/ (x \in Coroutines /\ frame'[x].q \in WakerQueues)
      BY <1>1 DEF StepOf, BlockedInv
    <2> QED BY <2>1, <2>2 DEF BlockedInv
  <1> QED BY <1>3, <1>4

\* Every step inside the library keeps what is known of waiters.
LEMMA LibStepWaits ==
    ASSUME IInv, JoinInv, BlockedInv, NEW c \in CPUs, LibStep(c)
    PROVE  JoinInv' /\ BlockedInv'
  <1> DEFINE t == current[c]
             q == frame[t].q
  <1>0. StepOf(c) /\ pc \in [CPUs -> Labels] /\ t \in Tasks
    BY LibStepOf DEF IInv, TypeOK
  <1>1. CASE CondThread(c)
    <2>1. pc[c] = "cond" /\ t \notin Coroutines /\ Own(c) /\ q \in Queues
      BY <1>1, CondFacts DEF CondThread, At, Own, OwnAt
    <2>2. PICK done \in CondMay(frame[t]) :
             IF done THEN Goto(c, "cancel") /\ UNCHANGED <<taskVars, cpuVars, queueVars, mode>>
                     ELSE BlockOn(c, q) /\ UNCHANGED frame
      BY <1>1 DEF CondThread
    <2>3. CASE done
      <3>1. pc'[c] = "cancel" /\ UNCHANGED <<state, queue, in_wait_queue>>
        BY <1>0, <2>2, <2>3 DEF Goto, taskVars, queueVars
      <3> QED BY <1>0, <2>1, <3>1, OwnWaits
    <2>4. CASE ~done
      <3>1. BlockOn(c, q)
        BY <2>2, <2>4
      <3>2. q \notin Tasks \/ state[q] # "Exited"
        <4>1. CASE frame[t].op = "join"
          BY <2>4, <4>1 DEF CondMay
        <4>2. CASE frame[t].op = "wait_until"
          BY <2>1, <4>2, CondFacts, QueueAssumption DEF TargetFits
        <4> QED BY <2>1, <4>1, <4>2, CondFacts
      <3> HIDE DEF q
      <3> QED BY <1>0, <2>1, <3>1, <3>2, BlockOnWaits
    <2> QED BY <2>3, <2>4
  <1>2. CASE CondCoroutine(c)
    BY <1>0, <1>2, OwnWaits DEF CondCoroutine, At, Goto, Own, OwnAt, taskVars, cpuVars, queueVars
  <1>3. CASE Block(c)
    <2>1. pc[c] = "block" /\ t \in Coroutines /\ q \in Queues /\ UNCHANGED frame
      BY <1>3, CondFacts DEF Block, At, JoinInv
    <2>2. CASE q \in WakerQueues
      BY <1>0, <1>3, <2>1, <2>2, LeaveWakerWaits DEF Block
    <2>3. CASE q \notin WakerQueues
      BY <1>0, <1>3, <2>1, <2>3, BlockOnWaits DEF Block
    <2> QED BY <2>2, <2>3
  <1>4. CASE Cancel(c)
    <2>1. pc[c] = "cancel" /\ pc'[c] = "run" /\ Own(c) /\ UNCHANGED state
      BY <1>0, <1>4 DEF Cancel, At, Goto, Own, OwnAt
    <2>2. ~in_wait_queue[t]
      <3>1. state[t] = "Running"
        BY <2>1, CurrentFacts
      <3>2. \A p \in TaskPlaces : ~InQueue(t, p)
        BY <3>1, PlaceFacts, <2>1 DEF IInv, QueueInv, InQueue
      <3> QED BY <1>0, <3>2 DEF IInv, InWaitQueueExact
    <2>3. UNCHANGED <<queue, in_wait_queue>>
      BY <1>4, <2>2 DEF Cancel
    <2> QED BY <1>0, <2>1, <2>3, OwnWaits
  <1>5. CASE Pended(c)
    <2>1. /\ pc[c] = "pended" /\ UNCHANGED <<queue, in_wait_queue, current, frame>>
          /\ \A d \in CPUs : pc'[d] = IF d = c THEN "resched" ELSE pc[d]
          /\ \A x \in Tasks : state'[x] = IF x = t THEN "Blocked" ELSE state[x]
      BY <1>0, <1>5 DEF Pended, At, Goto, cpuVars, queueVars, IInv, TypeOK
    <2>2. JoinInv'
      BY <2>1 DEF JoinInv, ThreadJoinWoken, InQueue
    <2>3. BlockedInv'
      BY <2>1 DEF BlockedInv
    <2> QED BY <2>2, <2>3
  <1>6. CASE NotifyEmpty(c)
    <2>1. /\ pc[c] = "notify" /\ queue[q] = <<>> /\ UNCHANGED <<state, queue, in_wait_queue, current>>
          /\ IF frame[t].op = "exit" THEN UNCHANGED frame ELSE Own(c)
          /\ pc'[c] \in {"resched", "run"}
      BY <1>0, <1>6 DEF NotifyEmpty, At, Goto, cpuVars, queueVars, Own, OwnAt
    <2>2. CASE frame[t].op = "exit"
      BY <1>0, <2>1, <2>2, ExitWaits DEF ExitGoesOn
    <2>3. CASE frame[t].op # "exit"
      BY <1>0, <2>1, <2>3, OwnWaits
    <2> QED BY <2>2, <2>3
  <1>7. CASE NotifyWake(c)
    <2>1. /\ pc[c] = "notify" /\ q \in Queues /\ 1 \in 1..Len(queue[q])
          /\ TakeOut(q, 1) /\ UNCHANGED <<frame, current>> /\ pc'[c] = "spin"
          /\ queue[q][1] \in Tasks
          /\ state' = [state EXCEPT ![queue[q][1]] = "Ready"]
      <3>1. pc[c] = "notify" /\ q \in Queues /\ q \in Places
        BY <1>7, CurrentFacts, PlaceFacts DEF NotifyWake, At
      <3>2. queue[q] \in Seq(Tasks) /\ queue[q] # <<>>
        BY <1>7, <3>1 DEF NotifyWake, IInv, TypeOK
      <3>3. 1 \in 1..Len(queue[q]) /\ queue[q][1] \in Tasks
        BY <3>2, TailFacts
      <3> QED BY <1>0, <1>7, <3>1, <3>3 DEF NotifyWake, WakeUp, Goto
    <2>2. /\ state'[queue[q][1]] \notin {"Exited", "Blocked"}
          /\ \A x \in Tasks : x # queue[q][1] => state'[x] = state[x]
      BY <2>1 DEF IInv, TypeOK
    <2> HIDE DEF q
    <2> QED BY <1>0, <2>1, <2>2, TakeOutWaits DEF ExitGoesOn
  <1>8. CASE NotifyLost(c)
    <2>1. /\ pc[c] = "notify" /\ q \in Queues /\ 1 \in 1..Len(queue[q])
          /\ TakeOut(q, 1) /\ UNCHANGED <<state, current>>
          /\ state[queue[q][1]] # "Blocked" /\ queue[q][1] \in Tasks
      <3>1. pc[c] = "notify" /\ q \in Queues /\ q \in Places
        BY <1>8, CurrentFacts, PlaceFacts DEF NotifyLost, At
      <3>2. queue[q] \in Seq(Tasks) /\ queue[q] # <<>>
        BY <1>8, <3>1 DEF NotifyLost, IInv, TypeOK
      <3>3. 1 \in 1..Len(queue[q]) /\ queue[q][1] \in Tasks
        BY <3>2, TailFacts
      <3> QED BY <1>8, <3>1, <3>3 DEF NotifyLost, Wakeable, cpuVars
    <2>2. state[queue[q][1]] # "Exited"
      <3>1. q \in Places
        BY <2>1, PlaceFacts
      <3>2. \/ state[queue[q][1]] = "Blocked"
            \/ \E d \in CPUs : current[d] = queue[q][1] /\ pc[d] = "pended"
        BY <2>1, <3>1 DEF IInv, QueueInv
      <3>3. \A d \in CPUs : pc[d] = "pended" => state[current[d]] = "Running"
        BY DEF IInv, CpuInv, Own, OwnAt
      <3> QED BY <3>2, <3>3
    <2>3. /\ pc' = [pc EXCEPT ![c] = AfterLabel(c)] /\ AfterLabel(c) \in {"run", "notify"}
          /\ frame' = [frame EXCEPT ![t] = AfterFrame(c)]
      BY <1>8, <2>1, AfterWakeFacts DEF NotifyLost
    <2>4. frame[t].op = "exit" => frame' = frame /\ pc'[c] = "notify"
      BY <1>8, <1>0 DEF NotifyLost, AfterWake, Goto
    <2>5. frame[t].op # "exit" => state[t] = "Running"
      BY <2>1, CurrentFacts DEF Own, OwnAt
    <2>6. frame'[t] = frame[t] \/ state[t] \notin {"Exited", "Blocked"}
      BY <2>4, <2>5
    <2>7. ExitGoesOn(c)
      BY <2>1, <2>4 DEF ExitGoesOn
    <2>8. pc'[c] \notin {"pended", "block"}
      BY <1>0, <2>3
    <2> HIDE DEF q
    <2> QED BY <1>0, <2>1, <2>2, <2>6, <2>7, <2>8, TakeOutWaits
  <1>9. CASE Spin(c)
    <2>1. pc[c] = "spin" /\ UNCHANGED <<state, queue, in_wait_queue, current>> /\ AfterWake(c)
      BY <1>9 DEF Spin, At
    <2>2. frame[t].op = "exit" => UNCHANGED frame /\ pc'[c] = "notify"
      BY <1>0, <2>1 DEF AfterWake, Goto
    <2>3. pc'[c] \in {"run", "notify"}
      BY <1>0, <2>1 DEF AfterWake, Goto
    <2>4. CASE frame[t].op = "exit"
      BY <1>0, <2>1, <2>2, <2>4, ExitWaits DEF ExitGoesOn
    <2>5. CASE frame[t].op # "exit"
      <3>1. Own(c)
        BY <2>1, <2>5 DEF Own, OwnAt
      <3> QED BY <1>0, <2>1, <2>3, <3>1, OwnWaits
    <2> QED BY <2>4, <2>5
  <1>10. CASE FinishRequeue(c)
    <2>1. /\ pc[c] = "requeue" /\ Own(c) /\ pc'[c] = "run"
          /\ UNCHANGED <<state, in_wait_queue>>
          /\ queue' = [queue EXCEPT ![q] = @ \o queue[HandOf(c, q)], ![HandOf(c, q)] = <<>>]
      BY <1>0, <1>10 DEF FinishRequeue, At, Goto, Own, OwnAt
    <2>2. q \in WaitQueues \cup WakerQueues
      BY <2>1, CurrentFacts DEF TargetFits
    <2>3. \A u \in Tasks : u # q /\ u # HandOf(c, q) /\ u \in Places
      <3>1. q \in Queues
        BY <2>2 DEF Queues
      <3>2. HandOf(c, q) \in Hands
        BY <3>1, HandOfFacts
      <3> QED BY <2>2, <3>2, QueueAssumption, PlaceFacts DEF Queues
    <2>4. \A u \in Tasks : queue'[u] = queue[u]
      <3>1. queue \in [Places -> Seq(Tasks)]
        BY DEF IInv, TypeOK
      <3> QED BY <2>1, <2>3, <3>1
    <2>5. state[t] = "Running"
      BY <2>1, CurrentFacts
    <2>6. ExitGoesOn(c)
      BY <2>1 DEF ExitGoesOn
    <2>7. \A x, u \in Tasks : InQueue(x, u)' => InQueue(x, u)
      BY <2>4 DEF InQueue
    <2>8. \A x \in Tasks : state'[x] \in {"Exited", "Blocked"} =>
                                state'[x] = state[x] /\ frame'[x] = frame[x]
      BY <1>0, <2>1, <2>5 DEF StepOf
    <2> QED BY <1>0, <2>1, <2>6, <2>7, <2>8, WaitsKept
  <1>11. CASE StoreExitCode(c)
    BY <1>0, <1>11, ExitWaits DEF StoreExitCode, At, Goto, cpuVars, queueVars, ExitGoesOn
  <1>12. CASE PickSelf(c) \/ PickOther(c)
    <2>1. /\ pc[c] = "resched" /\ UNCHANGED <<queue, in_wait_queue>>
          /\ state' = [state EXCEPT ![NextTask(c)] = "Running"]
          /\ PickSelf(c) => NextTask(c) = t
      BY <1>12 DEF PickSelf, PickOther, Pick, At, queueVars
    <2>2. pc'[c] \in {"run", "cond", "cancel", "resume", "switch"}
      <3>1. CASE PickOther(c)
        BY <1>0, <3>1 DEF PickOther, Goto
      <3>2. CASE PickSelf(c)
        <4>1. CASE GoOn(c)
          BY <1>0, <4>1, GoOnFacts
        <4>2. CASE ~GoOn(c)
          BY <1>0, <3>2, <4>2 DEF PickSelf, Goto
        <4> QED BY <4>1, <4>2
      <3> QED BY <1>12, <3>1, <3>2
    <2>3. \A x \in Tasks : state'[x] = IF x = NextTask(c) THEN "Running" ELSE state[x]
      BY <2>1 DEF IInv, TypeOK
    <2>4. \A x \in Tasks : state'[x] \in {"Exited", "Blocked"} =>
                                state'[x] = state[x] /\ frame'[x] = frame[x]
      <3>1. CASE PickOther(c)
        BY <2>3, <3>1 DEF PickOther
      <3>2. CASE PickSelf(c)
        BY <1>0, <2>1, <2>3, <3>2 DEF StepOf
      <3> QED BY <1>12, <3>1, <3>2
    <2>5. \A x, u \in Tasks : InQueue(x, u)' => InQueue(x, u)
      BY <2>1 DEF InQueue
    <2>6. ExitGoesOn(c)
      BY <2>1 DEF ExitGoesOn
    <2> QED BY <1>0, <2>1, <2>2, <2>4, <2>5, <2>6, WaitsKept
  <1>13. CASE PickWild(c)
    BY <1>13 DEF PickWild, taskVars, cpuVars, queueVars, JoinInv, BlockedInv, ThreadJoinWoken, InQueue
  <1>14. CASE Switch(c) \/ Resume(c)
    BY <1>0, <1>14, OwnWaits DEF Switch, Resume, At, Goto, Own, OwnAt, cpuVars, queueVars
  <1>15. CASE Reap(c)
    <2>1. pc[c] = "reap" /\ Own(c) /\ UNCHANGED <<state, queue, in_wait_queue>> /\ GoOn(c) /\ UNCHANGED current
      BY <1>15 DEF Reap, At, Own, OwnAt, cpuVars, queueVars
    <2>2. pc'[c] \in {"run", "cond", "cancel"}
      BY <1>0, <2>1, GoOnFacts
    <2> QED BY <1>0, <2>1, <2>2, OwnWaits
  <1> QED BY <1>1, <1>2, <1>3, <1>4, <1>5, <1>6, <1>7, <1>8, <1>9, <1>10, <1>11, <1>12, <1>13, <1>14, <1>15
          DEF LibStep

\* notify_task takes a waiter out of the middle of its queue.
LEMMA NotifyTaskWaits ==
    ASSUME IInv, JoinInv, BlockedInv, NEW c \in CPUs, StepOf(c),
           NEW q \in WaitQueues, NEW i, NEW r, NotifyTask(c, q, i, r)
    PROVE  JoinInv' /\ BlockedInv'
  <1>1. /\ pc[c] = "run" /\ Own(c) /\ i \in 1..Len(queue[q]) /\ TakeOut(q, i)
        /\ q \in Queues /\ q \in Places /\ q \notin WakerPlaces
    BY PlaceFacts, QueueAssumption DEF NotifyTask, WakeUp, MayCall, At, Own, OwnAt, Queues
  <1>2. state[queue[q][i]] = "Blocked" /\ queue[q][i] \in Tasks
    BY <1>1 DEF IInv, QueueInv, TypeOK
  <1>3. /\ state' = [state EXCEPT ![queue[q][i]] = "Ready"]
        /\ pc' = [pc EXCEPT ![c] = "spin"]
    BY <1>1, <1>2 DEF NotifyTask, WakeUp, Wakeable, Goto
  <1>4. /\ state'[queue[q][i]] \notin {"Exited", "Blocked"}
        /\ \A x \in Tasks : x # queue[q][i] => state'[x] = state[x]
        /\ pc'[c] \notin {"pended", "block"}
    BY <1>2, <1>3 DEF IInv, TypeOK
  <1>5. state[current[c]] = "Running"
    BY <1>1, CurrentFacts
  <1> QED BY <1>1, <1>4, <1>5, TakeOutWaits DEF ExitGoesOn

\* requeue does not touch exit queues.
LEMMA RequeueWaits ==
    ASSUME IInv, JoinInv, BlockedInv, NEW c \in CPUs, StepOf(c),
           NEW q \in WaitQueues \cup WakerQueues, NEW target, NEW n, Requeue(c, q, target, n)
    PROVE  JoinInv' /\ BlockedInv'
  <1>1. /\ pc[c] = "run" /\ Own(c) /\ pc'[c] = "requeue"
        /\ UNCHANGED <<state, in_wait_queue>>
        /\ queue' = [queue EXCEPT ![q] = SubSeq(@, n + 1, Len(@)),
                                  ![HandOf(c, q)] = SubSeq(queue[q], 1, n)]
    BY DEF Requeue, MayCall, At, Goto, Own, OwnAt, IInv, TypeOK
  <1>2. \A u \in Tasks : u # q /\ u # HandOf(c, q) /\ u \in Places
    <2>1. q \in Queues
      BY DEF Queues
    <2>2. HandOf(c, q) \in Hands
      BY <2>1, HandOfFacts
    <2> QED BY <2>2, QueueAssumption, PlaceFacts DEF Queues
  <1>3. \A u \in Tasks : queue'[u] = queue[u]
    <2>1. queue \in [Places -> Seq(Tasks)]
      BY DEF IInv, TypeOK
    <2> QED BY <1>1, <1>2, <2>1
  <1>4. state[current[c]] = "Running"
    BY <1>1, CurrentFacts
  <1>5. ExitGoesOn(c)
    BY <1>1 DEF ExitGoesOn
  <1>6. \A x, u \in Tasks : InQueue(x, u)' => InQueue(x, u)
    BY <1>3 DEF InQueue
  <1>7. \A x \in Tasks : state'[x] \in {"Exited", "Blocked"} =>
                              state'[x] = state[x] /\ frame'[x] = frame[x]
    BY <1>1, <1>4 DEF StepOf
  <1> QED BY <1>1, <1>5, <1>6, <1>7, WaitsKept

\* A task that exits has its notify_exit ahead of it.
LEMMA ExitKeepsWaits ==
    ASSUME IInv, JoinInv, BlockedInv, NEW c \in CPUs, StepOf(c), Exit(c)
    PROVE  JoinInv' /\ BlockedInv'
  <1> DEFINE t == current[c]
  <1>1. CASE t = Main
    BY <1>1 DEF Exit, cpuVars, queueVars, JoinInv, BlockedInv, ThreadJoinWoken, InQueue
  <1>2. CASE t # Main
    <2>1. /\ pc[c] = "run" /\ t \in Tasks
          /\ UNCHANGED <<queue, in_wait_queue, current>>
          /\ \A d \in CPUs : pc'[d] = IF d = c THEN "store" ELSE pc[d]
          /\ \A x \in Tasks : state'[x] = IF x = t THEN "Exited" ELSE state[x]
          /\ frame'[t].op = "exit" /\ frame'[t].q = t
      BY <1>2 DEF Exit, MayCall, At, Goto, cpuVars, queueVars, IInv, TypeOK
    <2>2. ThreadJoinWoken'
      <3> SUFFICES ASSUME NEW x \in Tasks \ Coroutines, NEW u \in Tasks,
                          InQueue(x, u)', state'[u] = "Exited"
                   PROVE  \E d \in CPUs : current'[d] = u /\ pc'[d] \in {"store", "notify", "spin"}
        BY DEF ThreadJoinWoken
      <3>1. CASE u = t
        BY <2>1, <3>1
      <3>2. CASE u # t
        <4>1. InQueue(x, u) /\ state[u] = "Exited"
          BY <2>1, <3>2 DEF InQueue
        <4>2. PICK d \in CPUs : current[d] = u /\ pc[d] \in {"store", "notify", "spin"}
          BY <4>1 DEF JoinInv, ThreadJoinWoken
        <4> QED BY <2>1, <4>2
      <3> QED BY <3>1, <3>2
    <2>3. JoinInv'
      BY <2>1, <2>2 DEF JoinInv, StepOf
    <2>4. BlockedInv'
      <3>1. \A d \in CPUs : pc'[d] = "pended" =>
               d # c /\ pc[d] = "pended" /\ current[d] # t /\ current[d] \in Tasks
        BY <2>1 DEF StepOf, IInv, TypeOK
      <3>2. \A d \in CPUs : pc'[d] = "pended" =>
               current'[d] \in Coroutines /\ frame'[current'[d]].q \in WakerQueues
        BY <2>1, <3>1 DEF StepOf, BlockedInv
      <3>3. \A x \in Tasks : state'[x] = "Blocked" =>
               in_wait_queue'[x] \/ (x \in Coroutines /\ frame'[x].q \in WakerQueues)
        BY <2>1 DEF StepOf, BlockedInv
      <3> QED BY <3>2, <3>3 DEF BlockedInv
    <2> QED BY <2>3, <2>4
  <1> QED BY <1>1, <1>2

\* Every call by user code keeps what is known of waiters.
LEMMA UserStepWaits ==
    ASSUME IInv, JoinInv, BlockedInv, NEW c \in CPUs, UserStep(c)
    PROVE  JoinInv' /\ BlockedInv'
  <1> DEFINE t == current[c]
  <1>0. StepOf(c) /\ pc \in [CPUs -> Labels] /\ t \in Tasks
    BY UserStepOf DEF IInv, TypeOK
  <1>1. ASSUME pc[c] = "run" PROVE Own(c) /\ state[t] = "Running" /\ ExitGoesOn(c)
    BY <1>1, CurrentFacts DEF Own, OwnAt, ExitGoesOn
  <1>2. CASE \E u \in UserTasks : Spawn(c, u)
    BY <1>0, <1>1, <1>2, OwnWaits DEF Spawn, MayCall, At, queueVars
  <1>3. CASE Yield(c)
    <2>1. /\ pc[c] = "run" /\ pc'[c] = "resched" /\ UNCHANGED <<queue, in_wait_queue>>
          /\ \A x \in Tasks : state'[x] = IF x = t THEN "Ready" ELSE state[x]
      BY <1>0, <1>3 DEF Yield, MayCall, At, Goto, queueVars, IInv, TypeOK
    <2>2. \A x \in Tasks : state'[x] \in {"Exited", "Blocked"} =>
                                state'[x] = state[x] /\ frame'[x] = frame[x]
      BY <1>0, <2>1 DEF StepOf
    <2>3. \A x, u \in Tasks : InQueue(x, u)' => InQueue(x, u)
      BY <2>1 DEF InQueue
    <2> QED BY <1>0, <1>1, <2>1, <2>2, <2>3, WaitsKept
  <1>4. CASE Exit(c)
    BY <1>0, <1>4, ExitKeepsWaits
  <1>5. CASE \E q \in WaitQueues : Wait(c, q)
    <2>1. PICK q \in WaitQueues : Wait(c, q)
      BY <1>5
    <2>2. pc[c] = "run" /\ BlockOn(c, q) /\ q \in Queues /\ q \notin Tasks
      BY <2>1, QueueAssumption DEF Wait, MayCall, At, Queues
    <2> QED BY <1>0, <2>2, BlockOnWaits
  <1>6. CASE \E u \in UserTasks : Join(c, u)
    BY <1>0, <1>1, <1>6, OwnWaits DEF Join, MayCall, At, Goto, queueVars
  <1>7. ASSUME NEW call, NEW q, NEW r,
               WaitUntil(c, call, q) \/ StartNotify(c, call, q, r)
        PROVE  JoinInv' /\ BlockedInv'
    BY <1>0, <1>1, <1>7, OwnWaits DEF WaitUntil, StartNotify, MayCall, At, Goto, queueVars
  <1>8. CASE \E q \in WakerQueues : WakerWait(c, q)
    <2>1. PICK q \in WakerQueues : WakerWait(c, q)
      BY <1>8
    <2>2. /\ pc[c] = "run" /\ t \in Coroutines /\ LeaveWaker(c, q)
          /\ frame'[t].q = q
      BY <1>0, <2>1 DEF WakerWait, MayCall, At, IInv, TypeOK
    <2> QED BY <1>0, <2>2, LeaveWakerWaits
  <1>9. ASSUME NEW q \in WaitQueues, NEW i, NEW r, NotifyTask(c, q, i, r)
        PROVE  JoinInv' /\ BlockedInv'
    BY <1>0, <1>9, NotifyTaskWaits
  <1>10. ASSUME NEW q \in WaitQueues \cup WakerQueues, NEW target, NEW n, Requeue(c, q, target, n)
         PROVE  JoinInv' /\ BlockedInv'
    BY <1>0, <1>10, RequeueWaits
  <1> QED BY <1>2, <1>3, <1>4, <1>5, <1>6, <1>7, <1>8, <1>9, <1>10 DEF UserStep

\* WInv holds at boot.
LEMMA InitWInv == Init => WInv
  <1> SUFFICES ASSUME Init PROVE WInv
    OBVIOUS
  <1>1. HandoverInv
    BY InitHandover
  <1> USE DEF Init
  <1>2. LockInv
    BY DEF LockInv
  <1>3. JoinInv
    BY PlaceFacts DEF JoinInv, ThreadJoinWoken, InQueue, Queues
  <1>4. BlockedInv
    BY DEF BlockedInv
  <1> QED BY <1>1, <1>2, <1>3, <1>4 DEF WInv, HandoverInv

\* Every step keeps WInv from a state in which IInv holds.
LEMMA NextKeepsWInv == IInv /\ WInv /\ [Next]_vars => WInv'
  <1> SUFFICES ASSUME IInv, WInv, [Next]_vars PROVE WInv'
    OBVIOUS
  <1>1. HandoverInv'
    BY NextHandover DEF WInv, HandoverInv
  <1>2. LockInv' /\ JoinInv' /\ BlockedInv'
    <2>1. CASE \E c \in CPUs : LibStep(c)
      BY <2>1, LibStepOf, LibStepLock, LockStep, LibStepWaits DEF WInv
    <2>2. CASE \E c \in CPUs : UserStep(c)
      BY <2>2, UserStepOf, UserStepLock, LockStep, UserStepWaits DEF WInv
    <2>3. CASE UNCHANGED vars
      <3> USE <2>3 DEF vars, taskVars, cpuVars, queueVars
      <3>1. LockInv'
        BY DEF WInv, LockInv
      <3>2. JoinInv'
        BY DEF WInv, JoinInv, ThreadJoinWoken, InQueue
      <3>3. BlockedInv'
        BY DEF WInv, BlockedInv
      <3> QED BY <3>1, <3>2, <3>3
    <2> QED BY <2>1, <2>2, <2>3 DEF Next, Stopped
  <1> QED BY <1>1, <1>2 DEF WInv, HandoverInv

\* WInv holds in every state that any number of CPUs, tasks and queues can reach.
THEOREM Waiting == Spec => []WInv
  BY InitWInv, NextKeepsWInv, Invariance, PTL DEF Spec

\* A thread that joins u is never left in u's queue: whatever the order of its check, u's
\* exit and the notifications, u's notify_exit still has the queue ahead of it.
THEOREM NoLostExit == Spec => []ThreadJoinWoken
  <1>1. WInv => ThreadJoinWoken
    BY DEF WInv, JoinInv
  <1> QED BY <1>1, Waiting, PTL

\* Where a Blocked task can be found: in the queue it waits in, unless it is a coroutine that
\* blocks on a WakerQueue.
LEMMA BlockedFound ==
    ASSUME IInv, WInv, NEW t \in Tasks, state[t] = "Blocked",
           ~(t \in Coroutines /\ frame[t].q \in WakerQueues)
    PROVE  \E q \in Places : InQueue(t, q)
  <1>1. in_wait_queue[t]
    BY DEF WInv, BlockedInv
  <1> QED BY <1>1, PlaceFacts DEF IInv, InWaitQueueExact

\* A Blocked thread is always in a queue, where a notify finds it: neither a requeue nor a
\* race of notifiers loses it.
THEOREM NoLostThread == Spec => []NoBlockedThreadLost
  <1>1. IInv /\ WInv => NoBlockedThreadLost
    BY BlockedFound DEF NoBlockedThreadLost
  <1> QED BY <1>1, Invariance, Waiting, PTL

\* Without WakerQueues no Blocked task is lost, coroutine or thread.
THEOREM NoLostWaiter == WakerQueues = {} => (Spec => []NoBlockedTaskLost)
  <1> SUFFICES ASSUME WakerQueues = {} PROVE Spec => []NoBlockedTaskLost
    OBVIOUS
  <1>1. IInv /\ WInv => NoBlockedTaskLost
    BY BlockedFound DEF NoBlockedTaskLost
  <1> QED BY <1>1, Invariance, Waiting, PTL

\* Whoever holds the lock of a queue gets on: it is waking a task, and if that task's on_cpu
\* is still set, another CPU clears it without needing a lock.
THEOREM LockHolderProgress == Spec => []LockHolderGetsOn
  <1>1. ASSUME IInv, WInv PROVE LockHolderGetsOn
    <2> SUFFICES ASSUME NEW q \in Queues, lock[q] # None
                 PROVE  LET c == lock[q] IN
                        /\ pc[c] = "spin" /\ frame[current[c]].q = q
                        /\ on_cpu[waking[c]] => \E d \in CPUs \ {c} :
                              \/ pc[d] = "resched" /\ current[d] = waking[c]
                              \/ pc[d] \in {"switch", "resume"} /\ prev_task[d] = waking[c]
      BY DEF LockHolderGetsOn
    <2> DEFINE c == lock[q]
               t == waking[c]
    <2>1. c \in CPUs /\ pc[c] = "spin" /\ frame[current[c]].q = q
      BY <1>1 DEF IInv, TypeOK, WInv, LockInv
    <2>2. t \in Tasks /\ state[t] = "Ready"
      BY <1>1, <2>1 DEF IInv, ReadyInv, TypeOK
    <2> HIDE DEF c, t
    <2>3. ASSUME on_cpu[t]
          PROVE  \E d \in CPUs \ {c} :
                    \/ pc[d] = "resched" /\ current[d] = t
                    \/ pc[d] \in {"switch", "resume"} /\ prev_task[d] = t
      <3>1. PICK d \in CPUs : current[d] = t \/ (pc[d] \in {"switch", "resume"} /\ prev_task[d] = t)
        BY <1>1, <2>2, <2>3 DEF WInv, OnCpuJustified
      <3>2. CASE current[d] = t
        <4>1. ~Own(d)
          BY <1>1, <2>2, <3>2, CurrentFacts
        <4>2. frame[t].op # "exit"
          BY <1>1, <2>2 DEF IInv, FrameInv
        <4>3. pc[d] = "resched"
          BY <3>2, <4>1, <4>2 DEF Own, OwnAt
        <4> QED BY <2>1, <3>2, <4>3
      <3>3. CASE pc[d] \in {"switch", "resume"} /\ prev_task[d] = t
        BY <2>1, <3>3
      <3> QED BY <3>1, <3>2, <3>3
    <2> QED BY <2>1, <2>3 DEF c, t
  <1> QED BY <1>1, Invariance, Waiting, PTL

-----------------------------------------------------------------------------
(* Ready tasks, when the ready queues are large enough.                    *)

\* A ready queue has room for every task that is not an idle task.
HasRoom == IsFiniteSet(Tasks) /\ Cardinality(Tasks \ IdleTasks) <= RqCap

\* Then no enqueue fails: the queue holds each task at most once.
LEMMA RoomForOneMore ==
    ASSUME IInv, HasRoom, NEW c \in CPUs, NEW t \in Tasks \ IdleTasks,
           \A i \in 1..Len(rq[c]) : rq[c][i] # t
    PROVE  Enqueue(rq[c], t) = Append(rq[c], t)
  <1> DEFINE s == rq[c]
             r == Append(s, t)
             S == Tasks \ IdleTasks
  <1>1. s \in Seq(Tasks) /\ Len(s) \in Nat /\ RqCap \in Nat
    BY ParameterAssumption DEF IInv, TypeOK
  <1>2. /\ r \in Seq(Tasks) /\ Len(r) = Len(s) + 1
        /\ \A i \in 1..Len(s) : r[i] = s[i]
        /\ r[Len(s) + 1] = t
    BY <1>1, AppendFacts
  <1>3. \A i \in 1..Len(s) : s[i] \in S /\ s[i] # t
    BY <1>1 DEF IInv, ReadyInv, TypeOK
  <1>4. \A i, j \in 1..Len(s) : s[i] = s[j] => i = j
    BY DEF IInv, ReadyInv
  <1> HIDE DEF s, r, S
  <1>5. r \in [1..Len(r) -> S]
    <2>1. \A i \in 1..Len(r) : r[i] \in S
      BY <1>1, <1>2, <1>3 DEF S
    <2>2. r \in [1..Len(r) -> Tasks]
      BY <1>2
    <2> QED BY <2>1, <2>2
  <1>6. \A i, j \in 1..Len(r) : r[i] = r[j] => i = j
    <2>1. \A i \in 1..Len(r) : i \in 1..Len(s) \/ i = Len(s) + 1
      BY <1>1, <1>2
    <2> QED BY <1>2, <1>3, <1>4, <2>1
  <1>7. r \in Injection(1..Len(r), S)
    BY <1>5, <1>6 DEF Injection, IsInjective
  <1>8. IsFiniteSet(S) /\ Cardinality(S) \in Nat /\ Cardinality(S) <= RqCap
    BY FS_Subset, FS_CardinalityType DEF HasRoom, S
  <1>9. Cardinality(1..Len(r)) <= Cardinality(S)
    BY <1>7, <1>8, FS_Injection
  <1>10. Cardinality(1..Len(r)) = Len(r)
    <2>1. 1 \in Int /\ Len(r) \in Int /\ ~(1 > Len(r))
      BY <1>1, <1>2
    <2>2. Cardinality(1..Len(r)) = IF 1 > Len(r) THEN 0 ELSE Len(r) - 1 + 1
      BY <2>1, FS_Interval
    <2> QED BY <2>1, <2>2
  <1>11. Len(s) < RqCap
    BY <1>1, <1>2, <1>8, <1>9, <1>10
  <1> QED BY <1>11 DEF Enqueue, s

\* A step that makes nobody Ready and leaves the ready queues alone.
LEMMA ReadyKept ==
    ASSUME IInv, NoReadyTaskLost, UNCHANGED <<rq, waking, spawned>>,
           \A t \in Tasks : state'[t] = "Ready" => state[t] = "Ready"
    PROVE  NoReadyTaskLost'
  <1>1. spawned \subseteq Tasks
    BY DEF IInv, TypeOK
  <1>2. \A t \in Tasks : (InRq(t) => InRq(t)') /\ (Waking(t) => Waking(t)')
    BY DEF InRq, Waking
  <1> QED BY <1>1, <1>2 DEF NoReadyTaskLost

\* A task that becomes Ready, or is no more waited for, is put into a ready queue.
LEMMA ReadyEnqueued ==
    ASSUME IInv, HasRoom, NoReadyTaskLost, NEW c \in CPUs, NEW x \in Tasks \ IdleTasks,
           \A i \in 1..Len(rq[c]) : rq[c][i] # x,
           rq' = [rq EXCEPT ![c] = Enqueue(@, x)],
           \A t \in Tasks : t # x /\ state'[t] = "Ready" => state[t] = "Ready",
           \A t \in Tasks : t # x /\ Waking(t) => Waking(t)',
           spawned' \subseteq spawned \cup {x}
    PROVE  NoReadyTaskLost'
  <1>1. /\ rq'[c] = Append(rq[c], x)
        /\ \A d \in CPUs : d # c => rq'[d] = rq[d]
        /\ rq[c] \in Seq(Tasks)
    BY RoomForOneMore DEF IInv, TypeOK
  <1>2. /\ \A i \in 1..Len(rq[c]) : i \in 1..Len(rq'[c]) /\ rq'[c][i] = rq[c][i]
        /\ Len(rq[c]) + 1 \in 1..Len(rq'[c]) /\ rq'[c][Len(rq[c]) + 1] = x
    BY <1>1, AppendFacts
  <1>3. InRq(x)'
    BY <1>2 DEF InRq
  <1>4. \A t \in Tasks : InRq(t) => InRq(t)'
    BY <1>1, <1>2 DEF InRq
  <1>5. spawned \subseteq Tasks
    BY DEF IInv, TypeOK
  <1> QED BY <1>3, <1>4, <1>5 DEF NoReadyTaskLost

\* The picked task leaves the ready queue, and is Ready no more.
LEMMA PickReady ==
    ASSUME IInv, NoReadyTaskLost, NEW c \in CPUs, pc[c] = "resched", Pick(c),
           UNCHANGED <<waking, spawned>>
    PROVE  NoReadyTaskLost'
  <1> SUFFICES ASSUME NEW t \in spawned \ IdleTasks, state'[t] = "Ready"
               PROVE  InRq(t)' \/ Waking(t)'
    BY DEF NoReadyTaskLost
  <1>1. t \in Tasks /\ t # NextTask(c) /\ state[t] = "Ready"
    BY NextTaskFacts DEF Pick, IInv, TypeOK
  <1>2. CASE Waking(t)
    BY <1>2 DEF Waking
  <1>3. CASE ~Waking(t)
    <2>1. PICK d \in CPUs : \E i \in 1..Len(rq[d]) : rq[d][i] = t
      BY <1>1, <1>3 DEF NoReadyTaskLost, InRq
    <2>2. PICK i \in 1..Len(rq[d]) : rq[d][i] = t
      BY <2>1
    <2>3. CASE d # c \/ rq[c] = <<>>
      <3>1. rq'[d] = rq[d]
        BY <2>3 DEF Pick, IInv, TypeOK
      <3> QED BY <2>2, <3>1 DEF InRq
    <2>4. CASE d = c /\ rq[c] # <<>>
      <3>1. rq'[c] = Tail(rq[c]) /\ rq[c] \in Seq(Tasks) /\ NextTask(c) = Head(rq[c])
        BY <2>4 DEF Pick, IInv, TypeOK, NextTask
      <3>2. /\ Head(rq[c]) = rq[c][1] /\ Len(rq[c]) \in Nat
            /\ Len(Tail(rq[c])) = Len(rq[c]) - 1
            /\ \A j \in 1..Len(Tail(rq[c])) : Tail(rq[c])[j] = rq[c][j + 1]
        BY <2>4, <3>1, TailFacts
      <3>3. i # 1 /\ i \in 1..Len(rq[c])
        BY <1>1, <2>2, <2>4, <3>1, <3>2
      <3>4. i - 1 \in 1..Len(Tail(rq[c])) /\ Tail(rq[c])[i - 1] = rq[c][i - 1 + 1] /\ i - 1 + 1 = i
        BY <3>2, <3>3
      <3> QED BY <2>2, <2>4, <3>1, <3>4 DEF InRq
    <2> QED BY <2>3, <2>4
  <1> QED BY <1>2, <1>3

\* A woken task is Ready and in the hand of the CPU that wakes it.
LEMMA WakeUpReady ==
    ASSUME IInv, NoReadyTaskLost, NEW c \in CPUs, NEW q, NEW i, WakeUp(c, q, i), pc[c] # "spin"
    PROVE  NoReadyTaskLost'
  <1>1. /\ \A t \in Tasks : state'[t] = "Ready" => t = queue[q][i] \/ state[t] = "Ready"
        /\ waking'[c] = queue[q][i] /\ waking[c] = None
        /\ \A d \in CPUs : d # c => waking'[d] = waking[d]
        /\ UNCHANGED <<rq, spawned>> /\ spawned \subseteq Tasks
    BY DEF WakeUp, IInv, TypeOK, ReadyInv
  <1>2. \A t \in Tasks : Waking(t) => Waking(t)'
    BY <1>1, TaskAssumption DEF Waking
  <1>3. \A t \in Tasks : t = queue[q][i] => Waking(t)'
    BY <1>1 DEF Waking
  <1> QED BY <1>1, <1>2, <1>3 DEF NoReadyTaskLost, InRq

\* Steps inside the library lose no Ready task.
LEMMA LibStepReady ==
    ASSUME IInv, HasRoom, NoReadyTaskLost, NEW c \in CPUs, LibStep(c)
    PROVE  NoReadyTaskLost'
  <1> USE DEF At, Goto
  <1>1. CASE \/ CondThread(c) \/ CondCoroutine(c) \/ Block(c) \/ Cancel(c) \/ Pended(c)
             \/ NotifyEmpty(c) \/ NotifyLost(c) \/ FinishRequeue(c) \/ StoreExitCode(c)
             \/ PickWild(c) \/ Switch(c) \/ Resume(c) \/ Reap(c)
    <2>1. \A t \in Tasks : state'[t] = "Ready" => state[t] = "Ready"
      BY <1>1 DEF CondThread, CondCoroutine, Block, BlockOn, LeaveWaker, Cancel, Pended,
                  NotifyEmpty, NotifyLost, FinishRequeue, StoreExitCode,
                  PickWild, Switch, Resume, Reap, IInv, TypeOK, taskVars
    <2>2. UNCHANGED <<rq, waking, spawned>>
      BY <1>1 DEF CondThread, CondCoroutine, Block, BlockOn, LeaveWaker, Cancel, Pended,
                  NotifyEmpty, NotifyLost, FinishRequeue, StoreExitCode,
                  PickWild, Switch, Resume, Reap, taskVars, cpuVars
    <2> QED BY <2>1, <2>2, ReadyKept
  <1>2. CASE NotifyWake(c)
    BY <1>2, WakeUpReady DEF NotifyWake
  <1>3. CASE Spin(c)
    <2>1. pc[c] = "spin" /\ waking[c] \in Tasks \ IdleTasks
      BY <1>3 DEF Spin, IInv, ReadyInv, TypeOK
    <2>2. \A i \in 1..Len(rq[c]) : rq[c][i] # waking[c]
      BY DEF IInv, ReadyInv
    <2>3. \A t \in Tasks : t # waking[c] /\ Waking(t) => Waking(t)'
      BY <1>3 DEF Spin, Waking, IInv, TypeOK
    <2> QED BY <1>3, <2>1, <2>2, <2>3, ReadyEnqueued DEF Spin
  <1>4. CASE PickSelf(c)
    BY <1>4, PickReady DEF PickSelf
  <1>5. CASE PickOther(c)
    BY <1>5, PickReady DEF PickOther
  <1> QED BY <1>1, <1>2, <1>3, <1>4, <1>5 DEF LibStep

\* Calls by user code lose none.
LEMMA UserStepReady ==
    ASSUME IInv, HasRoom, NoReadyTaskLost, NEW c \in CPUs, UserStep(c)
    PROVE  NoReadyTaskLost'
  <1> USE DEF MayCall, At, Goto, cpuVars
  <1>1. CASE \E t \in UserTasks : Spawn(c, t)
    <2>1. PICK t \in UserTasks : Spawn(c, t)
      BY <1>1
    <2>2. t \in Tasks \ IdleTasks /\ \A i \in 1..Len(rq[c]) : rq[c][i] # t
      BY <2>1 DEF Spawn, UserTasks, IInv, ReadyInv
    <2>3. /\ rq' = [rq EXCEPT ![c] = Enqueue(@, t)] /\ spawned' = spawned \cup {t}
          /\ UNCHANGED <<state, waking>>
      BY <2>1 DEF Spawn
    <2>4. \A x \in Tasks : x # t /\ Waking(x) => Waking(x)'
      BY <2>3 DEF Waking
    <2> QED BY <2>2, <2>3, <2>4, ReadyEnqueued
  <1>2. CASE Yield(c)
    <2>1. /\ pc[c] = "run" /\ UNCHANGED <<spawned, waking>> /\ current[c] \in Tasks
          /\ \A x \in Tasks : x # current[c] /\ state'[x] = "Ready" => state[x] = "Ready"
      BY <1>2 DEF Yield, IInv, TypeOK
    <2>2. CASE current[c] \in IdleTasks
      <3>1. rq' = rq
        BY <1>2, <2>2 DEF Yield
      <3>2. spawned \subseteq Tasks
        BY <2>1 DEF IInv, TypeOK
      <3>3. \A t \in Tasks : (InRq(t) => InRq(t)') /\ (Waking(t) => Waking(t)')
        BY <2>1, <3>1 DEF InRq, Waking
      <3> QED BY <2>1, <2>2, <3>2, <3>3 DEF NoReadyTaskLost
    <2>3. CASE current[c] \notin IdleTasks
      <3>1. rq' = [rq EXCEPT ![c] = Enqueue(@, current[c])]
        BY <1>2, <2>3 DEF Yield
      <3>2. \A i \in 1..Len(rq[c]) : rq[c][i] # current[c]
        BY <2>1, CurrentNotQueued DEF Own, OwnAt
      <3>3. \A x \in Tasks : x # current[c] /\ Waking(x) => Waking(x)'
        BY <2>1 DEF Waking
      <3> QED BY <2>1, <2>3, <3>1, <3>2, <3>3, ReadyEnqueued
    <2> QED BY <2>2, <2>3
  <1>3. CASE Exit(c)
    <2>1. \A t \in Tasks : state'[t] = "Ready" => state[t] = "Ready"
      BY <1>3 DEF Exit, IInv, TypeOK
    <2> QED BY <1>3, <2>1, ReadyKept DEF Exit
  <1>4. CASE \E q \in WaitQueues : Wait(c, q)
    <2>1. PICK q \in WaitQueues : Wait(c, q)
      BY <1>4
    <2>2. \A t \in Tasks : state'[t] = "Ready" => state[t] = "Ready"
      BY <2>1 DEF Wait, BlockOn, IInv, TypeOK
    <2> QED BY <2>1, <2>2, ReadyKept DEF Wait, BlockOn
  <1>5. ASSUME NEW call, NEW q, NEW r, NEW n,
               \/ Join(c, q) \/ WaitUntil(c, call, q) \/ StartNotify(c, call, q, r)
               \/ WakerWait(c, q) \/ Requeue(c, q, r, n)
        PROVE  NoReadyTaskLost'
    BY <1>5, ReadyKept DEF Join, WaitUntil, StartNotify, WakerWait, LeaveWaker, Requeue
  <1>6. ASSUME NEW q, NEW i, NEW r, NotifyTask(c, q, i, r)
        PROVE  NoReadyTaskLost'
    <2>1. CASE WakeUp(c, q, i)
      BY <1>6, <2>1, WakeUpReady DEF NotifyTask
    <2>2. CASE ~WakeUp(c, q, i)
      BY <1>6, <2>2, ReadyKept DEF NotifyTask
    <2> QED BY <2>1, <2>2
  <1> QED BY <1>1, <1>2, <1>3, <1>4, <1>5, <1>6 DEF UserStep

\* A task that is Ready is in a ready queue or in the hand of a CPU that is about to put it
\* there, on any number of CPUs, as long as the ready queues are large enough: only the
\* ignored result of an enqueue into a full queue loses a task.
THEOREM NoLostReady == HasRoom => (Spec => []NoReadyTaskLost)
  <1> SUFFICES ASSUME HasRoom PROVE Spec => []NoReadyTaskLost
    OBVIOUS
  <1>1. Init => NoReadyTaskLost
    <2>1. Main \in BootTasks /\ Main \in Tasks
      BY CpuAssumption, TaskAssumption DEF BootTasks, BootTask
    <2> QED BY <2>1, TaskAssumption DEF Init, NoReadyTaskLost
  <1>2. IInv /\ NoReadyTaskLost /\ [Next]_vars => NoReadyTaskLost'
    <2> SUFFICES ASSUME IInv, NoReadyTaskLost, [Next]_vars PROVE NoReadyTaskLost'
      OBVIOUS
    <2>1. CASE UNCHANGED vars
      BY <2>1, ReadyKept DEF vars, taskVars, cpuVars
    <2> QED BY <2>1, LibStepReady, UserStepReady DEF Next, Stopped
  <1> QED BY <1>1, <1>2, Invariance, PTL DEF Spec

=============================================================================

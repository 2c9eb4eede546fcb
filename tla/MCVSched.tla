------------------------------- MODULE MCVSched -------------------------------
(***************************************************************************)
(* Instances of VSched for TLC: the CPUs are the numbers 0 and 1, the      *)
(* idle task of a CPU is a model value.                                    *)
(***************************************************************************)
EXTENDS VSched, TLC

CONSTANTS idle0, idle1

\* PerCPU::idle_task of the two CPUs.
TwoIdle == [c \in CPUs |-> IF c = 0 THEN idle0 ELSE idle1]

\* The tasks user code creates, when all are coroutines, are interchangeable; so are the
\* WaitQueues.
Symmetry == Permutations(UserTasks) \cup Permutations(WaitQueues)

\* What decides the steps that follow: every variable but the three that no guard, no other
\* variable's next value and no safety property of mixed_2cpu beside its types depends on
\* (need_resched, exit_code, released).
Behaviour == <<state, on_cpu, in_wait_queue, kstack, frame, spawned, current, prev_task,
               rq, pool, waking, queue, lock, pc, mode>>

=============================================================================

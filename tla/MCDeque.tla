------------------------------ MODULE MCDeque ------------------------------
(* Callers and their operations for model-checking LockFreeDeque.          *)
EXTENDS LockFreeDeque
CONSTANTS cpu0, cpu1

\* A ready queue: its CPU picks and puts back, the others put tasks.  (Round
\* robin never pops at the back; the deque can.)
Pushes == {"push_front", "push_back"}
Pops == {"pop_front", "pop_back"}
ReadyQueue == [p \in Procs |-> IF p = cpu0 THEN Pushes \cup Pops ELSE Pushes]

\* pick_next_task, put_prev_task and add_task return on the CPU that owns the
\* ready queue: it reschedules with interrupts off and must come out of them.
OwnerCallsEnd == CallEnds(cpu0)
=============================================================================

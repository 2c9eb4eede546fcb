----------------------------- MODULE MCBTreeMap -----------------------------
(* Callers and their operations for model-checking LockFreeBTreeMap.       *)
EXTENDS LockFreeBTreeMap, TLC
CONSTANTS cpu0, cpu1

\* Every caller may call everything, so callers are interchangeable.
ManyConsumers == [p \in Procs |-> Operations]
Symmetry == Permutations(Procs)
=============================================================================

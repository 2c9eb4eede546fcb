--------------------------- MODULE LockFreeDeque ---------------------------
(***************************************************************************)
(* utils/src/deque.rs: the bounded double-ended queue under the            *)
(* round-robin scheduler's ready queue.  A ring of CAPACITY slots, each    *)
(* with an atomic state, between two atomic indices: head is the first     *)
(* element, tail one past the last.  The four operations have one shape:   *)
(*                                                                         *)
(*   own      load the index of the end the operation works at             *)
(*   far      load the other index                                         *)
(*   recheck  load the own index again, start over if it moved; refuse     *)
(*            when the two values say full (push) or empty (pop)           *)
(*   claim    compare-exchange the slot, EMPTY -> WRITING or               *)
(*            READY -> READING                                             *)
(*   move     compare-exchange the own index                               *)
(*   settle   write or read the item, then publish READY or EMPTY          *)
(*   release  give the slot back when the index had moved, and start over  *)
(*                                                                         *)
(* The item is written or read while the slot is WRITING or READING, so    *)
(* that access and the store that publishes it are one step.               *)
(***************************************************************************)
EXTENDS Integers, Sequences, FiniteSets

CONSTANTS Procs,     \* threads or CPUs that call the deque
          Items,     \* what they push (a task is pushed once at a time)
          Allowed,   \* [Procs -> operations each of them calls]
          CAPACITY,  \* slots of the ring: it holds CAPACITY - 1 items
          WeakCAS,   \* whether compare_exchange_weak may fail spuriously
          None

Operations == {"push_front", "push_back", "pop_front", "pop_back"}

ASSUME CapacityAssumption == CAPACITY \in Nat \ {0, 1} /\ WeakCAS \in BOOLEAN
ASSUME CallAssumption == /\ Allowed \in [Procs -> SUBSET Operations]
                         /\ None \notin Items \cup Operations

VARIABLES ptr,    \* [head, tail]
          state,  \* slot -> EMPTY, WRITING, READY, READING
          data,   \* slot -> item
          pc, op, item,  \* per process: next step, operation, item to push
          own, far,      \* per process: the index values it loaded
          out,    \* items outside the deque and outside every call
          seen    \* history: the operation could have been refused honestly

vars == <<ptr, state, data, pc, op, item, own, far, out, seen>>

IsPush(o) == o \in {"push_front", "push_back"}
OwnEnd(o) == IF o \in {"push_front", "pop_front"} THEN "head" ELSE "tail"
FarEnd(o) == IF OwnEnd(o) = "head" THEN "tail" ELSE "head"
Backwards(o) == o \in {"push_front", "pop_back"}

Succ(i) == (i + 1) % CAPACITY
Pred(i) == IF i = 0 THEN CAPACITY - 1 ELSE i - 1

\* The value the operation gives the index it works at.
Moved(o, i) == IF Backwards(o) THEN Pred(i) ELSE Succ(i)
\* Faulty variant of Slot: push_front writes where the head is.
SlotAtIndex(o, i) == IF o = "pop_back" THEN Pred(i) ELSE i
\* The slot it works on.
Slot(o, i) == IF Backwards(o) THEN Pred(i) ELSE i

\* is_empty and "queue is full" on a pair of index values.
Refused(o, i, j) == IF IsPush(o) THEN Moved(o, i) = j ELSE i = j

\* The slot state the operation claims, and the one it holds meanwhile.
Wanted(o) == IF IsPush(o) THEN "EMPTY" ELSE "READY"
Held(o)   == IF IsPush(o) THEN "WRITING" ELSE "READING"

MySlot(p) == Slot(op[p], own[p])

-----------------------------------------------------------------------------
(* len(), on the indices of one state, and the contents, front first.      *)
len == IF ptr.tail >= ptr.head THEN ptr.tail - ptr.head
       ELSE CAPACITY - ptr.head + ptr.tail

Writer(s) == {p \in Procs : pc[p] = "settle" /\ IsPush(op[p]) /\ MySlot(p) = s}
Stored(s) == IF Writer(s) # {} THEN item[CHOOSE p \in Writer(s) : TRUE] ELSE data[s]
Contents == [n \in 1..len |-> Stored((ptr.head + n - 1) % CAPACITY)]

-----------------------------------------------------------------------------
Init ==
  /\ ptr = [head |-> 0, tail |-> 0]
  /\ state = [s \in 0..CAPACITY-1 |-> "EMPTY"]
  /\ data = [s \in 0..CAPACITY-1 |-> None]
  /\ pc = [p \in Procs |-> "idle"]
  /\ op = [p \in Procs |-> None]
  /\ item = [p \in Procs |-> None]
  /\ own = [p \in Procs |-> 0]
  /\ far = [p \in Procs |-> 0]
  /\ out = Items
  /\ seen = [p \in Procs |-> FALSE]

Goto(p, l) == pc' = [pc EXCEPT ![p] = l]

\* The call returns: its locals are gone.
Leave(p) ==
  /\ Goto(p, "idle")
  /\ op' = [op EXCEPT ![p] = None]
  /\ item' = [item EXCEPT ![p] = None]
  /\ own' = [own EXCEPT ![p] = 0]
  /\ far' = [far EXCEPT ![p] = 0]

\* Err(item) hands the item back, None hands out nothing.
Refuse(p) ==
  /\ out' = IF IsPush(op[p]) THEN out \cup {item[p]} ELSE out
  /\ Leave(p)
  /\ UNCHANGED <<ptr, state, data>>

Retry(p) == Goto(p, "own") /\ UNCHANGED <<op, item, own, far, out>>

Call(p) ==
  /\ pc[p] = "idle"
  /\ \E o \in Allowed[p] :
       /\ op' = [op EXCEPT ![p] = o]
       /\ IF IsPush(o)
          THEN \E i \in out : item' = [item EXCEPT ![p] = i] /\ out' = out \ {i}
          ELSE UNCHANGED <<item, out>>
  /\ Goto(p, "own")
  /\ UNCHANGED <<ptr, state, data, own, far>>

LoadOwn(p) ==
  /\ pc[p] = "own"
  /\ own' = [own EXCEPT ![p] = ptr[OwnEnd(op[p])]]
  /\ Goto(p, "far")
  /\ UNCHANGED <<ptr, state, data, op, item, far, out>>

LoadFar(p) ==
  /\ pc[p] = "far"
  /\ far' = [far EXCEPT ![p] = ptr[FarEnd(op[p])]]
  /\ Goto(p, "recheck")
  /\ UNCHANGED <<ptr, state, data, op, item, own, out>>

Recheck(p) ==
  /\ pc[p] = "recheck"
  /\ \/ /\ ptr[OwnEnd(op[p])] # own[p]
        /\ Retry(p)
        /\ UNCHANGED <<ptr, state, data>>
     \/ /\ ptr[OwnEnd(op[p])] = own[p]
        /\ Refused(op[p], own[p], far[p])
        /\ Refuse(p)
     \/ /\ ptr[OwnEnd(op[p])] = own[p]
        /\ ~Refused(op[p], own[p], far[p])
        /\ Goto(p, "claim")
        /\ UNCHANGED <<ptr, state, data, op, item, own, far, out>>

\* Faulty variants of ClaimFails and Claim: a pop takes a slot that is still
\* written for an empty deque; a push overlooks that another one is writing.
ClaimFailsEarly(p) ==
  /\ pc[p] = "claim"
  /\ state[MySlot(p)] # Wanted(op[p])
  /\ IF IsPush(op[p]) THEN Retry(p) /\ UNCHANGED <<ptr, state, data>> ELSE Refuse(p)
ClaimWriting(p) ==
  /\ pc[p] = "claim"
  /\ state[MySlot(p)] \in {Wanted(op[p]), "WRITING"}
  /\ state' = [state EXCEPT ![MySlot(p)] = Held(op[p])]
  /\ Goto(p, "move")
  /\ UNCHANGED <<ptr, data, op, item, own, far, out>>

\* The compare-exchange of the slot fails: a pop that finds the slot EMPTY
\* reports an empty deque, everyone else spins and starts over.
ClaimFails(p) ==
  /\ pc[p] = "claim"
  /\ state[MySlot(p)] # Wanted(op[p]) \/ WeakCAS
  /\ IF ~IsPush(op[p]) /\ state[MySlot(p)] = "EMPTY"
     THEN Refuse(p)
     ELSE Retry(p) /\ UNCHANGED <<ptr, state, data>>

Claim(p) ==
  /\ pc[p] = "claim"
  /\ state[MySlot(p)] = Wanted(op[p])
  /\ state' = [state EXCEPT ![MySlot(p)] = Held(op[p])]
  /\ Goto(p, "move")
  /\ UNCHANGED <<ptr, data, op, item, own, far, out>>

\* Faulty variant of Move: a store in place of the compare-exchange.
MoveStores(p) ==
  /\ pc[p] = "move"
  /\ ptr' = [ptr EXCEPT ![OwnEnd(op[p])] = Moved(op[p], own[p])]
  /\ Goto(p, "settle")
  /\ UNCHANGED <<state, data, op, item, own, far, out>>

Move(p) ==
  /\ pc[p] = "move"
  /\ ptr[OwnEnd(op[p])] = own[p]
  /\ ptr' = [ptr EXCEPT ![OwnEnd(op[p])] = Moved(op[p], own[p])]
  /\ Goto(p, "settle")
  /\ UNCHANGED <<state, data, op, item, own, far, out>>

MoveFails(p) ==
  /\ pc[p] = "move"
  /\ ptr[OwnEnd(op[p])] # own[p] \/ WeakCAS
  /\ Goto(p, "release")
  /\ UNCHANGED <<ptr, state, data, op, item, own, far, out>>

\* Faulty variants of Release: the slot is always marked EMPTY; it is kept.
ReleaseEmpty(p) ==
  /\ pc[p] = "release"
  /\ state' = [state EXCEPT ![MySlot(p)] = "EMPTY"]
  /\ Retry(p)
  /\ UNCHANGED <<ptr, data>>
ReleaseNothing(p) ==
  /\ pc[p] = "release"
  /\ Retry(p)
  /\ UNCHANGED <<ptr, state, data>>

Release(p) ==
  /\ pc[p] = "release"
  /\ state' = [state EXCEPT ![MySlot(p)] = Wanted(op[p])]
  /\ Retry(p)
  /\ UNCHANGED <<ptr, data>>

Settle(p) ==
  /\ pc[p] = "settle"
  /\ LET s == MySlot(p) IN
     IF IsPush(op[p])
     THEN /\ data' = [data EXCEPT ![s] = item[p]]
          /\ state' = [state EXCEPT ![s] = "READY"]
          /\ UNCHANGED out
     ELSE /\ data' = [data EXCEPT ![s] = None]   \* moved out
          /\ state' = [state EXCEPT ![s] = "EMPTY"]
          /\ out' = out \cup {data[s]}
  /\ Leave(p)
  /\ UNCHANGED ptr

Step(p) == \/ LoadOwn(p) \/ LoadFar(p) \/ Recheck(p)
           \/ Claim(p) \/ ClaimFails(p)
           \/ Move(p) \/ MoveFails(p) \/ Release(p) \/ Settle(p)

\* The history: since the call began the deque was full (push), empty (pop).
Remember ==
  seen' = [p \in Procs |->
             /\ pc'[p] # "idle"
             /\ \/ seen[p]
                \/ len' = (IF IsPush(op'[p]) THEN CAPACITY - 1 ELSE 0)]

Next == (\E p \in Procs : Call(p) \/ Step(p)) /\ Remember

Spec == Init /\ [][Next]_vars

\* A caller in the middle of an operation goes on with it, and a
\* compare_exchange_weak that could succeed does not fail spuriously for ever.
FairSpec ==
  /\ Spec
  /\ \A p \in Procs : /\ WF_vars(Step(p) /\ Remember)
                      /\ SF_vars(Claim(p) /\ Remember)
                      /\ SF_vars(Move(p) /\ Remember)

-----------------------------------------------------------------------------
(* Properties                                                              *)

Holding == {"move", "settle", "release"}

TypeOK ==
  /\ ptr \in [{"head", "tail"} -> 0..CAPACITY-1]
  /\ state \in [0..CAPACITY-1 -> {"EMPTY", "WRITING", "READY", "READING"}]
  /\ data \in [0..CAPACITY-1 -> Items \cup {None}]
  /\ pc \in [Procs -> {"idle", "own", "far", "recheck", "claim"} \cup Holding]
  /\ op \in [Procs -> Operations \cup {None}]
  /\ item \in [Procs -> Items \cup {None}]
  /\ own \in [Procs -> 0..CAPACITY-1] /\ far \in [Procs -> 0..CAPACITY-1]
  /\ out \subseteq Items
  /\ seen \in [Procs -> BOOLEAN]
  /\ \A p \in Procs : /\ pc[p] = "idle" <=> op[p] = None
                      /\ IsPush(op[p]) <=> item[p] # None

\* A slot is claimed (WRITING, READING) exactly when one operation works on
\* it, with the claim of that kind of operation.
SlotClaims ==
  \A s \in 0..CAPACITY-1 :
    LET holders == {p \in Procs : pc[p] \in Holding /\ MySlot(p) = s} IN
    IF state[s] \in {"WRITING", "READING"}
    THEN Cardinality(holders) = 1 /\ \A p \in holders : Held(op[p]) = state[s]
    ELSE holders = {}

\* A slot between head and tail holds an item, or is being written by the
\* push that reserved it or read by a pop that may still lose the race; a
\* slot outside is free, or in the hands of an operation that has not
\* moved its index yet or is leaving with the item.
WindowExact ==
  \A n \in 0..CAPACITY-1 :
    LET s == (ptr.head + n) % CAPACITY IN
    IF n < len
    THEN state[s] = "READY" \/ \E p \in Procs :
           /\ MySlot(p) = s
           /\ pc[p] \in (IF IsPush(op[p]) THEN {"settle"} ELSE {"move", "release"})
    ELSE state[s] = "EMPTY" \/ \E p \in Procs :
           /\ MySlot(p) = s
           /\ pc[p] \in (IF IsPush(op[p]) THEN {"move", "release"} ELSE {"settle"})

\* Every item is in one place: outside, in the deque, on its way in, or on
\* its way out.
EveryItemOnce ==
  \A i \in Items :
    Cardinality({n \in 1..len : Contents[n] = i})
    + Cardinality({p \in Procs : IF pc[p] = "settle"
                                 THEN ~IsPush(op[p]) /\ data[MySlot(p)] = i
                                 ELSE item[p] = i})
    + (IF i \in out THEN 1 ELSE 0) = 1

RefusedAs(p) == pc[p] \in {"recheck", "claim"} /\ pc'[p] = "idle"

\* pop_front, pop_back: "Returns None if the deque is empty".  A pop comes
\* back with nothing only if the deque was empty at some moment of the call.
NoneMeansEmpty ==
  [][\A p \in Procs : RefusedAs(p) /\ ~IsPush(op[p]) => seen[p]]_vars

\* A call that succeeds takes effect at one instant, the move of its index.
Abstract == INSTANCE Deque WITH
  seq <- Contents,
  call <- [p \in Procs |->
             [op |-> op[p],
              item |-> IF pc[p] = "settle" /\ ~IsPush(op[p]) THEN data[MySlot(p)]
                       ELSE item[p],
              done |-> pc[p] = "settle"]]
ImplementsDeque == Abstract!AbsSpec

\* push_front, push_back: "Returns Err(item) if the deque is full".  The last
\* slot is never filled, so that head = tail means empty: no item is in it.
EmptyHoldsNothing == len = 0 => \A s \in 0..CAPACITY-1 : state[s] # "READY"

\* The call of p returns, whatever the other callers do.
CallEnds(p) == pc[p] # "idle" ~> pc[p] = "idle"
=============================================================================

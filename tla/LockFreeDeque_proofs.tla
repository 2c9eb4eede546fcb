------------------------ MODULE LockFreeDeque_proofs ------------------------
(***************************************************************************)
(* Proofs about LockFreeDeque, for every set of callers, of items, and     *)
(* every capacity: slots are claimed exclusively; and while the ring is    *)
(* larger than the number of items, the window between the indices is      *)
(* exact and every item is in one place.                                   *)
(***************************************************************************)
EXTENDS LockFreeDeque, FiniteSetTheorems, TLAPS

-----------------------------------------------------------------------------
(* The inductive invariants                                                *)

\* A claimed slot has a holder, a holder has its claim, and has it alone.
ClaimInv ==
  /\ \A p \in Procs : pc[p] \in Holding => state[MySlot(p)] = Held(op[p])
  /\ \A p, q \in Procs :
       pc[p] \in Holding /\ pc[q] \in Holding /\ MySlot(p) = MySlot(q) => p = q
  /\ \A s \in 0..CAPACITY-1 : state[s] \in {"WRITING", "READING"} =>
       \E p \in Procs : pc[p] \in Holding /\ MySlot(p) = s

\* The slots whose data is an item of the deque, and where each item is.
Filled(s) == state[s] \in {"READY", "READING"}
ItemInv ==
  /\ \A s \in 0..CAPACITY-1 : Filled(s) =>
       data[s] \in Items \ out /\ \A p \in Procs : item[p] # data[s]
  /\ \A s, r \in 0..CAPACITY-1 :
       Filled(s) /\ Filled(r) /\ data[s] = data[r] => s = r
  /\ \A p \in Procs : item[p] \notin out
  /\ \A p, q \in Procs : item[p] = item[q] /\ item[p] # None => p = q
  /\ \A i \in Items \ out : \/ \E s \in 0..CAPACITY-1 : Filled(s) /\ data[s] = i
                            \/ \E p \in Procs : item[p] = i

\* How far a slot is from the head, and whether the window holds it.
Offset(s) == IF s >= ptr.head THEN s - ptr.head ELSE s - ptr.head + CAPACITY
Inside(s) == Offset(s) < len
WindowInv ==
  \A s \in 0..CAPACITY-1 :
    Inside(s) <=> \/ state[s] = "READY"
                  \/ \E p \in Procs :
                       /\ MySlot(p) = s
                       /\ pc[p] \in (IF IsPush(op[p]) THEN {"settle"}
                                     ELSE {"move", "release"})

\* The ring is larger than the number of items in use: its callers never
\* fill the last slot (see EmptyHoldsNothing).
HasRoom == IsFiniteSet(Items) /\ Cardinality(Items) < CAPACITY

\* The invariant under NoneMeansEmpty when one caller pops (pick_next_task,
\* on the CPU of the ready queue).  Only pushes move the end a pop works at
\* away from its own value (Gap), or the other end away from the value it
\* loaded there (between the two: Reach), so the deque keeps what the pop saw.
OnePopper ==
  \A p, q \in Procs : ~(\A o \in Allowed[p] : IsPush(o)) /\ ~(\A o \in Allowed[q] : IsPush(o))
                     => p = q
Dist(i, j) == IF j >= i THEN j - i ELSE j - i + CAPACITY
Gap(p) == IF op[p] = "pop_front" THEN Dist(ptr.head, own[p]) ELSE Dist(own[p], ptr.tail)
Reach(p) == IF op[p] = "pop_front" THEN Dist(own[p], far[p]) ELSE Dist(far[p], own[p])
PopInv ==
  \A p \in Procs :
    /\ op[p] \in Allowed[p] \cup {None}
    /\ pc[p] # "idle" /\ ~IsPush(op[p]) =>
         /\ len = 0 => seen[p]
         /\ pc[p] \in {"far", "recheck", "claim"} => Gap(p) <= len
         /\ pc[p] = "recheck" => Gap(p) + Reach(p) <= len
         /\ pc[p] = "recheck" /\ Gap(p) = 0 /\ Reach(p) = 0 => seen[p]
         /\ pc[p] = "claim" => Gap(p) < len

Indices == 0..CAPACITY-1
IInv == TypeOK /\ ClaimInv /\ ItemInv

-----------------------------------------------------------------------------
(* Indices and operations                                                  *)

\* Succ without the remainder.
LEMMA SuccIs ==
  ASSUME NEW i \in Indices
  PROVE  Succ(i) = IF i = CAPACITY - 1 THEN 0 ELSE i + 1
<1> USE CapacityAssumption DEF Indices, Succ
<1>1. CASE i = CAPACITY - 1
  <2>1. i + 1 = CAPACITY /\ CAPACITY % CAPACITY = 0
    BY <1>1
  <2> QED BY <1>1, <2>1
<1>2. CASE i # CAPACITY - 1
  <2>1. i + 1 \in 0..CAPACITY-1
    BY <1>2
  <2>2. (i + 1) % CAPACITY = i + 1
    BY <2>1
  <2> QED BY <1>2, <2>2
<1> QED BY <1>1, <1>2

\* The slots and the indices an operation works with are in the ring.
LEMMA InRing ==
  ASSUME NEW i \in Indices, NEW o
  PROVE  /\ Pred(i) \in Indices /\ Succ(i) \in Indices
         /\ Moved(o, i) \in Indices /\ Slot(o, i) \in Indices
<1>1. Pred(i) \in Indices /\ Succ(i) \in Indices
  BY CapacityAssumption, SuccIs DEF Indices, Pred
<1> QED BY <1>1 DEF Moved, Slot

\* Every holder of a slot is in the middle of one of the four operations.
LEMMA Calls ==
  ASSUME TypeOK, NEW p \in Procs
  PROVE  /\ MySlot(p) \in Indices
         /\ OwnEnd(op[p]) \in {"head", "tail"} /\ FarEnd(op[p]) \in {"head", "tail"}
         /\ pc[p] # "idle" => op[p] \in Operations
         /\ IsPush(op[p]) => item[p] \in Items
         /\ ~IsPush(op[p]) => item[p] = None
         /\ ~IsPush(None)
<1>1. own[p] \in Indices
  BY DEF TypeOK, Indices
<1>2. ~IsPush(None)
  BY CallAssumption DEF IsPush, Operations
<1> QED BY <1>1, <1>2, InRing DEF TypeOK, MySlot, OwnEnd, FarEnd

-----------------------------------------------------------------------------
(* The inductive invariant                                                 *)

LEMMA InitInv == Init => IInv
<1> SUFFICES ASSUME Init PROVE IInv
  OBVIOUS
<1> USE CapacityAssumption, CallAssumption
<1>1. TypeOK
  BY DEF Init, TypeOK, Operations, Holding, IsPush
<1>2. ClaimInv
  BY DEF Init, ClaimInv, Holding
<1>3. ItemInv
  BY DEF Init, ItemInv, Filled
<1> QED BY <1>1, <1>2, <1>3 DEF IInv

\* What Remember adds keeps the type of the history.
LEMMA SeenType == ASSUME TypeOK, Remember PROVE seen' \in [Procs -> BOOLEAN]
<1> DEFINE S(p) == /\ pc'[p] # "idle"
                   /\ \/ seen[p]
                      \/ len' = (IF IsPush(op'[p]) THEN CAPACITY - 1 ELSE 0)
<1>1. \A p \in Procs : S(p) \in BOOLEAN
  OBVIOUS
<1> HIDE DEF S
<1>2. seen' = [p \in Procs |-> S(p)]
  BY DEF Remember, S
<1> QED BY <1>1, <1>2

\* A process that holds no slot before and after leaves the claims alone.
LEMMA ClaimsKept ==
  ASSUME ClaimInv, NEW p \in Procs, state' = state,
         pc[p] \notin Holding, pc'[p] \notin Holding,
         \A q \in Procs \ {p} : pc'[q] = pc[q] /\ op'[q] = op[q] /\ own'[q] = own[q]
  PROVE  ClaimInv'
<1>1. ASSUME NEW q \in Procs, pc'[q] \in Holding
      PROVE  q # p /\ pc[q] \in Holding /\ op'[q] = op[q] /\ MySlot(q)' = MySlot(q)
  BY <1>1 DEF MySlot
<1>2. ASSUME NEW q \in Procs, pc[q] \in Holding
      PROVE  q # p /\ pc'[q] \in Holding /\ MySlot(q)' = MySlot(q)
  BY <1>2 DEF MySlot
<1> QED BY <1>1, <1>2 DEF ClaimInv

LEMMA CallKeeps == ASSUME IInv, NEW p \in Procs, Call(p), Remember PROVE IInv'
<1> USE DEF IInv
<1>1. PICK o \in Allowed[p] :
        /\ op' = [op EXCEPT ![p] = o]
        /\ IF IsPush(o)
           THEN \E i \in out : item' = [item EXCEPT ![p] = i] /\ out' = out \ {i}
           ELSE UNCHANGED <<item, out>>
  BY DEF Call
<1>2. pc[p] = "idle" /\ pc' = [pc EXCEPT ![p] = "own"]
      /\ UNCHANGED <<ptr, state, data, own, far>>
  BY DEF Call, Goto
<1>3. o \in Operations /\ o # None
  BY CallAssumption
<1>4. item[p] = None
  BY <1>2, Calls DEF TypeOK
<1>5. ClaimInv'
  BY <1>1, <1>2, ClaimsKept DEF TypeOK, Holding
<1>6. CASE IsPush(o)
  <2>1. PICK i \in out : item' = [item EXCEPT ![p] = i] /\ out' = out \ {i}
    BY <1>1, <1>6
  <2>2. i \in Items /\ i # None
    BY CallAssumption DEF TypeOK
  <2>3. TypeOK'
    BY <1>1, <1>2, <1>3, <1>6, <2>1, <2>2, SeenType DEF TypeOK
  <2>4. ItemInv'
    <3>1. \A q \in Procs : item'[q] = IF q = p THEN i ELSE item[q]
      BY <2>1 DEF TypeOK
    <3>2. \A s \in 0..CAPACITY-1 : Filled(s)' => data'[s] \in Items \ out' /\ data[s] # i
      BY <1>2, <2>1 DEF ItemInv, Filled
    <3>3. \A s \in 0..CAPACITY-1 : Filled(s)' => \A q \in Procs : item'[q] # data'[s]
      BY <1>2, <3>1, <3>2 DEF ItemInv, Filled
    <3>4. \A q, r \in Procs : item'[q] = item'[r] /\ item'[q] # None => q = r
      BY <2>1, <3>1 DEF ItemInv
    <3>5. \A j \in Items \ out' : \/ \E s \in 0..CAPACITY-1 : Filled(s)' /\ data'[s] = j
                                  \/ \E q \in Procs : item'[q] = j
      <4> SUFFICES ASSUME NEW j \in Items \ out',
                          ~\E s \in 0..CAPACITY-1 : Filled(s)' /\ data'[s] = j
                   PROVE  \E q \in Procs : item'[q] = j
        OBVIOUS
      <4>1. CASE j = i
        BY <3>1, <4>1
      <4>2. CASE j # i
        <5>1. j \in Items \ out
          BY <2>1, <4>2
        <5>2. PICK q \in Procs : item[q] = j
          BY <1>2, <5>1 DEF ItemInv, Filled
        <5>3. q # p
          BY <1>4, <5>2, CallAssumption
        <5> QED BY <3>1, <5>2, <5>3
      <4> QED BY <4>1, <4>2
    <3>6. \A q \in Procs : item'[q] \notin out'
      BY <2>1, <3>1 DEF ItemInv
    <3> QED BY <1>2, <3>2, <3>3, <3>4, <3>5, <3>6 DEF ItemInv, Filled
  <2> QED BY <1>5, <2>3, <2>4
<1>7. CASE ~IsPush(o)
  <2>1. TypeOK'
    BY <1>1, <1>2, <1>3, <1>4, <1>7, SeenType DEF TypeOK
  <2>2. ItemInv'
    BY <1>1, <1>2, <1>7 DEF ItemInv, Filled
  <2> QED BY <1>5, <2>1, <2>2
<1> QED BY <1>6, <1>7

\* The operation starts over, whether it comes from a check or a lost claim.
LEMMA RetryKeeps ==
  ASSUME IInv, NEW p \in Procs, pc[p] \in {"recheck", "claim"}, Retry(p),
         UNCHANGED <<ptr, state, data>>, Remember
  PROVE  IInv'
<1> USE DEF IInv
<1>1. pc' = [pc EXCEPT ![p] = "own"] /\ UNCHANGED <<op, item, own, far, out>>
  BY DEF Retry, Goto
<1>2. TypeOK'
  BY <1>1, SeenType DEF TypeOK
<1>3. ClaimInv'
  BY <1>1, ClaimsKept DEF TypeOK, Holding
<1>4. ItemInv'
  BY <1>1 DEF ItemInv, Filled
<1> QED BY <1>2, <1>3, <1>4

\* A refused push hands its item back.
LEMMA RefuseKeeps ==
  ASSUME IInv, NEW p \in Procs, pc[p] \in {"recheck", "claim"}, Refuse(p), Remember
  PROVE  IInv'
<1> USE DEF IInv
<1>1. /\ pc' = [pc EXCEPT ![p] = "idle"] /\ op' = [op EXCEPT ![p] = None]
      /\ item' = [item EXCEPT ![p] = None]
      /\ own' = [own EXCEPT ![p] = 0] /\ far' = [far EXCEPT ![p] = 0]
      /\ out' = IF IsPush(op[p]) THEN out \cup {item[p]} ELSE out
      /\ UNCHANGED <<ptr, state, data>>
  BY DEF Refuse, Leave, Goto
<1>2. 0 \in 0..CAPACITY-1
  BY CapacityAssumption
<1>3. TypeOK'
  BY <1>1, <1>2, Calls, SeenType DEF TypeOK
<1>4. ClaimInv'
  BY <1>1, ClaimsKept DEF TypeOK, Holding
<1>5. CASE IsPush(op[p])
  <2>1. item[p] \in Items /\ item[p] # None /\ out' = out \cup {item[p]}
    BY <1>1, <1>5, Calls, CallAssumption
  <2>2. ItemInv'
    <3>1. \A q \in Procs : item'[q] = IF q = p THEN None ELSE item[q]
      BY <1>1 DEF TypeOK
    <3>2. \A s \in 0..CAPACITY-1 : Filled(s)' => data'[s] \in Items \ out'
      BY <1>1, <2>1 DEF ItemInv, Filled
    <3>3. \A s \in 0..CAPACITY-1 : Filled(s)' => \A q \in Procs : item'[q] # data'[s]
      BY <1>1, <3>1, <3>2, CallAssumption DEF ItemInv, Filled
    <3>4. \A q, r \in Procs : item'[q] = item'[r] /\ item'[q] # None => q = r
      BY <3>1 DEF ItemInv
    <3>5. \A j \in Items \ out' : \/ \E s \in 0..CAPACITY-1 : Filled(s)' /\ data'[s] = j
                                  \/ \E q \in Procs : item'[q] = j
      <4> SUFFICES ASSUME NEW j \in Items \ out',
                          ~\E s \in 0..CAPACITY-1 : Filled(s)' /\ data'[s] = j
                   PROVE  \E q \in Procs : item'[q] = j
        OBVIOUS
      <4>1. j \in Items \ out /\ j # item[p]
        BY <2>1
      <4>2. PICK q \in Procs : item[q] = j
        BY <1>1, <4>1 DEF ItemInv, Filled
      <4> QED BY <3>1, <4>1, <4>2
    <3>6. \A q \in Procs : item'[q] \notin out'
      <4>1. None \notin out'
        BY <2>1, CallAssumption DEF TypeOK
      <4>2. \A q \in Procs \ {p} : item[q] # item[p] /\ item[q] \notin out
        BY <2>1 DEF ItemInv
      <4> QED BY <2>1, <3>1, <4>1, <4>2
    <3> QED BY <1>1, <3>2, <3>3, <3>4, <3>5, <3>6 DEF ItemInv, Filled
  <2> QED BY <1>3, <1>4, <2>2
<1>6. CASE ~IsPush(op[p])
  <2>1. item[p] = None /\ item' = item /\ out' = out
    BY <1>1, <1>6, Calls DEF TypeOK
  <2>2. ItemInv'
    BY <1>1, <2>1 DEF ItemInv, Filled
  <2> QED BY <1>3, <1>4, <2>2
<1> QED BY <1>5, <1>6

\* The loads, and the checks that let the operation go on.
LEMMA LoadsKeep ==
  ASSUME IInv, NEW p \in Procs,
         LoadOwn(p) \/ LoadFar(p) \/ Recheck(p) \/ ClaimFails(p), Remember
  PROVE  IInv'
<1>1. CASE LoadOwn(p)
  <2>1. /\ pc[p] = "own" /\ pc' = [pc EXCEPT ![p] = "far"]
        /\ own' = [own EXCEPT ![p] = ptr[OwnEnd(op[p])]]
        /\ UNCHANGED <<ptr, state, data, op, item, far, out>>
    BY <1>1 DEF LoadOwn, Goto
  <2>2. TypeOK'
    BY <2>1, Calls, SeenType DEF IInv, TypeOK
  <2>3. ClaimInv'
    BY <2>1, ClaimsKept DEF IInv, TypeOK, Holding
  <2>4. ItemInv'
    BY <2>1 DEF IInv, ItemInv, Filled
  <2> QED BY <2>2, <2>3, <2>4 DEF IInv
<1>2. CASE LoadFar(p)
  <2>1. /\ pc[p] = "far" /\ pc' = [pc EXCEPT ![p] = "recheck"]
        /\ far' = [far EXCEPT ![p] = ptr[FarEnd(op[p])]]
        /\ UNCHANGED <<ptr, state, data, op, item, own, out>>
    BY <1>2 DEF LoadFar, Goto
  <2>2. TypeOK'
    BY <2>1, Calls, SeenType DEF IInv, TypeOK
  <2>3. ClaimInv'
    BY <2>1, ClaimsKept DEF IInv, TypeOK, Holding
  <2>4. ItemInv'
    BY <2>1 DEF IInv, ItemInv, Filled
  <2> QED BY <2>2, <2>3, <2>4 DEF IInv
<1>3. CASE Recheck(p)
  <2>1. CASE /\ pc[p] = "recheck" /\ pc' = [pc EXCEPT ![p] = "claim"]
             /\ UNCHANGED <<ptr, state, data, op, item, own, far, out>>
    <3>1. TypeOK'
      BY <2>1, SeenType DEF IInv, TypeOK
    <3>2. ClaimInv'
      BY <2>1, ClaimsKept DEF IInv, TypeOK, Holding
    <3>3. ItemInv'
      BY <2>1 DEF IInv, ItemInv, Filled
    <3> QED BY <3>1, <3>2, <3>3 DEF IInv
  <2> QED BY <1>3, <2>1, RetryKeeps, RefuseKeeps DEF Recheck, Goto
<1>4. CASE ClaimFails(p)
  BY <1>4, RetryKeeps, RefuseKeeps DEF ClaimFails
<1> QED BY <1>1, <1>2, <1>3, <1>4

\* The compare-exchange of the slot: the state says nobody holds it.
LEMMA ClaimKeeps == ASSUME IInv, NEW p \in Procs, Claim(p), Remember PROVE IInv'
<1> DEFINE s == MySlot(p)
<1>1. /\ pc[p] = "claim" /\ state[s] = Wanted(op[p])
      /\ state' = [state EXCEPT ![s] = Held(op[p])]
      /\ pc' = [pc EXCEPT ![p] = "move"]
      /\ UNCHANGED <<ptr, data, op, item, own, far, out>>
  BY DEF Claim, Goto
<1>2. s \in 0..CAPACITY-1
  BY Calls DEF IInv, Indices
<1>3. \A q \in Procs : pc[q] \in Holding => MySlot(q) # s
  BY <1>1 DEF IInv, ClaimInv, Wanted, Held
<1>4. \A q \in Procs : MySlot(q)' = MySlot(q) /\ MySlot(q) \in 0..CAPACITY-1
  BY <1>1, Calls DEF MySlot, IInv, Indices
<1>5. \A r \in 0..CAPACITY-1 : state'[r] = IF r = s THEN Held(op[p]) ELSE state[r]
  BY <1>1 DEF IInv, TypeOK
<1>6. \A q \in Procs : pc'[q] = IF q = p THEN "move" ELSE pc[q]
  BY <1>1 DEF IInv, TypeOK
<1> HIDE DEF s
<1>7. TypeOK'
  BY <1>1, <1>2, SeenType DEF IInv, TypeOK, Held, Holding
<1>8. ClaimInv'
  <2>1. \A q \in Procs : pc'[q] \in Holding <=> q = p \/ pc[q] \in Holding
    BY <1>6 DEF Holding
  <2>2. \A q \in Procs : pc'[q] \in Holding => state'[MySlot(q)'] = Held(op'[q])
    BY <1>1, <1>2, <1>3, <1>4, <1>5, <2>1 DEF IInv, ClaimInv, s
  <2>3. \A q, r \in Procs :
          pc'[q] \in Holding /\ pc'[r] \in Holding /\ MySlot(q)' = MySlot(r)' => q = r
    BY <1>3, <1>4, <2>1 DEF IInv, ClaimInv, s
  <2>4. ASSUME NEW r \in 0..CAPACITY-1, state'[r] \in {"WRITING", "READING"}
        PROVE  \E q \in Procs : pc'[q] \in Holding /\ MySlot(q)' = r
    <3>1. CASE r = s
      BY <1>4, <2>1, <3>1 DEF s
    <3>2. CASE r # s
      BY <1>4, <1>5, <2>1, <2>4, <3>2 DEF IInv, ClaimInv
    <3> QED BY <3>1, <3>2
  <2> QED BY <2>2, <2>3, <2>4 DEF ClaimInv
<1>9. ItemInv'
  <2>1. \A r \in 0..CAPACITY-1 : Filled(r)' <=> Filled(r)
    BY <1>1, <1>5 DEF Filled, Wanted, Held
  <2> QED BY <1>1, <2>1 DEF IInv, ItemInv
<1> QED BY <1>7, <1>8, <1>9 DEF IInv

\* The move of the index, won or lost: the claim stays.
LEMMA MovesKeep ==
  ASSUME IInv, NEW p \in Procs, Move(p) \/ MoveFails(p), Remember
  PROVE  IInv'
<1>1. /\ pc[p] = "move"
      /\ pc' = [pc EXCEPT ![p] = "settle"] \/ pc' = [pc EXCEPT ![p] = "release"]
      /\ ptr' = ptr \/ ptr' = [ptr EXCEPT ![OwnEnd(op[p])] = Moved(op[p], own[p])]
      /\ UNCHANGED <<state, data, op, item, own, far, out>>
  BY DEF Move, MoveFails, Goto
<1>2. Moved(op[p], own[p]) \in 0..CAPACITY-1
  BY InRing DEF IInv, TypeOK, Indices
<1>3. ptr' \in [{"head", "tail"} -> 0..CAPACITY-1]
  BY <1>1, <1>2 DEF IInv, TypeOK
<1>4. pc' \in [Procs -> {"idle", "own", "far", "recheck", "claim"} \cup Holding]
  <2>1. pc \in [Procs -> {"idle", "own", "far", "recheck", "claim"} \cup Holding]
    BY DEF IInv, TypeOK
  <2> QED BY <1>1, <2>1 DEF Holding
<1>5. \A q \in Procs : /\ pc'[q] \in Holding <=> pc[q] \in Holding
                       /\ pc'[q] = "idle" <=> pc[q] = "idle"
                       /\ MySlot(q)' = MySlot(q)
  <2>1. pc \in [Procs -> {"idle", "own", "far", "recheck", "claim"} \cup Holding]
    BY DEF IInv, TypeOK
  <2>2. \A q \in Procs : MySlot(q)' = MySlot(q)
    BY <1>1 DEF MySlot
  <2> QED BY <1>1, <2>1, <2>2 DEF Holding
<1>6. TypeOK'
  BY <1>1, <1>3, <1>4, <1>5, SeenType DEF IInv, TypeOK
<1>7. ClaimInv'
  BY <1>1, <1>5 DEF IInv, ClaimInv
<1>8. ItemInv'
  BY <1>1 DEF IInv, ItemInv, Filled
<1> QED BY <1>6, <1>7, <1>8 DEF IInv

\* What the state of every slot and the item of every caller become when the
\* holder p of a slot gives it up.
LEMMA ClaimsDropped ==
  ASSUME IInv, NEW p \in Procs, NEW l \in {"own", "idle"}, NEW v,
         pc[p] \in Holding, pc' = [pc EXCEPT ![p] = l],
         state' = [state EXCEPT ![MySlot(p)] = v], v \in {"EMPTY", "READY"},
         \A q \in Procs \ {p} : op'[q] = op[q] /\ own'[q] = own[q]
  PROVE  /\ ClaimInv'
         /\ state' \in [0..CAPACITY-1 -> {"EMPTY", "WRITING", "READY", "READING"}]
         /\ \A r \in 0..CAPACITY-1 : state'[r] = IF r = MySlot(p) THEN v ELSE state[r]
<1> DEFINE s == MySlot(p)
<1>1. s \in 0..CAPACITY-1
  BY Calls DEF IInv, Indices
<1>2. \A r \in 0..CAPACITY-1 : state'[r] = IF r = s THEN v ELSE state[r]
  BY DEF IInv, TypeOK
<1>3. state' \in [0..CAPACITY-1 -> {"EMPTY", "WRITING", "READY", "READING"}]
  BY <1>1 DEF IInv, TypeOK
<1>4. \A q \in Procs : pc'[q] \in Holding <=> q # p /\ pc[q] \in Holding
  BY DEF IInv, TypeOK, Holding
<1>5. \A q \in Procs \ {p} : MySlot(q)' = MySlot(q) /\ MySlot(q) \in 0..CAPACITY-1
  BY Calls DEF MySlot, IInv, Indices
<1>6. \A q \in Procs \ {p} : pc[q] \in Holding => MySlot(q) # s
  BY DEF IInv, ClaimInv
<1> HIDE DEF s
<1>7. \A q \in Procs : pc'[q] \in Holding => state'[MySlot(q)'] = Held(op'[q])
  BY <1>2, <1>4, <1>5, <1>6 DEF IInv, ClaimInv
<1>8. \A q, r \in Procs :
        pc'[q] \in Holding /\ pc'[r] \in Holding /\ MySlot(q)' = MySlot(r)' => q = r
  BY <1>4, <1>5 DEF IInv, ClaimInv
<1>9. ASSUME NEW r \in 0..CAPACITY-1, state'[r] \in {"WRITING", "READING"}
      PROVE  \E q \in Procs : pc'[q] \in Holding /\ MySlot(q)' = r
  <2>1. r # s /\ state[r] \in {"WRITING", "READING"}
    BY <1>2, <1>9
  <2>2. PICK q \in Procs : pc[q] \in Holding /\ MySlot(q) = r
    BY <2>1 DEF IInv, ClaimInv
  <2>3. q # p
    BY <2>1, <2>2 DEF s
  <2> QED BY <1>4, <1>5, <2>2, <2>3
<1> QED BY <1>2, <1>3, <1>7, <1>8, <1>9 DEF ClaimInv, s

\* The slot goes back as it was found, with its item when it had one.
LEMMA ReleaseKeeps == ASSUME IInv, NEW p \in Procs, Release(p), Remember PROVE IInv'
<1> DEFINE s == MySlot(p)
<1>1. /\ pc[p] = "release" /\ pc' = [pc EXCEPT ![p] = "own"]
      /\ state' = [state EXCEPT ![s] = Wanted(op[p])]
      /\ UNCHANGED <<ptr, data, op, item, own, far, out>>
  BY DEF Release, Retry, Goto
<1>2. Wanted(op[p]) \in {"EMPTY", "READY"} /\ pc[p] \in Holding
  BY <1>1 DEF Wanted, Holding
<1>3. /\ ClaimInv'
      /\ state' \in [0..CAPACITY-1 -> {"EMPTY", "WRITING", "READY", "READING"}]
      /\ \A r \in 0..CAPACITY-1 : state'[r] = IF r = s THEN Wanted(op[p]) ELSE state[r]
  BY <1>1, <1>2, ClaimsDropped
<1>4. state[s] = Held(op[p])
  BY <1>2 DEF IInv, ClaimInv
<1> HIDE DEF s
<1>5. TypeOK'
  BY <1>1, <1>3, SeenType DEF IInv, TypeOK
<1>6. ItemInv'
  <2>1. \A r \in 0..CAPACITY-1 : Filled(r)' <=> Filled(r)
    BY <1>3, <1>4 DEF Filled, Wanted, Held
  <2> QED BY <1>1, <2>1 DEF IInv, ItemInv
<1> QED BY <1>3, <1>5, <1>6 DEF IInv

\* The push fills its slot; the pop takes the item of its slot out.
LEMMA SettleKeeps == ASSUME IInv, NEW p \in Procs, Settle(p), Remember PROVE IInv'
<1> DEFINE s == MySlot(p)
           v == IF IsPush(op[p]) THEN "READY" ELSE "EMPTY"
<1>1. /\ pc[p] = "settle" /\ pc' = [pc EXCEPT ![p] = "idle"]
      /\ op' = [op EXCEPT ![p] = None] /\ item' = [item EXCEPT ![p] = None]
      /\ own' = [own EXCEPT ![p] = 0] /\ far' = [far EXCEPT ![p] = 0]
      /\ state' = [state EXCEPT ![s] = v] /\ ptr' = ptr
      /\ IF IsPush(op[p]) THEN data' = [data EXCEPT ![s] = item[p]] /\ out' = out
         ELSE data' = [data EXCEPT ![s] = None] /\ out' = out \cup {data[s]}
  BY DEF Settle, Leave, Goto
<1>2. v \in {"EMPTY", "READY"} /\ pc[p] \in Holding
  BY <1>1 DEF Holding
<1>3. s \in 0..CAPACITY-1 /\ 0 \in 0..CAPACITY-1
  BY Calls, CapacityAssumption DEF IInv, Indices
<1>4. \A q \in Procs \ {p} : op'[q] = op[q] /\ own'[q] = own[q]
  BY <1>1 DEF IInv, TypeOK
<1>5. /\ ClaimInv'
      /\ state' \in [0..CAPACITY-1 -> {"EMPTY", "WRITING", "READY", "READING"}]
      /\ \A r \in 0..CAPACITY-1 : state'[r] = IF r = s THEN v ELSE state[r]
  BY <1>1, <1>2, <1>4, ClaimsDropped
<1>6. state[s] = Held(op[p])
  BY <1>2 DEF IInv, ClaimInv
<1>7. \A q \in Procs : item'[q] = IF q = p THEN None ELSE item[q]
  BY <1>1 DEF IInv, TypeOK
<1>8. op' \in [Procs -> Operations \cup {None}] /\ item' \in [Procs -> Items \cup {None}]
      /\ own' \in [Procs -> 0..CAPACITY-1] /\ far' \in [Procs -> 0..CAPACITY-1]
      /\ pc' \in [Procs -> {"idle", "own", "far", "recheck", "claim"} \cup Holding]
  BY <1>1, <1>3 DEF IInv, TypeOK
<1>9. \A q \in Procs : (pc'[q] = "idle" <=> op'[q] = None)
                       /\ (IsPush(op'[q]) <=> item'[q] # None)
  BY <1>1, Calls DEF IInv, TypeOK
<1> HIDE DEF s
<1>10. CASE IsPush(op[p])
  <2>1. v = "READY" /\ state[s] = "WRITING" /\ item[p] \in Items /\ item[p] # None
    BY <1>6, <1>10, Calls, CallAssumption DEF Held, IInv
  <2>2. \A r \in 0..CAPACITY-1 : data'[r] = IF r = s THEN item[p] ELSE data[r]
    BY <1>1, <1>10 DEF IInv, TypeOK
  <2>3. data' \in [0..CAPACITY-1 -> Items \cup {None}] /\ out' = out
    BY <1>1, <1>10, <2>1 DEF IInv, TypeOK
  <2>4. TypeOK'
    BY <1>1, <1>5, <1>8, <1>9, <2>3, SeenType DEF IInv, TypeOK
  <2>5. \A r \in 0..CAPACITY-1 : Filled(r)' <=> Filled(r) \/ r = s
    BY <1>3, <1>5, <2>1 DEF Filled
  <2>6. \A r \in 0..CAPACITY-1 : Filled(r)' =>
          data'[r] \in Items \ out' /\ \A q \in Procs : item'[q] # data'[r]
    <3>1. ASSUME NEW r \in 0..CAPACITY-1, r # s, Filled(r)
          PROVE  data[r] \in Items \ out /\ \A q \in Procs : item'[q] # data[r]
      BY <1>7, <3>1, CallAssumption DEF IInv, ItemInv
    <3>2. item[p] \notin out /\ \A q \in Procs : item'[q] # item[p]
      BY <1>7, <2>1 DEF IInv, ItemInv
    <3> QED BY <2>1, <2>2, <2>3, <2>5, <3>1, <3>2
  <2>7. \A r, w \in 0..CAPACITY-1 :
          Filled(r)' /\ Filled(w)' /\ data'[r] = data'[w] => r = w
    <3>1. \A r \in 0..CAPACITY-1 : Filled(r) => data[r] # item[p]
      BY DEF IInv, ItemInv
    <3>2. \A r, w \in 0..CAPACITY-1 : Filled(r) /\ Filled(w) /\ data[r] = data[w] => r = w
      BY DEF IInv, ItemInv
    <3> QED BY <2>2, <2>5, <3>1, <3>2
  <2>8. \A q \in Procs : item'[q] \notin out'
    <3>1. None \notin out /\ \A q \in Procs : item[q] \notin out
      BY CallAssumption DEF IInv, ItemInv, TypeOK
    <3> QED BY <1>7, <2>3, <3>1
  <2>9. \A q, r \in Procs : item'[q] = item'[r] /\ item'[q] # None => q = r
    BY <1>7 DEF IInv, ItemInv
  <2>10. ASSUME NEW i \in Items \ out'
         PROVE  \/ \E r \in 0..CAPACITY-1 : Filled(r)' /\ data'[r] = i
                \/ \E q \in Procs : item'[q] = i
    <3>1. CASE i = item[p]
      BY <1>3, <2>2, <2>5, <3>1
    <3>2. CASE i # item[p]
      <4>1. ~Filled(s)
        BY <2>1 DEF Filled
      <4>2. \/ \E r \in 0..CAPACITY-1 : Filled(r) /\ data[r] = i
            \/ \E q \in Procs : item[q] = i
        BY <2>3 DEF IInv, ItemInv
      <4> QED BY <1>7, <2>2, <2>5, <3>2, <4>1, <4>2
    <3> QED BY <3>1, <3>2
  <2>11. ItemInv'
    BY <2>6, <2>7, <2>8, <2>9, <2>10 DEF ItemInv
  <2> QED BY <1>5, <2>4, <2>11 DEF IInv
<1>11. CASE ~IsPush(op[p])
  <2>1. v = "EMPTY" /\ state[s] = "READING" /\ item[p] = None
    BY <1>6, <1>11, Calls DEF Held, IInv
  <2>2. \A r \in 0..CAPACITY-1 : data'[r] = IF r = s THEN None ELSE data[r]
    BY <1>1, <1>11 DEF IInv, TypeOK
  <2>3. data[s] \in Items
    BY <1>3, <2>1 DEF IInv, ItemInv, Filled
  <2>4. data' \in [0..CAPACITY-1 -> Items \cup {None}] /\ out' = out \cup {data[s]}
        /\ out' \subseteq Items
    BY <1>1, <1>11, <2>3 DEF IInv, TypeOK
  <2>5. TypeOK'
    BY <1>1, <1>5, <1>8, <1>9, <2>4, SeenType DEF IInv, TypeOK
  <2>6. \A r \in 0..CAPACITY-1 : Filled(r)' <=> Filled(r) /\ r # s
    BY <1>3, <1>5, <2>1 DEF Filled
  <2>7. \A q \in Procs : item'[q] = item[q]
    BY <1>7, <2>1
  <2>8. Filled(s)
    BY <2>1 DEF Filled
  <2>9. ItemInv'
    <3>1. \A r \in 0..CAPACITY-1 : Filled(r)' =>
            data'[r] \in Items \ out' /\ \A q \in Procs : item'[q] # data'[r]
      <4> SUFFICES ASSUME NEW r \in 0..CAPACITY-1, Filled(r), r # s
                   PROVE  data[r] \in Items \ out' /\ \A q \in Procs : item'[q] # data[r]
        BY <2>2, <2>6
      <4>1. data[r] # data[s]
        BY <1>3, <2>8 DEF IInv, ItemInv
      <4> QED BY <2>4, <2>7, <4>1 DEF IInv, ItemInv
    <3>2. \A r, w \in 0..CAPACITY-1 :
            Filled(r)' /\ Filled(w)' /\ data'[r] = data'[w] => r = w
      BY <2>2, <2>6 DEF IInv, ItemInv
    <3>3. \A q \in Procs : item'[q] \notin out'
      BY <1>3, <2>4, <2>7, <2>8 DEF IInv, ItemInv
    <3>4. \A q, r \in Procs : item'[q] = item'[r] /\ item'[q] # None => q = r
      BY <2>7 DEF IInv, ItemInv
    <3>5. ASSUME NEW i \in Items \ out'
          PROVE  \/ \E r \in 0..CAPACITY-1 : Filled(r)' /\ data'[r] = i
                 \/ \E q \in Procs : item'[q] = i
      <4>1. \/ \E r \in 0..CAPACITY-1 : Filled(r) /\ data[r] = i
            \/ \E q \in Procs : item[q] = i
        BY <2>4 DEF IInv, ItemInv
      <4>2. i # data[s]
        BY <2>4
      <4> QED BY <2>2, <2>6, <2>7, <4>1, <4>2
    <3> QED BY <3>1, <3>2, <3>3, <3>4, <3>5 DEF ItemInv
  <2> QED BY <1>5, <2>5, <2>9 DEF IInv
<1> QED BY <1>10, <1>11

LEMMA IInvStep == IInv /\ [Next]_vars => IInv'
<1> SUFFICES ASSUME IInv, [Next]_vars PROVE IInv'
  OBVIOUS
<1>1. CASE UNCHANGED vars
  BY <1>1 DEF vars, IInv, TypeOK, ClaimInv, ItemInv, Filled, MySlot
<1>2. CASE Next
  <2>1. PICK p \in Procs : (Call(p) \/ Step(p)) /\ Remember
    BY <1>2 DEF Next
  <2> QED BY <2>1, CallKeeps, LoadsKeep, ClaimKeeps, MovesKeep, ReleaseKeeps, SettleKeeps
          DEF Step
<1> QED BY <1>1, <1>2

\* Types, claims and the places of the items, of the four operations in any
\* interleaving, whatever the number of items.
THEOREM Inductive == Spec => []IInv
BY InitInv, IInvStep, PTL DEF Spec

\* A slot is WRITING or READING exactly while one operation holds it, with
\* the claim of that kind of operation: no two callers write or read a slot
\* at once.
THEOREM SlotsExclusive == Spec => []SlotClaims
<1>1. ASSUME IInv PROVE SlotClaims
  <2> SUFFICES ASSUME NEW s \in 0..CAPACITY-1
               PROVE  LET holders == {p \in Procs : pc[p] \in Holding /\ MySlot(p) = s} IN
                      IF state[s] \in {"WRITING", "READING"}
                      THEN Cardinality(holders) = 1 /\ \A p \in holders : Held(op[p]) = state[s]
                      ELSE holders = {}
    BY DEF SlotClaims
  <2> DEFINE holders == {p \in Procs : pc[p] \in Holding /\ MySlot(p) = s}
  <2>1. \A p \in holders : Held(op[p]) = state[s] /\ Held(op[p]) \in {"WRITING", "READING"}
    BY <1>1 DEF IInv, ClaimInv, Held
  <2>2. ASSUME state[s] \in {"WRITING", "READING"} PROVE Cardinality(holders) = 1
    <3>1. PICK p \in Procs : pc[p] \in Holding /\ MySlot(p) = s
      BY <1>1, <2>2 DEF IInv, ClaimInv
    <3>2. holders = {p}
      BY <1>1, <3>1 DEF IInv, ClaimInv
    <3> QED BY <3>2, FS_Singleton
  <2> QED BY <2>1, <2>2
<1> QED BY <1>1, Inductive, PTL

-----------------------------------------------------------------------------
(* The window between the indices                                          *)

\* The n-th slot of the window, as Contents counts them.
At(n) == (ptr.head + n - 1) % CAPACITY

LEMMA PtrInRing ==
  ASSUME TypeOK
  PROVE  ptr.head \in Indices /\ ptr.tail \in Indices /\ len \in Indices
<1>1. ptr.head \in Indices /\ ptr.tail \in Indices
  BY DEF TypeOK, Indices
<1> QED BY <1>1, CapacityAssumption DEF len, Indices

\* The position of a slot and the slot at a position.
LEMMA Positions ==
  ASSUME TypeOK
  PROVE  /\ \A n \in 1..CAPACITY : /\ At(n) = IF ptr.head + n - 1 < CAPACITY THEN ptr.head + n - 1
                                              ELSE ptr.head + n - 1 - CAPACITY
                                   /\ At(n) \in Indices /\ Offset(At(n)) = n - 1
         /\ \A s \in Indices : Offset(s) \in Indices /\ At(Offset(s) + 1) = s
<1> USE CapacityAssumption DEF Indices
<1>1. ptr.head \in Indices
  BY PtrInRing
<1>2. \A x \in 0..2*CAPACITY-1 : x % CAPACITY = IF x < CAPACITY THEN x ELSE x - CAPACITY
  OBVIOUS
<1>3. ASSUME NEW n \in 1..CAPACITY
      PROVE  /\ At(n) = IF ptr.head + n - 1 < CAPACITY THEN ptr.head + n - 1
                        ELSE ptr.head + n - 1 - CAPACITY
             /\ At(n) \in Indices /\ Offset(At(n)) = n - 1
  <2> DEFINE x == ptr.head + n - 1
  <2>1. x \in 0..2*CAPACITY-1
    BY <1>1
  <2>2. At(n) = x % CAPACITY
    BY DEF At
  <2>3. At(n) = IF x < CAPACITY THEN x ELSE x - CAPACITY
    <3> HIDE DEF x
    <3> QED BY <1>2, <2>1, <2>2
  <2> QED BY <1>1, <2>3 DEF Offset
<1>4. ASSUME NEW s \in Indices
      PROVE  Offset(s) \in Indices /\ At(Offset(s) + 1) = s
  <2>1. Offset(s) \in Indices /\ Offset(s) + 1 \in 1..CAPACITY
    BY <1>1 DEF Offset
  <2> QED BY <1>1, <1>3, <2>1 DEF Offset
<1> QED BY <1>3, <1>4

\* The slots of the window are those at its positions.
LEMMA InsideAt ==
  ASSUME TypeOK
  PROVE  /\ \A n \in 1..len : At(n) \in Indices /\ Inside(At(n))
         /\ \A n, m \in 1..len : At(n) = At(m) => n = m
         /\ \A s \in Indices : Inside(s) => \E n \in 1..len : At(n) = s
<1>1. len \in Nat /\ len < CAPACITY
  BY PtrInRing, CapacityAssumption DEF Indices
<1>2. \A n \in 1..len : n \in 1..CAPACITY /\ At(n) \in Indices /\ Offset(At(n)) = n - 1
  BY <1>1, Positions, CapacityAssumption
<1>3. ASSUME NEW s \in Indices, Inside(s) PROVE \E n \in 1..len : At(n) = s
  <2>1. Offset(s) + 1 \in 1..len /\ At(Offset(s) + 1) = s
    BY <1>1, <1>3, Positions, CapacityAssumption DEF Inside, Indices
  <2> QED BY <2>1
<1> QED BY <1>1, <1>2, <1>3 DEF Inside

\* The move of an index takes one slot into the window or out of it.
LEMMA MoveWindow ==
  ASSUME TypeOK, NEW p \in Procs, op[p] \in Operations,
         ptr[OwnEnd(op[p])] = own[p],
         ptr' = [ptr EXCEPT ![OwnEnd(op[p])] = Moved(op[p], own[p])]
  PROVE  /\ IsPush(op[p]) /\ len < CAPACITY - 1 =>
              /\ len' = len + 1
              /\ \A s \in Indices : Inside(s)' <=> Inside(s) \/ s = MySlot(p)
         /\ ~IsPush(op[p]) /\ Inside(MySlot(p)) =>
              /\ len' = len - 1
              /\ \A s \in Indices : Inside(s)' <=> Inside(s) /\ s # MySlot(p)
<1>1. ptr.head \in Indices /\ ptr.tail \in Indices
  BY PtrInRing
<1>2. \A i \in Indices : Succ(i) = IF i = CAPACITY - 1 THEN 0 ELSE i + 1
  BY SuccIs
<1>3. DOMAIN ptr = {"head", "tail"}
  BY DEF TypeOK
<1> USE CapacityAssumption DEF Indices
<1>4. CASE op[p] = "push_front"
  <2>1. ~Backwards("push_back") /\ Backwards(op[p]) /\ IsPush(op[p]) /\ OwnEnd(op[p]) = "head"
    BY <1>4 DEF Backwards, IsPush, OwnEnd
  <2>2. ptr'.head = Pred(ptr.head) /\ ptr'.tail = ptr.tail /\ MySlot(p) = Pred(ptr.head)
    BY <1>3, <2>1 DEF Moved, MySlot, Slot
  <2> QED BY <1>1, <2>1, <2>2 DEF Inside, Offset, len, Pred
<1>5. CASE op[p] = "push_back"
  <2>1. ~Backwards(op[p]) /\ IsPush(op[p]) /\ OwnEnd(op[p]) = "tail"
    BY <1>5 DEF Backwards, IsPush, OwnEnd
  <2>2. ptr'.tail = Succ(ptr.tail) /\ ptr'.head = ptr.head /\ MySlot(p) = ptr.tail
    BY <1>3, <2>1 DEF Moved, MySlot, Slot
  <2> QED BY <1>1, <1>2, <2>1, <2>2 DEF Inside, Offset, len
<1>6. CASE op[p] = "pop_front"
  <2>1. ~Backwards(op[p]) /\ ~IsPush(op[p]) /\ OwnEnd(op[p]) = "head"
    BY <1>6 DEF Backwards, IsPush, OwnEnd
  <2>2. ptr'.head = Succ(ptr.head) /\ ptr'.tail = ptr.tail /\ MySlot(p) = ptr.head
    BY <1>3, <2>1 DEF Moved, MySlot, Slot
  <2> QED BY <1>1, <1>2, <2>1, <2>2 DEF Inside, Offset, len
<1>7. CASE op[p] = "pop_back"
  <2>1. Backwards(op[p]) /\ ~IsPush(op[p]) /\ OwnEnd(op[p]) = "tail"
    BY <1>7 DEF Backwards, IsPush, OwnEnd
  <2>2. ptr'.tail = Pred(ptr.tail) /\ ptr'.head = ptr.head /\ MySlot(p) = Pred(ptr.tail)
    BY <1>3, <2>1 DEF Moved, MySlot, Slot
  <2> QED BY <1>1, <2>1, <2>2 DEF Inside, Offset, len, Pred
<1> QED BY <1>4, <1>5, <1>6, <1>7 DEF Operations

\* What a slot of the window stores: the item of the push that writes it,
\* or its data.
LEMMA StoredIs ==
  ASSUME IInv, WindowInv, NEW s \in Indices, Inside(s)
  PROVE  /\ Stored(s) \in Items \ out
         /\ \/ Filled(s) /\ Stored(s) = data[s]
            \/ \E p \in Procs : /\ pc[p] = "settle" /\ IsPush(op[p]) /\ MySlot(p) = s
                                /\ Stored(s) = item[p] /\ state[s] = "WRITING"
<1>1. s \in 0..CAPACITY-1
  BY DEF Indices
<1>2. CASE Writer(s) # {}
  <2>1. PICK p \in Writer(s) : Stored(s) = item[p]
    BY <1>2 DEF Stored
  <2>2. p \in Procs /\ pc[p] = "settle" /\ IsPush(op[p]) /\ MySlot(p) = s
    BY <2>1 DEF Writer
  <2>3. state[s] = "WRITING"
    BY <2>2 DEF IInv, ClaimInv, Holding, Held
  <2>4. item[p] \in Items \ out
    BY <2>2, Calls DEF IInv, ItemInv
  <2> QED BY <2>1, <2>2, <2>3, <2>4
<1>3. CASE Writer(s) = {}
  <2>1. Stored(s) = data[s]
    BY <1>3 DEF Stored
  <2>2. Filled(s)
    <3>1. CASE state[s] = "READY"
      BY <3>1 DEF Filled
    <3>2. CASE state[s] # "READY"
      <4>1. PICK p \in Procs : MySlot(p) = s /\
              pc[p] \in (IF IsPush(op[p]) THEN {"settle"} ELSE {"move", "release"})
        BY <1>1, <3>2 DEF WindowInv
      <4>2. ~IsPush(op[p])
        BY <1>3, <4>1 DEF Writer
      <4> QED BY <4>1, <4>2 DEF IInv, ClaimInv, Holding, Held, Filled
    <3> QED BY <3>1, <3>2
  <2> QED BY <1>1, <2>1, <2>2 DEF IInv, ItemInv
<1> QED BY <1>2, <1>3

\* No two slots of the window store the same item.
LEMMA StoredOnce ==
  ASSUME IInv, WindowInv, NEW s \in Indices, NEW r \in Indices, Inside(s), Inside(r),
         Stored(s) = Stored(r)
  PROVE  s = r
<1>1. s \in 0..CAPACITY-1 /\ r \in 0..CAPACITY-1
  BY DEF Indices
<1> DEFINE Written(x, p) == /\ pc[p] = "settle" /\ IsPush(op[p]) /\ MySlot(p) = x
                            /\ Stored(x) = item[p]
<1>2. \/ Filled(s) /\ Stored(s) = data[s]
      \/ \E p \in Procs : Written(s, p)
  BY StoredIs
<1>3. \/ Filled(r) /\ Stored(r) = data[r]
      \/ \E p \in Procs : Written(r, p)
  BY StoredIs
<1>4. CASE Filled(s) /\ Stored(s) = data[s]
  <2>1. \A p \in Procs : item[p] # Stored(r)
    BY <1>1, <1>4 DEF IInv, ItemInv
  <2>2. Filled(r) /\ Stored(r) = data[r]
    BY <1>3, <2>1
  <2> QED BY <1>1, <1>4, <2>2 DEF IInv, ItemInv
<1>5. CASE \E p \in Procs : Written(s, p)
  <2>1. PICK p \in Procs : Written(s, p)
    BY <1>5
  <2>2. item[p] = Stored(r) /\ item[p] # None
    BY <2>1, Calls, CallAssumption DEF IInv
  <2>3. PICK q \in Procs : Written(r, q)
    BY <1>1, <1>3, <2>2 DEF IInv, ItemInv
  <2>4. p = q
    BY <2>2, <2>3 DEF IInv, ItemInv
  <2> QED BY <2>1, <2>3, <2>4
<1> QED BY <1>2, <1>4, <1>5

\* While the ring is larger than the number of items, a push that may move
\* its index has a free place: a full window and the item of the push would
\* be CAPACITY items.
LEMMA RoomToMove ==
  ASSUME IInv, WindowInv, HasRoom, NEW p \in Procs, pc[p] = "move", IsPush(op[p])
  PROVE  len < CAPACITY - 1
<1> SUFFICES ASSUME len = CAPACITY - 1 PROVE FALSE
  BY PtrInRing, CapacityAssumption DEF IInv, Indices
<1> DEFINE f == [s \in Indices |-> IF Inside(s) THEN Stored(s) ELSE item[p]]
<1>1. item[p] \in Items
  BY Calls DEF IInv
<1>2. f \in [Indices -> Items]
  BY <1>1, StoredIs
<1>3. IsFiniteSet(Indices) /\ Cardinality(Indices) = CAPACITY
  BY FS_Interval, CapacityAssumption DEF Indices
<1>4. PICK s \in Indices, r \in Indices : s # r /\ f[s] = f[r]
  <2> HIDE DEF f
  <2> QED BY <1>2, <1>3, FS_PigeonHole DEF HasRoom
<1>5. ASSUME NEW x \in Indices, NEW y \in Indices, ~Inside(x), ~Inside(y) PROVE x = y
  <2>1. Offset(x) = CAPACITY - 1 /\ Offset(y) = CAPACITY - 1
    BY <1>5, Positions, CapacityAssumption DEF IInv, Indices, Inside
  <2> QED BY <2>1, Positions DEF IInv
<1>6. ASSUME NEW x \in Indices, Inside(x) PROVE Stored(x) # item[p]
  <2>1. CASE Filled(x) /\ Stored(x) = data[x]
    BY <2>1 DEF IInv, ItemInv, Indices
  <2>2. CASE \E q \in Procs : pc[q] = "settle" /\ IsPush(op[q]) /\ Stored(x) = item[q]
    BY <1>1, <2>2, CallAssumption DEF IInv, ItemInv
  <2> QED BY <1>6, <2>1, <2>2, StoredIs
<1> QED BY <1>4, <1>5, <1>6, StoredOnce

\* The operation p keeps its slot s in the window without it being READY.
Keeps(p, s) ==
  MySlot(p) = s /\ pc[p] \in (IF IsPush(op[p]) THEN {"settle"} ELSE {"move", "release"})

LEMMA WindowIs ==
  WindowInv <=> \A s \in Indices :
                  Inside(s) <=> state[s] = "READY" \/ \E p \in Procs : Keeps(p, s)
BY DEF WindowInv, Keeps, Indices

\* A step before the claim.
LEMMA WindowKept ==
  ASSUME IInv, WindowInv, NEW p \in Procs, ptr' = ptr, state' = state,
         pc[p] \notin Holding, pc'[p] \notin Holding,
         \A q \in Procs \ {p} : pc'[q] = pc[q] /\ op'[q] = op[q] /\ own'[q] = own[q]
  PROVE  WindowInv'
<1>1. \A q \in Procs \ {p}, s \in Indices : Keeps(q, s)' <=> Keeps(q, s)
  BY DEF Keeps, MySlot
<1>2. \A s \in Indices : ~Keeps(p, s) /\ ~Keeps(p, s)'
  BY DEF Keeps, Holding
<1>3. \A s \in Indices : Inside(s)' <=> Inside(s)
  BY DEF Inside, Offset, len
<1> QED BY <1>1, <1>2, <1>3, WindowIs DEF WindowInv, Keeps, Indices

\* A step of the holder p of the slot s: what it keeps, and what others do.
LEMMA OthersKeep ==
  ASSUME IInv, NEW p \in Procs, pc[p] \in Holding,
         \A q \in Procs \ {p} : pc'[q] = pc[q] /\ op'[q] = op[q] /\ own'[q] = own[q]
  PROVE  /\ \A q \in Procs \ {p}, s \in Indices : Keeps(q, s)' <=> Keeps(q, s)
         /\ \A q \in Procs \ {p} : ~Keeps(q, MySlot(p))
         /\ state[MySlot(p)] = Held(op[p])
<1>1. \A q \in Procs \ {p}, s \in Indices : Keeps(q, s)' <=> Keeps(q, s)
  BY DEF Keeps, MySlot
<1>2. \A q \in Procs, s \in Indices : Keeps(q, s) => pc[q] \in Holding
  BY DEF Keeps, Holding
<1>3. \A q \in Procs \ {p} : ~Keeps(q, MySlot(p))
  BY DEF IInv, ClaimInv, Keeps, Holding
<1> QED BY <1>1, <1>3 DEF IInv, ClaimInv

LEMMA WindowStep == IInv /\ WindowInv /\ HasRoom /\ [Next]_vars => WindowInv'
<1> SUFFICES ASSUME IInv, WindowInv, HasRoom, [Next]_vars PROVE WindowInv'
  OBVIOUS
<1>1. CASE UNCHANGED vars
  BY <1>1 DEF vars, WindowInv, Inside, Offset, len, MySlot
<1>2. CASE Next
  <2>1. PICK p \in Procs : Call(p) \/ Step(p)
    BY <1>2 DEF Next
  <2> DEFINE s == MySlot(p)
  <2>2. s \in Indices
    BY Calls DEF IInv
  <2>3. ASSUME Call(p) \/ LoadOwn(p) \/ LoadFar(p) \/ Recheck(p) \/ ClaimFails(p)
        PROVE  WindowInv'
    <3>1. /\ ptr' = ptr /\ state' = state
          /\ pc[p] \in {"idle", "own", "far", "recheck", "claim"}
          /\ \E l \in {"idle", "own", "far", "recheck", "claim"} : pc' = [pc EXCEPT ![p] = l]
          /\ op' = op \/ \E o \in Operations \cup {None} : op' = [op EXCEPT ![p] = o]
          /\ own' = own \/ \E i \in Indices \cup {0} : own' = [own EXCEPT ![p] = i]
      <4>1. CASE Call(p)
        BY <4>1, CallAssumption DEF Call, Goto
      <4>2. CASE LoadOwn(p)
        BY <4>2, Calls DEF LoadOwn, Goto, IInv, TypeOK, Indices
      <4>3. CASE LoadFar(p)
        BY <4>3 DEF LoadFar, Goto
      <4>4. CASE Recheck(p)
        BY <4>4 DEF Recheck, Retry, Refuse, Leave, Goto
      <4>5. CASE ClaimFails(p)
        BY <4>5 DEF ClaimFails, Retry, Refuse, Leave, Goto
      <4> QED BY <2>3, <4>1, <4>2, <4>3, <4>4, <4>5
    <3>2. pc[p] \notin Holding /\ pc'[p] \notin Holding
      BY <3>1 DEF IInv, TypeOK, Holding
    <3>3. \A q \in Procs \ {p} : pc'[q] = pc[q] /\ op'[q] = op[q] /\ own'[q] = own[q]
      BY <3>1 DEF IInv, TypeOK
    <3> QED BY <3>1, <3>2, <3>3, WindowKept
  <2>4. CASE Claim(p)
    <3>1. /\ pc[p] = "claim" /\ state[s] = Wanted(op[p])
          /\ state' = [state EXCEPT ![s] = Held(op[p])]
          /\ pc' = [pc EXCEPT ![p] = "move"] /\ UNCHANGED <<ptr, op, own>>
      BY <2>4 DEF Claim, Goto
    <3>2. \A r \in Indices : state'[r] = IF r = s THEN Held(op[p]) ELSE state[r]
      BY <3>1 DEF IInv, TypeOK, Indices
    <3>3. \A q \in Procs : pc'[q] = IF q = p THEN "move" ELSE pc[q]
      BY <3>1 DEF IInv, TypeOK
    <3>4. \A q \in Procs \ {p}, r \in Indices : Keeps(q, r)' <=> Keeps(q, r)
      BY <3>1, <3>3 DEF Keeps, MySlot
    <3>5. \A r \in Indices : ~Keeps(p, r) /\ (Keeps(p, r)' <=> r = s /\ ~IsPush(op[p]))
      BY <3>1, <3>3 DEF Keeps, MySlot
    <3>6. \A r \in Indices : Inside(r)' <=> Inside(r)
      BY <3>1 DEF Inside, Offset, len
    <3> HIDE DEF s
    <3>7. ASSUME NEW r \in Indices
          PROVE  Inside(r)' <=> state'[r] = "READY" \/ \E q \in Procs : Keeps(q, r)'
      <4>1. CASE r # s
        BY <3>2, <3>4, <3>5, <3>6, <4>1, WindowIs
      <4>2. CASE r = s
        <5>1. \A q \in Procs : ~Keeps(q, r)
          BY <3>1, <4>2 DEF IInv, ClaimInv, Keeps, Holding, Held, Wanted, s
        <5> QED BY <3>1, <3>2, <3>4, <3>5, <3>6, <4>2, <5>1, WindowIs DEF Wanted, Held
      <4> QED BY <4>1, <4>2
    <3> QED BY <3>7 DEF WindowInv, Keeps, Indices
  <2>5. ASSUME Move(p) \/ MoveFails(p) \/ Release(p) \/ Settle(p)
        PROVE  /\ pc[p] \in Holding
               /\ \A q \in Procs \ {p}, r \in Indices : Keeps(q, r)' <=> Keeps(q, r)
               /\ \A q \in Procs \ {p} : ~Keeps(q, s)
               /\ state[s] = Held(op[p])
    <3>1. /\ pc[p] \in Holding
          /\ \E l \in {"settle", "release", "own", "idle"} : pc' = [pc EXCEPT ![p] = l]
          /\ op' = op \/ op' = [op EXCEPT ![p] = None]
          /\ own' = own \/ own' = [own EXCEPT ![p] = 0]
      BY <2>5 DEF Move, MoveFails, Release, Settle, Goto, Leave, Retry, Holding
    <3>2. \A q \in Procs \ {p} : pc'[q] = pc[q] /\ op'[q] = op[q] /\ own'[q] = own[q]
      BY <3>1 DEF IInv, TypeOK
    <3> QED BY <3>1, <3>2, OthersKeep
  <2>6. CASE Move(p)
    <3>1. /\ pc[p] = "move" /\ ptr[OwnEnd(op[p])] = own[p]
          /\ ptr' = [ptr EXCEPT ![OwnEnd(op[p])] = Moved(op[p], own[p])]
          /\ pc' = [pc EXCEPT ![p] = "settle"] /\ UNCHANGED <<state, op, own>>
      BY <2>6 DEF Move, Goto
    <3>2. op[p] \in Operations
      BY <3>1, Calls DEF IInv
    <3>3. pc'[p] = "settle"
      BY <3>1 DEF IInv, TypeOK
    <3>4. \A r \in Indices : /\ Keeps(p, r) <=> r = s /\ ~IsPush(op[p])
                             /\ Keeps(p, r)' <=> r = s /\ IsPush(op[p])
      BY <3>1, <3>3 DEF Keeps, MySlot
    <3> HIDE DEF s
    <3>5. CASE IsPush(op[p])
      <4>1. \A r \in Indices : Inside(r)' <=> Inside(r) \/ r = s
        BY <3>1, <3>2, <3>5, RoomToMove, MoveWindow DEF IInv, s
      <4>2. \A r \in Indices : Inside(r)' <=> state'[r] = "READY" \/ \E q \in Procs : Keeps(q, r)'
        BY <2>5, <2>6, <3>1, <3>4, <3>5, <4>1, WindowIs
      <4> QED BY <4>2 DEF WindowInv, Keeps, Indices
    <3>6. CASE ~IsPush(op[p])
      <4>1. Inside(s)
        BY <2>2, <3>4, <3>6, WindowIs DEF s
      <4>2. \A r \in Indices : Inside(r)' <=> Inside(r) /\ r # s
        BY <3>1, <3>2, <3>6, <4>1, MoveWindow DEF IInv, s
      <4>3. state'[s] # "READY"
        BY <2>5, <2>6, <3>1, <3>6 DEF Held
      <4>4. \A r \in Indices : Inside(r)' <=> state'[r] = "READY" \/ \E q \in Procs : Keeps(q, r)'
        BY <2>5, <2>6, <3>1, <3>4, <3>6, <4>2, <4>3, WindowIs
      <4> QED BY <4>4 DEF WindowInv, Keeps, Indices
    <3> QED BY <3>5, <3>6
  <2>7. CASE MoveFails(p)
    <3>1. /\ pc[p] = "move" /\ pc' = [pc EXCEPT ![p] = "release"]
          /\ UNCHANGED <<ptr, state, op, own>>
      BY <2>7 DEF MoveFails, Goto
    <3>2. pc'[p] = "release"
      BY <3>1 DEF IInv, TypeOK
    <3>3. \A r \in Indices : Keeps(p, r)' <=> Keeps(p, r)
      BY <3>1, <3>2 DEF Keeps, MySlot
    <3>4. \A r \in Indices : Inside(r)' <=> Inside(r)
      BY <3>1 DEF Inside, Offset, len
    <3>5. \A r \in Indices : Inside(r)' <=> state'[r] = "READY" \/ \E q \in Procs : Keeps(q, r)'
      BY <2>5, <2>7, <3>1, <3>3, <3>4, WindowIs
    <3> QED BY <3>5 DEF WindowInv, Keeps, Indices
  <2>8. CASE Release(p)
    <3>1. /\ pc[p] = "release" /\ pc' = [pc EXCEPT ![p] = "own"]
          /\ state' = [state EXCEPT ![s] = Wanted(op[p])] /\ UNCHANGED <<ptr, op, own>>
      BY <2>8 DEF Release, Retry, Goto
    <3>2. pc'[p] = "own"
      BY <3>1 DEF IInv, TypeOK
    <3>3. \A r \in Indices : /\ Keeps(p, r) <=> r = s /\ ~IsPush(op[p])
                             /\ ~Keeps(p, r)'
      BY <3>1, <3>2 DEF Keeps, MySlot
    <3>4. \A r \in Indices : Inside(r)' <=> Inside(r)
      BY <3>1 DEF Inside, Offset, len
    <3>5. \A r \in Indices : state'[r] = IF r = s THEN Wanted(op[p]) ELSE state[r]
      BY <3>1 DEF IInv, TypeOK, Indices
    <3> HIDE DEF s
    <3>6. state[s] # "READY" /\ (Wanted(op[p]) = "READY" <=> ~IsPush(op[p]))
      BY <2>5, <2>8 DEF Wanted, Held
    <3>7. \A r \in Indices : Inside(r)' <=> state'[r] = "READY" \/ \E q \in Procs : Keeps(q, r)'
      BY <2>5, <2>8, <3>3, <3>4, <3>5, <3>6, WindowIs
    <3> QED BY <3>7 DEF WindowInv, Keeps, Indices
  <2>9. CASE Settle(p)
    <3>1. /\ pc[p] = "settle" /\ pc' = [pc EXCEPT ![p] = "idle"] /\ ptr' = ptr
          /\ state' = [state EXCEPT ![s] = IF IsPush(op[p]) THEN "READY" ELSE "EMPTY"]
      BY <2>9 DEF Settle, Leave, Goto
    <3>2. pc'[p] = "idle"
      BY <3>1 DEF IInv, TypeOK
    <3>3. \A r \in Indices : /\ Keeps(p, r) <=> r = s /\ IsPush(op[p])
                             /\ ~Keeps(p, r)'
      BY <3>1, <3>2 DEF Keeps
    <3>4. \A r \in Indices : Inside(r)' <=> Inside(r)
      BY <3>1 DEF Inside, Offset, len
    <3>5. \A r \in Indices : state'[r] = IF r # s THEN state[r]
                                         ELSE IF IsPush(op[p]) THEN "READY" ELSE "EMPTY"
      BY <3>1 DEF IInv, TypeOK, Indices
    <3> HIDE DEF s
    <3>6. state[s] # "READY"
      BY <2>5, <2>9 DEF Held
    <3>7. \A r \in Indices : Inside(r)' <=> state'[r] = "READY" \/ \E q \in Procs : Keeps(q, r)'
      BY <2>5, <2>9, <3>3, <3>4, <3>5, <3>6, WindowIs
    <3> QED BY <3>7 DEF WindowInv, Keeps, Indices
  <2> QED BY <2>1, <2>3, <2>4, <2>6, <2>7, <2>8, <2>9 DEF Step
<1> QED BY <1>1, <1>2

LEMMA WindowInit == Init => WindowInv
<1> SUFFICES ASSUME Init, NEW s \in 0..CAPACITY-1
             PROVE  ~Inside(s) /\ state[s] = "EMPTY" /\ \A p \in Procs : pc[p] = "idle"
  BY DEF WindowInv
<1>1. len = 0 /\ Offset(s) = s
  BY DEF Init, len, Offset
<1> QED BY <1>1 DEF Init, Inside

LEMMA Window == HasRoom => (Spec => [](IInv /\ WindowInv))
<1> SUFFICES ASSUME HasRoom PROVE Spec => [](IInv /\ WindowInv)
  OBVIOUS
<1>1. Init => IInv /\ WindowInv
  BY InitInv, WindowInit
<1>2. IInv /\ WindowInv /\ [Next]_vars => (IInv /\ WindowInv)'
  BY IInvStep, WindowStep
<1> QED BY <1>1, <1>2, PTL DEF Spec

\* The slots between head and tail hold an item, are being written by the
\* push that reserved them or read by a pop that may still lose; all others
\* are free, or claimed by an operation that has not moved its index or is
\* leaving with the item: while the ring has room for all items in use.
THEOREM WindowIsExact == HasRoom => (Spec => []WindowExact)
<1> SUFFICES ASSUME HasRoom PROVE Spec => []WindowExact
  OBVIOUS
<1>1. ASSUME IInv, WindowInv PROVE WindowExact
  <2> SUFFICES ASSUME NEW n \in 0..CAPACITY-1
               PROVE  LET s == (ptr.head + n) % CAPACITY IN
                      IF n < len
                      THEN state[s] = "READY" \/ \E p \in Procs :
                             /\ MySlot(p) = s
                             /\ pc[p] \in (IF IsPush(op[p]) THEN {"settle"}
                                           ELSE {"move", "release"})
                      ELSE state[s] = "EMPTY" \/ \E p \in Procs :
                             /\ MySlot(p) = s
                             /\ pc[p] \in (IF IsPush(op[p]) THEN {"move", "release"}
                                           ELSE {"settle"})
    BY DEF WindowExact
  <2> DEFINE s == At(n + 1)
  <2>1. n + 1 \in 1..CAPACITY /\ n + 1 - 1 = n
    BY CapacityAssumption
  <2>2. s \in Indices /\ Offset(s) = n
    BY <1>1, <2>1, Positions DEF IInv
  <2>3. s = (ptr.head + n) % CAPACITY
    <3>1. ptr.head + (n + 1) - 1 = ptr.head + n
      BY <1>1, PtrInRing DEF IInv, Indices
    <3> QED BY <3>1 DEF At
  <2> HIDE DEF s
  <2>4. CASE n < len
    <3>1. state[s] = "READY" \/ \E p \in Procs : Keeps(p, s)
      BY <1>1, <2>2, <2>4, WindowIs DEF Inside
    <3> QED BY <2>3, <2>4, <3>1 DEF Keeps
  <2>5. CASE ~(n < len)
    <3>1. state[s] # "READY" /\ \A p \in Procs : ~Keeps(p, s)
      BY <1>1, <2>2, <2>5, WindowIs DEF Inside
    <3>2. CASE state[s] \notin {"WRITING", "READING"}
      <4>1. state[s] = "EMPTY"
        BY <1>1, <2>2, <3>1, <3>2 DEF IInv, TypeOK, Indices
      <4> QED BY <2>3, <2>5, <4>1
    <3>3. CASE state[s] \in {"WRITING", "READING"}
      <4>1. PICK p \in Procs : pc[p] \in Holding /\ MySlot(p) = s
        BY <1>1, <2>2, <3>3 DEF IInv, ClaimInv, Indices
      <4>2. pc[p] \in (IF IsPush(op[p]) THEN {"move", "release"} ELSE {"settle"})
        BY <3>1, <4>1 DEF Keeps, Holding
      <4> QED BY <2>3, <2>5, <4>1, <4>2
    <3> QED BY <3>2, <3>3
  <2> QED BY <2>4, <2>5
<1> QED BY <1>1, Window, PTL

\* Callers that hold an item outside the deque, on its way in or out.
Carriers(i) == {p \in Procs : IF pc[p] = "settle" THEN ~IsPush(op[p]) /\ data[MySlot(p)] = i
                              ELSE item[p] = i}

\* What a carrier says of the slots and of the other callers.
LEMMA CarrierIs ==
  ASSUME IInv, WindowInv, NEW i \in Items, NEW p \in Carriers(i)
  PROVE  /\ p \in Procs /\ i \notin out
         /\ \/ item[p] = i /\ pc[p] # "settle"
            \/ /\ pc[p] = "settle" /\ ~IsPush(op[p]) /\ MySlot(p) \in Indices
               /\ Filled(MySlot(p)) /\ data[MySlot(p)] = i /\ ~Inside(MySlot(p))
<1>1. p \in Procs
  BY DEF Carriers
<1>2. CASE pc[p] # "settle"
  BY <1>1, <1>2 DEF Carriers, IInv, ItemInv
<1>3. CASE pc[p] = "settle"
  <2>1. ~IsPush(op[p]) /\ data[MySlot(p)] = i /\ MySlot(p) \in Indices
    BY <1>1, <1>3, Calls DEF Carriers, IInv
  <2>2. state[MySlot(p)] = "READING"
    BY <1>1, <1>3, <2>1 DEF IInv, ClaimInv, Holding, Held
  <2>3. \A q \in Procs : ~Keeps(q, MySlot(p))
    BY <1>1, <1>3, <2>1 DEF IInv, ClaimInv, Holding, Keeps
  <2>4. ~Inside(MySlot(p))
    BY <2>1, <2>2, <2>3, WindowIs
  <2>5. Filled(MySlot(p)) /\ i \notin out
    BY <2>1, <2>2 DEF Filled, IInv, ItemInv, Indices
  <2> QED BY <1>1, <1>3, <2>1, <2>4, <2>5
<1> QED BY <1>2, <1>3

\* An item is with one carrier at most, and not in the deque then.
LEMMA OneCarrier ==
  ASSUME IInv, WindowInv, NEW i \in Items, NEW p \in Carriers(i)
  PROVE  /\ Carriers(i) = {p}
         /\ \A s \in Indices : Inside(s) => Stored(s) # i
<1>1. i # None
  BY CallAssumption
<1>2. \A q \in Procs, s \in Indices : item[q] = i /\ Filled(s) => data[s] # i
  BY DEF IInv, ItemInv, Indices
<1>3. ASSUME NEW q \in Carriers(i) PROVE q = p
  <2>1. CASE item[p] = i /\ pc[p] # "settle"
    BY <1>1, <1>2, <2>1, CarrierIs DEF IInv, ItemInv
  <2>2. CASE /\ pc[p] = "settle" /\ MySlot(p) \in Indices
             /\ Filled(MySlot(p)) /\ data[MySlot(p)] = i
    <3>1. /\ pc[q] = "settle" /\ MySlot(q) \in Indices
          /\ Filled(MySlot(q)) /\ data[MySlot(q)] = i
      BY <1>2, <2>2, CarrierIs
    <3>2. MySlot(p) = MySlot(q)
      BY <2>2, <3>1 DEF IInv, ItemInv, Indices
    <3> QED BY <2>2, <3>1, <3>2, CarrierIs DEF IInv, ClaimInv, Holding
  <2> QED BY <2>1, <2>2, CarrierIs
<1>4. ASSUME NEW s \in Indices, Inside(s), Stored(s) = i PROVE FALSE
  <2>1. CASE Filled(s) /\ data[s] = i
    <3>1. /\ MySlot(p) \in Indices /\ Filled(MySlot(p)) /\ data[MySlot(p)] = i
          /\ ~Inside(MySlot(p))
      BY <1>2, <2>1, CarrierIs
    <3>2. MySlot(p) = s
      BY <2>1, <3>1 DEF IInv, ItemInv, Indices
    <3> QED BY <1>4, <3>1, <3>2
  <2>2. CASE \E q \in Procs : pc[q] = "settle" /\ item[q] = i
    <3>1. item[p] = i /\ pc[p] # "settle"
      BY <1>2, <2>2, CarrierIs
    <3> QED BY <1>1, <2>2, <3>1, CarrierIs DEF IInv, ItemInv
  <2> QED BY <1>4, <2>1, <2>2, StoredIs
<1> QED BY <1>3, <1>4

\* Every item is outside, with a carrier, or in the deque.
LEMMA ItemSomewhere ==
  ASSUME IInv, WindowInv, NEW i \in Items, i \notin out, Carriers(i) = {}
  PROVE  \E s \in Indices : Inside(s) /\ Stored(s) = i
<1>1. CASE \E s \in Indices : Filled(s) /\ data[s] = i
  <2>1. PICK s \in Indices : Filled(s) /\ data[s] = i
    BY <1>1
  <2>2. Inside(s)
    <3>1. CASE state[s] = "READY"
      BY <3>1, WindowIs
    <3>2. CASE state[s] = "READING"
      <4>1. PICK p \in Procs : pc[p] \in Holding /\ MySlot(p) = s
        BY <3>2 DEF IInv, ClaimInv, Indices
      <4>2. ~IsPush(op[p])
        BY <3>2, <4>1 DEF IInv, ClaimInv, Held
      <4>3. pc[p] # "settle"
        BY <2>1, <4>1, <4>2 DEF Carriers
      <4>4. Keeps(p, s)
        BY <4>1, <4>2, <4>3 DEF Keeps, Holding
      <4> QED BY <4>4, WindowIs
    <3> QED BY <2>1, <3>1, <3>2 DEF Filled
  <2>3. state[s] # "WRITING"
    BY <2>1 DEF Filled
  <2> QED BY <2>1, <2>2, <2>3, StoredIs
<1>2. CASE \E p \in Procs : item[p] = i
  <2>1. PICK p \in Procs : item[p] = i
    BY <1>2
  <2>2. pc[p] = "settle"
    BY <2>1 DEF Carriers
  <2>3. IsPush(op[p])
    BY <2>1, CallAssumption DEF IInv, TypeOK
  <2>4. MySlot(p) \in Indices /\ Keeps(p, MySlot(p))
    BY <2>2, <2>3, Calls DEF Keeps, IInv
  <2>5. Inside(MySlot(p))
    BY <2>4, WindowIs
  <2>6. state[MySlot(p)] = "WRITING"
    BY <2>2, <2>3 DEF IInv, ClaimInv, Holding, Held
  <2>7. PICK q \in Procs : pc[q] = "settle" /\ MySlot(q) = MySlot(p)
                           /\ Stored(MySlot(p)) = item[q]
    BY <2>4, <2>5, <2>6, StoredIs DEF Filled
  <2>8. q = p
    BY <2>2, <2>7 DEF IInv, ClaimInv, Holding
  <2> QED BY <2>1, <2>4, <2>5, <2>7, <2>8
<1> QED BY <1>1, <1>2 DEF IInv, ItemInv, Indices

\* Every item a caller brought is outside, in one place of the deque, on its
\* way in or on its way out, and nowhere twice: none is lost or doubled.
THEOREM ItemsKept == HasRoom => (Spec => []EveryItemOnce)
<1> SUFFICES ASSUME HasRoom PROVE Spec => []EveryItemOnce
  OBVIOUS
<1>1. ASSUME IInv, WindowInv PROVE EveryItemOnce
  <2> SUFFICES ASSUME NEW i \in Items
               PROVE  Cardinality({n \in 1..len : Contents[n] = i}) + Cardinality(Carriers(i))
                      + (IF i \in out THEN 1 ELSE 0) = 1
    BY DEF EveryItemOnce, Carriers
  <2> DEFINE places == {n \in 1..len : Contents[n] = i}
  <2> USE <1>1 DEF IInv
  <2>1. \A n \in 1..len : Contents[n] = Stored(At(n))
    BY DEF Contents, At
  <2>2. places = {n \in 1..len : Stored(At(n)) = i}
    BY <2>1
  <2> HIDE DEF places
  <2>3. \A n, m \in places : n = m
    BY <2>2, InsideAt, StoredOnce
  <2>4. \A n \in places : i \notin out /\ Inside(At(n)) /\ At(n) \in Indices
    BY <2>2, InsideAt, StoredIs
  <2>5. Cardinality({}) = 0 /\ \A x : Cardinality({x}) = 1
    BY FS_EmptySet, FS_Singleton
  <2>6. CASE i \in out
    <3>1. places = {} /\ Carriers(i) = {}
      BY <2>4, <2>6, CarrierIs
    <3>2. Cardinality(places) = 0 /\ Cardinality(Carriers(i)) = 0
      BY <2>5, <3>1
    <3> QED BY <2>6, <3>2 DEF places
  <2>7. CASE i \notin out /\ Carriers(i) # {}
    <3>1. PICK p \in Carriers(i) : Carriers(i) = {p}
      BY <2>7, OneCarrier
    <3>2. places = {}
      BY <2>2, <2>4, <2>7, OneCarrier
    <3>3. Cardinality(places) = 0 /\ Cardinality(Carriers(i)) = 1
      BY <2>5, <3>1, <3>2
    <3> QED BY <2>7, <3>3 DEF places
  <2>8. CASE i \notin out /\ Carriers(i) = {}
    <3>1. PICK s \in Indices : Inside(s) /\ Stored(s) = i
      BY <2>8, ItemSomewhere
    <3>2. PICK n \in 1..len : At(n) = s
      BY <3>1, InsideAt
    <3>3. places = {n}
      BY <2>2, <2>3, <3>1, <3>2
    <3>4. Cardinality(places) = 1 /\ Cardinality(Carriers(i)) = 0
      BY <2>5, <2>8, <3>3
    <3> QED BY <2>8, <3>4 DEF places
  <2> QED BY <2>6, <2>7, <2>8
<1> QED BY <1>1, Window, PTL

-----------------------------------------------------------------------------
(* A pop that finds nothing                                                *)

\* The history after a step, and the two distances as numbers.
LEMMA SeenIs ==
  ASSUME Remember, NEW p \in Procs
  PROVE  seen'[p] <=> /\ pc'[p] # "idle"
                      /\ seen[p] \/ len' = (IF IsPush(op'[p]) THEN CAPACITY - 1 ELSE 0)
BY DEF Remember

LEMMA Distances ==
  ASSUME TypeOK, NEW p \in Procs
  PROVE  /\ Gap(p) \in Indices /\ Reach(p) \in Indices
         /\ Reach(p) = 0 <=> own[p] = far[p]
<1>1. /\ ptr.head \in Indices /\ ptr.tail \in Indices
      /\ own[p] \in Indices /\ far[p] \in Indices
  BY PtrInRing DEF TypeOK, Indices
<1> QED BY <1>1, CapacityAssumption DEF Gap, Reach, Dist, Indices

\* A push takes an index away from a value it was at, and makes the window
\* larger by as much at least.
LEMMA PushGap ==
  ASSUME TypeOK, NEW q \in Procs, op[q] \in Operations, IsPush(op[q]), len < CAPACITY - 1,
         ptr[OwnEnd(op[q])] = own[q],
         ptr' = [ptr EXCEPT ![OwnEnd(op[q])] = Moved(op[q], own[q])], NEW i \in Indices
  PROVE  /\ Dist(ptr.head, i) <= len => /\ Dist(ptr'.head, i) <= Dist(ptr.head, i) + 1
                                        /\ Dist(ptr'.head, i) = 0 => Dist(ptr.head, i) = 0
         /\ Dist(i, ptr.tail) <= len => /\ Dist(i, ptr'.tail) <= Dist(i, ptr.tail) + 1
                                        /\ Dist(i, ptr'.tail) = 0 => Dist(i, ptr.tail) = 0
<1>1. ptr.head \in Indices /\ ptr.tail \in Indices
  BY PtrInRing
<1>2. DOMAIN ptr = {"head", "tail"}
  BY DEF TypeOK
<1> USE CapacityAssumption DEF Indices
<1>3. CASE op[q] = "push_front"
  <2>1. ptr'.head = Pred(ptr.head) /\ ptr'.tail = ptr.tail
    BY <1>2, <1>3 DEF Backwards, OwnEnd, Moved
  <2> QED BY <1>1, <2>1 DEF Dist, len, Pred
<1>4. CASE op[q] = "push_back"
  <2>1. ptr'.tail = Succ(ptr.tail) /\ ptr'.head = ptr.head
    BY <1>2, <1>4 DEF Backwards, OwnEnd, Moved
  <2> QED BY <1>1, <2>1, SuccIs DEF Dist, len
<1> QED BY <1>3, <1>4 DEF IsPush

\* What the pop of p needs while another caller takes a step.
LEMMA OtherKeepsPop ==
  ASSUME IInv, WindowInv, HasRoom, OnePopper, PopInv, NEW q \in Procs, Call(q) \/ Step(q),
         Remember, NEW p \in Procs \ {q}, pc[p] # "idle", ~IsPush(op[p])
  PROVE  /\ len' = 0 => seen'[p]
         /\ pc[p] \in {"far", "recheck", "claim"} => Gap(p)' <= len'
         /\ pc[p] = "recheck" => Gap(p)' + Reach(p)' <= len'
         /\ pc[p] = "recheck" /\ Gap(p)' = 0 /\ Reach(p)' = 0 => seen'[p]
         /\ pc[p] = "claim" => Gap(p)' < len'
<1>1. pc'[p] = pc[p] /\ op'[p] = op[p] /\ own'[p] = own[p] /\ far'[p] = far[p]
  BY DEF Call, Step, LoadOwn, LoadFar, Recheck, Claim, ClaimFails, Move, MoveFails, Release,
         Settle, Retry, Refuse, Leave, Goto, IInv, TypeOK
<1>2. (len' = 0 => seen'[p]) /\ (seen[p] => seen'[p])
  BY <1>1, SeenIs
<1>3. Reach(p)' = Reach(p)
  BY <1>1 DEF Reach
<1>4. Gap(p) \in Indices /\ Reach(p) \in Indices /\ len \in Indices
  BY Distances, PtrInRing DEF IInv
<1>5. CASE ptr' = ptr
  <2>1. Gap(p)' = Gap(p) /\ len' = len
    BY <1>1, <1>5 DEF Gap, len
  <2> QED BY <1>2, <1>3, <2>1 DEF PopInv
<1>6. CASE ptr' # ptr
  <2>1. Move(q)
    BY <1>6 DEF Call, Step, LoadOwn, LoadFar, Recheck, Claim, ClaimFails, MoveFails, Release,
                Settle, Retry, Refuse, Leave
  <2>2. pc[q] = "move" /\ ptr[OwnEnd(op[q])] = own[q]
        /\ ptr' = [ptr EXCEPT ![OwnEnd(op[q])] = Moved(op[q], own[q])]
    BY <2>1 DEF Move
  <2>3. op[q] \in Operations /\ op[p] \in Operations
    BY <2>2, Calls DEF IInv
  <2>4. op[p] \in Allowed[p] /\ op[q] \in Allowed[q]
    BY <2>3, CallAssumption DEF PopInv
  <2>5. IsPush(op[q])
    BY <2>4 DEF OnePopper
  <2>6. len < CAPACITY - 1
    BY <2>2, <2>5, RoomToMove
  <2>7. len' = len + 1
    BY <2>2, <2>3, <2>5, <2>6, MoveWindow DEF IInv
  <2>8. Gap(p) <= len => Gap(p)' <= Gap(p) + 1 /\ (Gap(p)' = 0 => Gap(p) = 0)
    <3>1. PICK i \in Indices : i = own[p]
      BY DEF IInv, TypeOK, Indices
    <3>2. /\ Dist(ptr.head, i) <= len => /\ Dist(ptr'.head, i) <= Dist(ptr.head, i) + 1
                                         /\ Dist(ptr'.head, i) = 0 => Dist(ptr.head, i) = 0
          /\ Dist(i, ptr.tail) <= len => /\ Dist(i, ptr'.tail) <= Dist(i, ptr.tail) + 1
                                         /\ Dist(i, ptr'.tail) = 0 => Dist(i, ptr.tail) = 0
      <4>1. TypeOK
        BY DEF IInv
      <4> QED BY <2>2, <2>3, <2>5, <2>6, <4>1, PushGap
    <3>3. Gap(p) = IF op[p] = "pop_front" THEN Dist(ptr.head, i) ELSE Dist(i, ptr.tail)
      BY <3>1 DEF Gap
    <3>4. Gap(p)' = IF op[p] = "pop_front" THEN Dist(ptr'.head, i) ELSE Dist(i, ptr'.tail)
      BY <1>1, <3>1 DEF Gap, Dist
    <3>5. CASE op[p] = "pop_front"
      BY <3>2, <3>3, <3>4, <3>5
    <3>6. CASE op[p] # "pop_front"
      BY <3>2, <3>3, <3>4, <3>6
    <3> QED BY <3>5, <3>6
  <2>9. IInv'
    BY IInvStep DEF Next
  <2>10. Gap(p)' \in Int
    <3>1. own'[p] \in Int /\ ptr'.head \in Int /\ ptr'.tail \in Int
      BY <2>9 DEF IInv, TypeOK
    <3> QED BY <3>1, CapacityAssumption DEF Gap, Dist
  <2>11. pc[p] \in {"far", "recheck", "claim"} => Gap(p) <= len
    BY DEF PopInv
  <2>12. /\ pc[p] = "recheck" => Gap(p) + Reach(p) <= len
         /\ pc[p] = "recheck" /\ Gap(p) = 0 /\ Reach(p) = 0 => seen[p]
         /\ pc[p] = "claim" => Gap(p) < len
    BY DEF PopInv
  <2> QED BY <1>2, <1>3, <1>4, <2>7, <2>8, <2>10, <2>11, <2>12 DEF Indices
<1> QED BY <1>5, <1>6

\* What the pop of p needs after a step of its own.
LEMMA OwnKeepsPop ==
  ASSUME IInv, WindowInv, HasRoom, PopInv, NEW p \in Procs, Call(p) \/ Step(p), Remember
  PROVE  /\ op'[p] \in Allowed[p] \cup {None}
         /\ pc'[p] # "idle" /\ ~IsPush(op'[p]) =>
              /\ len' = 0 => seen'[p]
              /\ pc'[p] \in {"far", "recheck", "claim"} => Gap(p)' <= len'
              /\ pc'[p] = "recheck" => Gap(p)' + Reach(p)' <= len'
              /\ pc'[p] = "recheck" /\ Gap(p)' = 0 /\ Reach(p)' = 0 => seen'[p]
              /\ pc'[p] = "claim" => Gap(p)' < len'
<1>1. pc'[p] # "idle" /\ ~IsPush(op'[p]) =>
        /\ len' = 0 => seen'[p]
        /\ seen[p] => seen'[p]
  BY SeenIs
<1>2. op'[p] \in Allowed[p] \cup {None}
  <2>1. CASE Call(p)
    BY <2>1 DEF Call, IInv, TypeOK
  <2>2. CASE Step(p)
    BY <2>2 DEF Step, LoadOwn, LoadFar, Recheck, Claim, ClaimFails, Move, MoveFails, Release,
                Settle, Retry, Refuse, Leave, Goto, PopInv, IInv, TypeOK
  <2> QED BY <2>1, <2>2
<1>3. ptr.head \in Indices /\ ptr.tail \in Indices /\ len \in Indices /\ own[p] \in Indices
  BY PtrInRing DEF IInv, TypeOK, Indices
<1>4. op[p] \in Operations \cup {None}
  BY DEF IInv, TypeOK
<1>5. CASE LoadOwn(p) /\ ~IsPush(op[p])
  <2>1. /\ pc[p] = "own" /\ pc'[p] = "far" /\ own'[p] = ptr[OwnEnd(op[p])]
        /\ op' = op /\ ptr' = ptr
    BY <1>5 DEF LoadOwn, Goto, IInv, TypeOK
  <2>2. op[p] \in {"pop_front", "pop_back"}
    BY <1>5, <2>1, Calls DEF IInv, Operations, IsPush
  <2>3. Gap(p)' = 0 /\ len' = len
    BY <1>3, <2>1, <2>2, CapacityAssumption DEF Gap, Dist, OwnEnd, len, Indices
  <2> QED BY <1>1, <1>2, <1>3, <2>1, <2>3 DEF Indices
<1>6. CASE LoadFar(p) /\ ~IsPush(op[p])
  <2>1. /\ pc[p] = "far" /\ pc'[p] = "recheck" /\ far'[p] = ptr[FarEnd(op[p])]
        /\ op' = op /\ ptr' = ptr /\ own' = own
    BY <1>6 DEF LoadFar, Goto, IInv, TypeOK
  <2>2. op[p] \in {"pop_front", "pop_back"}
    BY <1>6, <2>1, Calls DEF IInv, Operations, IsPush
  <2>3. Gap(p) <= len /\ (len = 0 => seen[p])
    BY <1>6, <2>1 DEF PopInv
  <2>4. Gap(p)' = Gap(p) /\ len' = len
    BY <2>1 DEF Gap, len
  <2>5. Gap(p) + Reach(p)' = len
    BY <1>3, <2>1, <2>2, <2>3, CapacityAssumption
       DEF Gap, Reach, Dist, OwnEnd, FarEnd, len, Indices
  <2>6. Gap(p) \in Indices
    BY Distances DEF IInv
  <2>7. Gap(p) + Reach(p)' <= len /\ (Gap(p) = 0 /\ Reach(p)' = 0 => seen[p])
    BY <1>3, <2>3, <2>5 DEF Indices
  <2> QED BY <1>1, <1>2, <2>1, <2>3, <2>4, <2>7
<1>7. CASE Recheck(p) /\ ~IsPush(op[p]) /\ pc'[p] = "claim"
  <2>1. /\ pc[p] = "recheck" /\ ptr[OwnEnd(op[p])] = own[p]
        /\ ~Refused(op[p], own[p], far[p]) /\ op' = op /\ ptr' = ptr /\ own' = own
    BY <1>7 DEF Recheck, Retry, Refuse, Leave, Goto, IInv, TypeOK
  <2>2. Gap(p)' = Gap(p) /\ len' = len
    BY <2>1 DEF Gap, len
  <2>3. Gap(p) + Reach(p) <= len /\ Reach(p) # 0
    BY <1>7, <2>1, Distances DEF PopInv, Refused, IInv
  <2>4. Gap(p) < len
    BY <1>3, <2>3, Distances DEF IInv, Indices
  <2>5. Gap(p) \in Indices
    BY Distances DEF IInv
  <2>6. Gap(p) <= len
    BY <1>3, <2>4, <2>5 DEF Indices
  <2> QED BY <1>1, <1>2, <1>7, <2>2, <2>4, <2>6
<1>8. CASE /\ pc'[p] \notin {"far", "recheck", "claim"} \/ IsPush(op'[p])
  BY <1>1, <1>2, <1>8
<1>9. ASSUME pc'[p] \in {"far", "recheck", "claim"}, ~IsPush(op'[p])
      PROVE  ~IsPush(op[p]) /\ (LoadOwn(p) \/ LoadFar(p) \/ (Recheck(p) /\ pc'[p] = "claim"))
  <2>1. \A l : Goto(p, l) => pc'[p] = l
    BY DEF Goto, IInv, TypeOK
  <2>2. LoadOwn(p) \/ LoadFar(p) \/ Recheck(p)
    BY <1>9, <2>1 DEF Call, Step, Claim, ClaimFails, Move, MoveFails, Release, Settle, Retry,
                      Refuse, Leave
  <2>3. CASE LoadOwn(p) \/ LoadFar(p)
    BY <1>9, <2>3 DEF LoadOwn, LoadFar
  <2>4. CASE Recheck(p)
    BY <1>9, <2>1, <2>4 DEF Recheck, Retry, Refuse, Leave
  <2> QED BY <2>2, <2>3, <2>4
<1> QED BY <1>5, <1>6, <1>7, <1>8, <1>9

LEMMA PopStep ==
  ASSUME IInv, WindowInv, HasRoom, OnePopper, PopInv, [Next]_vars
  PROVE  PopInv'
<1>1. CASE UNCHANGED vars
  BY <1>1 DEF vars, PopInv, Gap, Reach, len
<1>2. CASE Next
  <2>1. PICK q \in Procs : (Call(q) \/ Step(q)) /\ Remember
    BY <1>2 DEF Next
  <2>2. ASSUME NEW p \in Procs \ {q} PROVE pc'[p] = pc[p] /\ op'[p] = op[p]
    BY <2>1 DEF Call, Step, LoadOwn, LoadFar, Recheck, Claim, ClaimFails, Move, MoveFails,
                Release, Settle, Retry, Refuse, Leave, Goto, IInv, TypeOK
  <2>3. \A p \in Procs : op'[p] \in Allowed[p] \cup {None}
    BY <2>1, <2>2, OwnKeepsPop DEF PopInv
  <2>4. ASSUME NEW p \in Procs, pc'[p] # "idle" /\ ~IsPush(op'[p])
        PROVE  /\ len' = 0 => seen'[p]
               /\ pc'[p] \in {"far", "recheck", "claim"} => Gap(p)' <= len'
               /\ pc'[p] = "recheck" => Gap(p)' + Reach(p)' <= len'
               /\ pc'[p] = "recheck" /\ Gap(p)' = 0 /\ Reach(p)' = 0 => seen'[p]
               /\ pc'[p] = "claim" => Gap(p)' < len'
    <3>1. CASE p = q
      BY <2>1, <2>4, <3>1, OwnKeepsPop
    <3>2. CASE p # q
      BY <2>1, <2>2, <2>4, <3>2, OtherKeepsPop
    <3> QED BY <3>1, <3>2
  <2> QED BY <2>3, <2>4 DEF PopInv
<1> QED BY <1>1, <1>2

\* With one caller that pops, as on a ready queue, and room for the items in
\* use, a pop comes back with nothing only if the deque was empty at some
\* moment of the call, whatever the pushes of the others do meanwhile.
THEOREM NoneIsHonest == HasRoom /\ OnePopper => (Spec => NoneMeansEmpty)
<1> SUFFICES ASSUME HasRoom, OnePopper PROVE Spec => NoneMeansEmpty
  OBVIOUS
<1>1. Init => PopInv
  <2> SUFFICES ASSUME Init PROVE PopInv
    OBVIOUS
  <2> QED BY DEF Init, PopInv
<1>2. (IInv /\ WindowInv) /\ PopInv /\ [Next]_vars => PopInv'
  BY PopStep
<1>3. (IInv /\ WindowInv) /\ PopInv /\ [Next]_vars
        => [\A p \in Procs : RefusedAs(p) /\ ~IsPush(op[p]) => seen[p]]_vars
  <2> SUFFICES ASSUME IInv, WindowInv, PopInv, Next, NEW p \in Procs, RefusedAs(p), ~IsPush(op[p])
               PROVE  seen[p]
    OBVIOUS
  <2>1. PICK q \in Procs : Call(q) \/ Step(q)
    BY DEF Next
  <2>2. pc[p] \in {"recheck", "claim"} /\ pc'[p] = "idle"
    BY DEF RefusedAs
  <2>3. q = p
    BY <2>1, <2>2 DEF Call, Step, LoadOwn, LoadFar, Recheck, Claim, ClaimFails, Move, MoveFails,
                      Release, Settle, Retry, Refuse, Leave, Goto, IInv, TypeOK
  <2>4. op[p] \in {"pop_front", "pop_back"}
    BY <2>2, Calls DEF IInv, Operations, IsPush
  <2>5. ptr.head \in Indices /\ ptr.tail \in Indices /\ len \in Indices /\ own[p] \in Indices
    BY PtrInRing DEF IInv, TypeOK, Indices
  <2>6. CASE pc[p] = "recheck"
    <3>1. ptr[OwnEnd(op[p])] = own[p] /\ Refused(op[p], own[p], far[p])
      BY <2>1, <2>2, <2>3, <2>6 DEF Call, Step, LoadOwn, LoadFar, Recheck, Claim, ClaimFails, Move,
           MoveFails, Release, Settle, Retry, Goto, IInv, TypeOK
    <3>2. Reach(p) = 0
      BY <3>1, Distances DEF Refused, IInv
    <3>3. Gap(p) = 0
      BY <2>4, <2>5, <3>1, CapacityAssumption DEF Gap, Dist, OwnEnd, Indices
    <3> QED BY <2>6, <3>2, <3>3 DEF PopInv
  <2>7. CASE pc[p] = "claim"
    <3>1. state[MySlot(p)] = "EMPTY"
      BY <2>1, <2>2, <2>3, <2>7 DEF Call, Step, LoadOwn, LoadFar, Recheck, Claim, ClaimFails, Move,
           MoveFails, Release, Settle, Retry, Goto, IInv, TypeOK
    <3>2. Gap(p) < len
      BY <2>7 DEF PopInv
    <3>3. MySlot(p) \in Indices /\ Inside(MySlot(p))
      <4>1. CASE op[p] = "pop_front"
        BY <2>5, <3>2, <4>1, CapacityAssumption
           DEF Inside, Offset, MySlot, Slot, Backwards, Gap, Dist, Indices
      <4>2. CASE op[p] = "pop_back"
        <5>1. MySlot(p) = Pred(own[p]) /\ Dist(own[p], ptr.tail) < len
          BY <3>2, <4>2 DEF MySlot, Slot, Backwards, Gap
        <5> QED BY <2>5, <5>1, CapacityAssumption DEF Inside, Offset, Pred, Dist, len, Indices
      <4> QED BY <2>4, <4>1, <4>2
    <3>4. PICK r \in Procs : Keeps(r, MySlot(p))
      BY <3>1, <3>3, WindowIs
    <3>5. state[MySlot(p)] = Held(op[r])
      BY <3>4 DEF Keeps, IInv, ClaimInv, Holding
    <3> QED BY <3>1, <3>5 DEF Held
  <2> QED BY <2>2, <2>6, <2>7
<1> QED BY <1>1, <1>2, <1>3, Window, PTL DEF Spec, NoneMeansEmpty
=============================================================================

---------------------- MODULE LockFreeDeque_refinement ----------------------
(***************************************************************************)
(* Proof that LockFreeDeque implements Deque while the ring has room for   *)
(* all items in use: a call that succeeds takes effect at one instant, the *)
(* move of its index, at the end it names.                                 *)
(***************************************************************************)
EXTENDS LockFreeDeque_proofs, SequenceTheorems

\* The contents are a sequence of items, a slot of the window each.
Shape ==
  /\ len \in Nat /\ len < CAPACITY
  /\ Contents \in Seq(Items) /\ Len(Contents) = len
  /\ \A n \in 1..len : Contents[n] = Stored(At(n)) /\ At(n) \in Indices /\ Inside(At(n))
  /\ \A n \in 1..CAPACITY : At(n) = IF ptr.head + n - 1 < CAPACITY THEN ptr.head + n - 1
                                    ELSE ptr.head + n - 1 - CAPACITY
  /\ ptr.head \in Indices /\ ptr.tail \in Indices
StoredInv ==
  \A s \in Indices : Inside(s) =>
    /\ \A p \in Procs : pc[p] = "settle" /\ IsPush(op[p]) /\ MySlot(p) = s
                        => Stored(s) = item[p]
    /\ Filled(s) => Stored(s) = data[s]
    /\ ~Filled(s) => \E p \in Procs : pc[p] = "settle" /\ IsPush(op[p]) /\ MySlot(p) = s

LEMMA ShapeHolds == IInv /\ WindowInv => Shape
<1> SUFFICES ASSUME IInv, WindowInv PROVE Shape
  OBVIOUS
<1>1. len \in Nat /\ len < CAPACITY /\ ptr.head \in Indices /\ ptr.tail \in Indices
  BY PtrInRing, CapacityAssumption DEF IInv, Indices
<1>2. \A n \in 1..len : At(n) \in Indices /\ Inside(At(n)) /\ Stored(At(n)) \in Items
  BY InsideAt, StoredIs DEF IInv
<1>3. Contents = [n \in 1..len |-> Stored(At(n))]
  BY DEF Contents, At
<1>4. Contents \in Seq(Items)
  <2> DEFINE e(n) == Stored(At(n))
  <2>1. \A n \in 1..len : e(n) \in Items
    BY <1>2
  <2> HIDE DEF e
  <2>2. [n \in 1..len |-> e(n)] \in Seq(Items)
    BY <1>1, <2>1, IsASeq
  <2> QED BY <1>3, <2>2 DEF e
<1>5. Len(Contents) = len /\ \A n \in 1..len : Contents[n] = Stored(At(n))
  BY <1>1, <1>3, <1>4
<1> QED BY <1>1, <1>2, <1>4, <1>5, Positions DEF Shape, IInv

LEMMA StoredHolds == IInv /\ WindowInv => StoredInv
<1> SUFFICES ASSUME IInv, WindowInv, NEW s \in Indices, Inside(s)
             PROVE  /\ \A p \in Procs : pc[p] = "settle" /\ IsPush(op[p]) /\ MySlot(p) = s
                                        => Stored(s) = item[p]
                    /\ Filled(s) => Stored(s) = data[s]
                    /\ ~Filled(s) => \E p \in Procs : pc[p] = "settle" /\ IsPush(op[p])
                                                      /\ MySlot(p) = s
  BY DEF StoredInv
<1>1. ASSUME NEW p \in Procs, pc[p] = "settle", IsPush(op[p]), MySlot(p) = s
      PROVE  Stored(s) = item[p]
  <2>1. state[s] = "WRITING"
    BY <1>1 DEF IInv, ClaimInv, Holding, Held
  <2>2. PICK q \in Procs : pc[q] = "settle" /\ MySlot(q) = s /\ Stored(s) = item[q]
    BY <2>1, StoredIs DEF Filled
  <2>3. p = q
    BY <1>1, <2>2 DEF IInv, ClaimInv, Holding
  <2> QED BY <2>2, <2>3
<1>2. Filled(s) => Stored(s) = data[s]
  BY StoredIs DEF Filled
<1> QED BY <1>1, <1>2, StoredIs

LEMMA ShapeNext == IInv' /\ WindowInv' => Shape' /\ StoredInv'
BY ShapeHolds, StoredHolds, PTL

-----------------------------------------------------------------------------
(* What a step leaves alone                                                *)

\* The call of p as Deque sees it.
AbsOf(p) == [op |-> op[p],
             item |-> IF pc[p] = "settle" /\ ~IsPush(op[p]) THEN data[MySlot(p)]
                      ELSE item[p],
             done |-> pc[p] = "settle"]
AbsCall == [p \in Procs |-> AbsOf(p)]

LEMMA SameContents ==
  ASSUME Shape, Shape', ptr' = ptr, \A s \in Indices : Inside(s) => Stored(s)' = Stored(s)
  PROVE  Contents' = Contents
<1>1. len' = len
  BY DEF len
<1>2. \A n \in 1..len : At(n)' = At(n)
  BY <1>1 DEF At
<1>3. \A n \in 1..len : Stored(At(n))' = Stored(At(n))
  BY <1>2 DEF Shape
<1>4. Len(Contents') = Len(Contents) /\ \A n \in 1..Len(Contents) : Contents'[n] = Contents[n]
  BY <1>1, <1>3 DEF Shape
<1> QED BY <1>4, SeqEqual DEF Shape

\* A slot of the window whose writer, or whose data, stays.
LEMMA StoredStays ==
  ASSUME StoredInv, StoredInv', NEW s \in Indices, Inside(s), Inside(s)',
         data'[s] = data[s], Filled(s)' <=> Filled(s),
         \A q \in Procs : pc[q] = "settle" /\ IsPush(op[q]) /\ MySlot(q) = s =>
           pc'[q] = "settle" /\ op'[q] = op[q] /\ MySlot(q)' = s /\ item'[q] = item[q]
  PROVE  Stored(s)' = Stored(s)
<1>1. CASE Filled(s)
  BY <1>1 DEF StoredInv
<1>2. CASE ~Filled(s)
  <2>1. PICK q \in Procs : pc[q] = "settle" /\ IsPush(op[q]) /\ MySlot(q) = s
    BY <1>2 DEF StoredInv
  <2>2. Stored(s) = item[q]
    BY <2>1 DEF StoredInv
  <2>3. pc'[q] = "settle" /\ IsPush(op'[q]) /\ MySlot(q)' = s /\ item'[q] = item[q]
    BY <2>1
  <2>4. Stored(s)' = item'[q]
    BY <2>3 DEF StoredInv
  <2> QED BY <2>2, <2>3, <2>4
<1> QED BY <1>1, <1>2

\* A step that neither moves an index nor settles an item.
LEMMA Quiet ==
  ASSUME Shape, StoredInv, Shape', StoredInv', NEW p \in Procs, ptr' = ptr, data' = data,
         \A s \in Indices : Filled(s)' <=> Filled(s),
         pc[p] # "settle", pc'[p] # "settle",
         \A q \in Procs \ {p} : /\ pc'[q] = pc[q] /\ op'[q] = op[q]
                                /\ own'[q] = own[q] /\ item'[q] = item[q]
  PROVE  /\ Contents' = Contents
         /\ \A q \in Procs \ {p} : AbsOf(q)' = AbsOf(q)
<1>1. \A q \in Procs \ {p} : MySlot(q)' = MySlot(q)
  BY DEF MySlot
<1>2. ASSUME NEW s \in Indices, Inside(s) PROVE Stored(s)' = Stored(s)
  <2>1. Inside(s)'
    BY <1>2 DEF Inside, Offset, len
  <2>2. \A q \in Procs : pc[q] = "settle" /\ IsPush(op[q]) /\ MySlot(q) = s =>
          pc'[q] = "settle" /\ op'[q] = op[q] /\ MySlot(q)' = s /\ item'[q] = item[q]
    BY <1>1
  <2> QED BY <1>2, <2>1, <2>2, StoredStays
<1>3. Contents' = Contents
  BY <1>2, SameContents
<1>4. \A q \in Procs \ {p} : AbsOf(q)' = AbsOf(q)
  BY <1>1 DEF AbsOf
<1> QED BY <1>3, <1>4

\* How the calls that Deque sees change when only that of p does.
LEMMA CallChange ==
  ASSUME NEW p \in Procs, \A q \in Procs \ {p} : AbsOf(q)' = AbsOf(q)
  PROVE  AbsCall' = [AbsCall EXCEPT ![p] = AbsOf(p)']
BY DEF AbsCall

-----------------------------------------------------------------------------
(* The steps of Deque, in terms of the calls it sees                       *)

LEMMA AbsBegin ==
  ASSUME NEW p \in Procs, AbsOf(p) = Abstract!NoCall, Contents' = Contents,
         NEW o \in Allowed[p], NEW i,
         AbsCall' = [AbsCall EXCEPT ![p] = [op |-> o, item |-> i, done |-> FALSE]],
         IF IsPush(o) THEN i \in out /\ out' = out \ {i} ELSE i = None /\ out' = out
  PROVE  Abstract!Begin(p)
<1>1. AbsCall[p] = Abstract!NoCall
  BY DEF AbsCall
<1>2. Abstract!IsPush(o) <=> IsPush(o)
  BY DEF Abstract!IsPush, IsPush
<1> QED BY <1>1, <1>2 DEF Abstract!Begin, AbsCall, AbsOf

LEMMA AbsReturn ==
  ASSUME NEW p \in Procs, pc[p] = "settle", Contents' = Contents,
         AbsCall' = [AbsCall EXCEPT ![p] = Abstract!NoCall],
         out' = IF IsPush(op[p]) THEN out ELSE out \cup {AbsOf(p).item}
  PROVE  Abstract!Return(p)
<1>1. AbsCall[p] = AbsOf(p) /\ AbsOf(p).done /\ AbsOf(p).op = op[p]
  BY DEF AbsCall, AbsOf
<1>2. Abstract!IsPush(op[p]) <=> IsPush(op[p])
  BY DEF Abstract!IsPush, IsPush
<1> QED BY <1>1, <1>2 DEF Abstract!Return, AbsCall, AbsOf

LEMMA AbsRefuse ==
  ASSUME NEW p \in Procs, pc[p] # "settle", op[p] # None, Contents' = Contents,
         AbsCall' = [AbsCall EXCEPT ![p] = Abstract!NoCall],
         out' = IF IsPush(op[p]) THEN out \cup {item[p]} ELSE out
  PROVE  Abstract!Refuse(p)
<1>1. /\ AbsCall[p] = AbsOf(p) /\ ~AbsOf(p).done /\ AbsOf(p).op = op[p]
      /\ AbsOf(p).item = item[p]
  BY DEF AbsCall, AbsOf
<1>2. Abstract!IsPush(op[p]) <=> IsPush(op[p])
  BY DEF Abstract!IsPush, IsPush
<1> QED BY <1>1, <1>2 DEF Abstract!Refuse, AbsCall, AbsOf

LEMMA AbsPut ==
  ASSUME NEW p \in Procs, pc[p] # "settle", IsPush(op[p]), out' = out,
         AbsCall' = [AbsCall EXCEPT ![p] = [op |-> op[p], item |-> item[p], done |-> TRUE]],
         Contents' = IF op[p] = "push_front" THEN <<item[p]>> \o Contents
                     ELSE Append(Contents, item[p])
  PROVE  Abstract!Put(p)
<1>1. AbsCall[p] = [op |-> op[p], item |-> item[p], done |-> FALSE]
  BY DEF AbsCall, AbsOf
<1>2. Abstract!IsPush(op[p]) <=> IsPush(op[p])
  BY DEF Abstract!IsPush, IsPush
<1>3. [AbsCall EXCEPT ![p].done = TRUE]
        = [AbsCall EXCEPT ![p] = [op |-> op[p], item |-> item[p], done |-> TRUE]]
  <2> DEFINE r == AbsCall[p]
             yes == TRUE
  <2>1. DOMAIN r = {"op", "item", "done"} /\ r.op = op[p] /\ r.item = item[p]
    BY <1>1
  <2>2. [AbsCall EXCEPT ![p].done = yes] = [AbsCall EXCEPT ![p] = [r EXCEPT !.done = yes]]
    OBVIOUS
  <2> HIDE DEF r, yes
  <2>3. [r EXCEPT !.done = yes] = [x \in DOMAIN r |-> IF x = "done" THEN yes ELSE r[x]]
    BY <2>1
  <2>4. [x \in DOMAIN r |-> IF x = "done" THEN yes ELSE r[x]]
          = [op |-> op[p], item |-> item[p], done |-> yes]
    BY <2>1
  <2> QED BY <2>2, <2>3, <2>4 DEF yes
<1> QED BY <1>1, <1>2, <1>3 DEF Abstract!Put, AbsCall, AbsOf

LEMMA AbsTake ==
  ASSUME NEW p \in Procs, pc[p] # "settle", op[p] \in {"pop_front", "pop_back"},
         item[p] = None, out' = out, Contents # <<>>, NEW i,
         AbsCall' = [AbsCall EXCEPT ![p] = [op |-> op[p], item |-> i, done |-> TRUE]],
         i = IF op[p] = "pop_front" THEN Head(Contents) ELSE Abstract!Last(Contents),
         Contents' = IF op[p] = "pop_front" THEN Tail(Contents) ELSE Abstract!Front(Contents)
  PROVE  Abstract!Take(p)
<1>1. AbsCall[p] = [op |-> op[p], item |-> None, done |-> FALSE]
  BY DEF AbsCall, AbsOf, IsPush
<1>2. [AbsCall EXCEPT ![p].done = TRUE, ![p].item = i]
        = [AbsCall EXCEPT ![p] = [op |-> op[p], item |-> i, done |-> TRUE]]
  <2> DEFINE r == AbsCall[p]
             yes == TRUE
  <2>1. DOMAIN r = {"op", "item", "done"} /\ r.op = op[p]
    BY <1>1
  <2>2. [AbsCall EXCEPT ![p].done = yes, ![p].item = i]
          = [AbsCall EXCEPT ![p] = [r EXCEPT !.done = yes, !.item = i]]
    BY DEF AbsCall
  <2> HIDE DEF r, yes
  <2>3. [r EXCEPT !.done = yes, !.item = i]
          = [x \in DOMAIN r |-> IF x = "done" THEN yes ELSE IF x = "item" THEN i ELSE r[x]]
    BY <2>1
  <2>4. [x \in DOMAIN r |-> IF x = "done" THEN yes ELSE IF x = "item" THEN i ELSE r[x]]
          = [op |-> op[p], item |-> i, done |-> yes]
    BY <2>1
  <2> QED BY <2>2, <2>3, <2>4 DEF yes
<1> QED BY <1>1, <1>2 DEF Abstract!Take, AbsCall, AbsOf

-----------------------------------------------------------------------------
(* The move of an index                                                    *)

\* What a move changes, in the slots and in the calls.
LEMMA MoveFacts ==
  ASSUME IInv, StoredInv, StoredInv', NEW p \in Procs, Move(p)
  PROVE  /\ op[p] \in Operations /\ MySlot(p) \in Indices
         /\ \A r \in Indices : Inside(r) /\ Inside(r)' => Stored(r)' = Stored(r)
         /\ \A r \in Indices : IsPush(op[p]) /\ r = MySlot(p) /\ Inside(r)' => Stored(r)' = item[p]
         /\ ~IsPush(op[p]) /\ Inside(MySlot(p)) => Stored(MySlot(p)) = data[MySlot(p)]
         /\ \A q \in Procs \ {p} : AbsOf(q)' = AbsOf(q)
         /\ AbsOf(p)' = [op |-> op[p], done |-> TRUE,
                        item |-> IF IsPush(op[p]) THEN item[p] ELSE data[MySlot(p)]]
<1>1. /\ pc[p] = "move" /\ pc' = [pc EXCEPT ![p] = "settle"]
      /\ UNCHANGED <<state, data, op, item, own, far, out>>
  BY DEF Move, Goto
<1>2. pc'[p] = "settle" /\ \A q \in Procs \ {p} : pc'[q] = pc[q]
  BY <1>1 DEF IInv, TypeOK
<1>3. \A q \in Procs : MySlot(q)' = MySlot(q)
  BY <1>1 DEF MySlot
<1>4. op[p] \in Operations /\ MySlot(p) \in Indices
  BY <1>1, Calls DEF IInv
<1>5. ASSUME NEW r \in Indices, Inside(r), Inside(r)' PROVE Stored(r)' = Stored(r)
  <2>1. \A q \in Procs : pc[q] = "settle" /\ IsPush(op[q]) /\ MySlot(q) = r =>
          pc'[q] = "settle" /\ op'[q] = op[q] /\ MySlot(q)' = r /\ item'[q] = item[q]
    BY <1>1, <1>2, <1>3
  <2>2. Filled(r)' <=> Filled(r)
    BY <1>1 DEF Filled
  <2>3. data'[r] = data[r]
    BY <1>1
  <2> QED BY <1>5, <2>1, <2>2, <2>3, StoredStays
<1>6. ASSUME NEW r \in Indices, IsPush(op[p]), r = MySlot(p), Inside(r)'
      PROVE  Stored(r)' = item[p]
  BY <1>1, <1>2, <1>3, <1>4, <1>6 DEF StoredInv
<1>7. ASSUME ~IsPush(op[p]), Inside(MySlot(p)) PROVE Stored(MySlot(p)) = data[MySlot(p)]
  <2>1. Filled(MySlot(p))
    BY <1>1, <1>7 DEF IInv, ClaimInv, Holding, Held, Filled
  <2> QED BY <1>4, <1>7, <2>1 DEF StoredInv
<1>8. \A q \in Procs \ {p} : AbsOf(q)' = AbsOf(q)
  BY <1>1, <1>2, <1>3 DEF AbsOf
<1>9. AbsOf(p)' = [op |-> op[p], done |-> TRUE,
                   item |-> IF IsPush(op[p]) THEN item[p] ELSE data[MySlot(p)]]
  BY <1>1, <1>2, <1>3 DEF AbsOf
<1> QED BY <1>4, <1>5, <1>6, <1>7, <1>8, <1>9

\* A push puts its item at its end.
LEMMA PushContents ==
  ASSUME IInv, WindowInv, HasRoom, Shape, StoredInv, Shape', StoredInv',
         NEW p \in Procs, Move(p), IsPush(op[p])
  PROVE  Contents' = IF op[p] = "push_front" THEN <<item[p]>> \o Contents
                     ELSE Append(Contents, item[p])
<1>0. PICK s \in Indices, k \in Nat : s = MySlot(p) /\ k = len
  BY MoveFacts DEF Shape
<1>1. /\ pc[p] = "move" /\ ptr[OwnEnd(op[p])] = own[p]
      /\ ptr' = [ptr EXCEPT ![OwnEnd(op[p])] = Moved(op[p], own[p])]
  BY DEF Move
<1>2. op[p] \in Operations /\ item[p] \in Items
  BY MoveFacts, Calls DEF IInv
<1>3. k < CAPACITY - 1
  BY <1>0, <1>1, RoomToMove
<1>4. len' = k + 1 /\ \A r \in Indices : Inside(r)' <=> Inside(r) \/ r = s
  BY <1>0, <1>1, <1>2, <1>3, MoveWindow DEF IInv
<1>5. Stored(s)' = item[p]
  BY <1>0, <1>4, MoveFacts
<1>6. \A r \in Indices : Inside(r) => Stored(r)' = Stored(r)
  BY <1>4, MoveFacts
<1>7. DOMAIN ptr = {"head", "tail"}
  BY DEF IInv, TypeOK
<1>8. CASE op[p] = "push_front"
  <2>1. Backwards(op[p]) /\ OwnEnd(op[p]) = "head"
    BY <1>8 DEF Backwards, OwnEnd
  <2>2. ptr'.head = Pred(ptr.head) /\ s = Pred(ptr.head)
    BY <1>0, <1>1, <1>7, <2>1 DEF Moved, MySlot, Slot
  <2>3. At(1)' = s /\ \A n \in 1..k : At(n + 1)' = At(n)
    <3>1. \A n \in 1..CAPACITY : At(n)' = IF Pred(ptr.head) + n - 1 < CAPACITY
                                         THEN Pred(ptr.head) + n - 1
                                         ELSE Pred(ptr.head) + n - 1 - CAPACITY
      BY <2>2 DEF Shape
    <3>2. Pred(ptr.head) \in Indices
      BY <2>2
    <3>3. At(1)' = Pred(ptr.head)
      BY <3>1, <3>2, CapacityAssumption DEF Indices
    <3>4. ASSUME NEW n \in 1..k PROVE At(n + 1)' = At(n)
      <4>1. n + 1 \in 1..CAPACITY /\ n \in 1..CAPACITY
        BY <1>3, CapacityAssumption
      <4>2. At(n) = IF ptr.head + n - 1 < CAPACITY THEN ptr.head + n - 1
                    ELSE ptr.head + n - 1 - CAPACITY
        BY <4>1 DEF Shape
      <4>3. At(n + 1)' = IF Pred(ptr.head) + (n + 1) - 1 < CAPACITY
                         THEN Pred(ptr.head) + (n + 1) - 1
                         ELSE Pred(ptr.head) + (n + 1) - 1 - CAPACITY
        BY <3>1, <4>1
      <4>4. ptr.head \in Indices
        BY DEF Shape
      <4> QED BY <1>3, <4>2, <4>3, <4>4, CapacityAssumption DEF Pred, Indices
    <3> QED BY <2>2, <3>3, <3>4
  <2> DEFINE r == <<item[p]>> \o Contents
  <2>4. r \in Seq(Items) /\ Len(r) = k + 1 /\ r[1] = item[p]
        /\ \A n \in 1..k : r[n + 1] = Contents[n]
    BY <1>0, <1>2 DEF Shape
  <2>5. Contents'[1] = item[p]
    BY <1>4, <1>5, <2>3 DEF Shape
  <2>6. \A n \in 1..k : Contents'[n + 1] = Contents[n]
    BY <1>0, <1>4, <1>6, <2>3 DEF Shape
  <2>7. \A n \in 1..Len(r) : n = 1 \/ (n - 1 \in 1..k /\ (n - 1) + 1 = n)
    BY <2>4 DEF Shape
  <2> HIDE DEF r
  <2>8. \A n \in 1..Len(r) : r[n] = Contents'[n]
    BY <2>4, <2>5, <2>6, <2>7
  <2>9. r = Contents'
    BY <1>4, <2>4, <2>8, SeqEqual DEF Shape
  <2> QED BY <1>8, <2>9 DEF r
<1>9. CASE op[p] # "push_front"
  <2>1. ~Backwards(op[p]) /\ OwnEnd(op[p]) = "tail"
    BY <1>9 DEF Backwards, OwnEnd, IsPush
  <2>2. ptr'.head = ptr.head /\ s = ptr.tail
    BY <1>0, <1>1, <1>7, <2>1 DEF MySlot, Slot
  <2>3. At(k + 1)' = s /\ \A n \in 1..k : At(n)' = At(n)
    <3>1. \A n \in 1..CAPACITY : At(n)' = IF ptr.head + n - 1 < CAPACITY THEN ptr.head + n - 1
                                         ELSE ptr.head + n - 1 - CAPACITY
      BY <2>2 DEF Shape
    <3>2. \A n \in 1..k : n \in 1..CAPACITY
      BY <1>3, CapacityAssumption
    <3>3. \A n \in 1..k : At(n)' = At(n)
      BY <3>1, <3>2 DEF Shape
    <3>4. k + 1 \in 1..CAPACITY
      BY <1>3, CapacityAssumption
    <3>5. At(k + 1)' = IF ptr.head + (k + 1) - 1 < CAPACITY THEN ptr.head + (k + 1) - 1
                       ELSE ptr.head + (k + 1) - 1 - CAPACITY
      BY <3>1, <3>4
    <3>6. ptr.head \in Indices /\ ptr.tail \in Indices
      BY DEF Shape
    <3> QED BY <1>0, <2>2, <3>3, <3>5, <3>6, CapacityAssumption DEF Indices, len
  <2> DEFINE r == Append(Contents, item[p])
  <2>4. r \in Seq(Items) /\ Len(r) = k + 1 /\ r[k + 1] = item[p]
        /\ \A n \in 1..k : r[n] = Contents[n]
    BY <1>0, <1>2 DEF Shape
  <2>5. Contents'[k + 1] = item[p]
    <3>1. k + 1 \in 1..len'
      BY <1>4 DEF Shape
    <3> QED BY <1>5, <2>3, <3>1 DEF Shape
  <2>6. \A n \in 1..k : Contents'[n] = Contents[n]
    BY <1>0, <1>4, <1>6, <2>3 DEF Shape
  <2>7. \A n \in 1..Len(r) : n = k + 1 \/ n \in 1..k
    BY <2>4 DEF Shape
  <2> HIDE DEF r
  <2>8. \A n \in 1..Len(r) : r[n] = Contents'[n]
    BY <2>4, <2>5, <2>6, <2>7
  <2>9. r = Contents'
    BY <1>4, <2>4, <2>8, SeqEqual DEF Shape
  <2> QED BY <1>9, <2>9 DEF r
<1> QED BY <1>8, <1>9

\* A pop takes the item at its end.
LEMMA PopContents ==
  ASSUME IInv, WindowInv, Shape, StoredInv, Shape', StoredInv',
         NEW p \in Procs, Move(p), ~IsPush(op[p])
  PROVE  /\ Contents # <<>>
         /\ data[MySlot(p)] = IF op[p] = "pop_front" THEN Head(Contents)
                              ELSE Abstract!Last(Contents)
         /\ Contents' = IF op[p] = "pop_front" THEN Tail(Contents)
                        ELSE Abstract!Front(Contents)
<1>0. PICK s \in Indices, k \in Nat : s = MySlot(p) /\ k = len
  BY MoveFacts DEF Shape
<1>1. /\ pc[p] = "move" /\ ptr[OwnEnd(op[p])] = own[p]
      /\ ptr' = [ptr EXCEPT ![OwnEnd(op[p])] = Moved(op[p], own[p])]
  BY DEF Move
<1>2. op[p] \in Operations
  BY MoveFacts
<1>3. Inside(s)
  <2>1. Keeps(p, s)
    BY <1>0, <1>1 DEF Keeps
  <2> QED BY <2>1, WindowIs
<1>4. len' = k - 1 /\ \A r \in Indices : Inside(r)' <=> Inside(r) /\ r # s
  BY <1>0, <1>1, <1>2, <1>3, MoveWindow DEF IInv
<1>5. k - 1 \in Nat /\ k < CAPACITY
  BY <1>0, <1>4 DEF Shape
<1>6. Stored(s) = data[MySlot(p)]
  BY <1>0, <1>3, MoveFacts
<1>7. \A r \in Indices : Inside(r) /\ Inside(r)' => Stored(r)' = Stored(r)
  BY MoveFacts
<1>8. Contents \in Seq(Items) /\ Len(Contents) = k /\ Contents # <<>>
      /\ Contents' \in Seq(Items) /\ Len(Contents') = k - 1
  BY <1>0, <1>4, <1>5 DEF Shape
<1>9. DOMAIN ptr = {"head", "tail"}
  BY DEF IInv, TypeOK
<1>10. \A n \in 1..CAPACITY : At(n) = IF ptr.head + n - 1 < CAPACITY THEN ptr.head + n - 1
                                      ELSE ptr.head + n - 1 - CAPACITY
  BY DEF Shape
<1>11. ptr.head \in Indices /\ ptr.tail \in Indices
  BY DEF Shape
<1>12. CASE op[p] = "pop_front"
  <2>1. ~Backwards(op[p]) /\ OwnEnd(op[p]) = "head"
    BY <1>12 DEF Backwards, OwnEnd
  <2>2. ptr'.head = Succ(ptr.head) /\ s = ptr.head
    BY <1>0, <1>1, <1>9, <2>1 DEF Moved, MySlot, Slot
  <2>3. Succ(ptr.head) = IF ptr.head = CAPACITY - 1 THEN 0 ELSE ptr.head + 1
    BY <1>11, SuccIs
  <2>4. At(1) = s
    BY <1>10, <1>11, <2>2, CapacityAssumption DEF Indices
  <2>5. Contents[1] = data[MySlot(p)]
    BY <1>0, <1>5, <1>6, <2>4 DEF Shape
  <2>6. \A n \in 1..CAPACITY : At(n)' = IF ptr'.head + n - 1 < CAPACITY THEN ptr'.head + n - 1
                                       ELSE ptr'.head + n - 1 - CAPACITY
    BY DEF Shape
  <2>7. ASSUME NEW n \in 1..k-1 PROVE Contents'[n] = Contents[n + 1]
    <3>1. n \in 1..CAPACITY /\ n + 1 \in 1..CAPACITY /\ n + 1 \in 1..k
      BY <1>5, CapacityAssumption
    <3>2. At(n)' = IF ptr'.head + n - 1 < CAPACITY THEN ptr'.head + n - 1
                   ELSE ptr'.head + n - 1 - CAPACITY
      BY <2>6, <3>1
    <3>3. At(n + 1) = IF ptr.head + (n + 1) - 1 < CAPACITY THEN ptr.head + (n + 1) - 1
                      ELSE ptr.head + (n + 1) - 1 - CAPACITY
      BY <1>10, <3>1
    <3>4. At(n)' = At(n + 1)
      BY <1>5, <1>11, <2>2, <2>3, <3>2, <3>3, CapacityAssumption DEF Indices
    <3>5. PICK r \in Indices : r = At(n + 1) /\ Inside(r) /\ Contents[n + 1] = Stored(r)
      BY <1>0, <3>1 DEF Shape
    <3>6. Inside(r)' /\ Contents'[n] = Stored(r)'
      BY <1>4, <3>4, <3>5 DEF Shape
    <3> QED BY <1>7, <3>5, <3>6
  <2> DEFINE q == Tail(Contents)
  <2>8. q \in Seq(Items) /\ Len(q) = k - 1 /\ \A n \in 1..k-1 : q[n] = Contents[n + 1]
    BY <1>8
  <2>9. Head(Contents) = Contents[1]
    BY <1>8
  <2> HIDE DEF q
  <2>10. q = Contents'
    BY <1>8, <2>7, <2>8, SeqEqual
  <2> QED BY <1>8, <1>12, <2>5, <2>9, <2>10 DEF q
<1>13. CASE op[p] # "pop_front"
  <2>1. op[p] = "pop_back"
    BY <1>2, <1>13 DEF IsPush, Operations
  <2>2. Backwards(op[p]) /\ OwnEnd(op[p]) = "tail"
    BY <2>1 DEF Backwards, OwnEnd
  <2>3. ptr'.head = ptr.head /\ s = Pred(ptr.tail)
    BY <1>0, <1>1, <1>9, <2>2 DEF MySlot, Slot
  <2>4. At(k) = s
    <3>1. k \in 1..CAPACITY
      BY <1>5, CapacityAssumption
    <3>2. At(k) = IF ptr.head + k - 1 < CAPACITY THEN ptr.head + k - 1
                  ELSE ptr.head + k - 1 - CAPACITY
      BY <1>10, <3>1
    <3> QED BY <1>0, <1>5, <1>11, <2>3, <3>2, CapacityAssumption DEF Indices, len, Pred
  <2>5. Contents[k] = data[MySlot(p)]
    <3>1. k \in 1..len
      BY <1>0, <1>5
    <3> QED BY <1>6, <2>4, <3>1 DEF Shape
  <2>6. \A n \in 1..CAPACITY : At(n)' = At(n)
    BY <2>3 DEF Shape
  <2>7. ASSUME NEW n \in 1..k-1 PROVE Contents'[n] = Contents[n]
    <3>1. n \in 1..CAPACITY /\ n \in 1..k
      BY <1>5, CapacityAssumption
    <3>2. PICK r \in Indices : r = At(n) /\ Inside(r) /\ Contents[n] = Stored(r)
      BY <1>0, <3>1 DEF Shape
    <3>3. Inside(r)' /\ Contents'[n] = Stored(r)'
      BY <1>4, <2>6, <3>1, <3>2 DEF Shape
    <3> QED BY <1>7, <3>2, <3>3
  <2> DEFINE q == SubSeq(Contents, 1, k - 1)
  <2>8. q \in Seq(Items) /\ Len(q) = k - 1 /\ \A n \in 1..k-1 : q[n] = Contents[n]
    BY <1>5, <1>8
  <2>9. Abstract!Last(Contents) = Contents[k] /\ Abstract!Front(Contents) = q
    BY <1>8 DEF Abstract!Last, Abstract!Front
  <2> HIDE DEF q
  <2>10. q = Contents'
    BY <1>8, <2>7, <2>8, SeqEqual
  <2> QED BY <1>8, <1>13, <2>5, <2>9, <2>10
<1> QED BY <1>12, <1>13

-----------------------------------------------------------------------------
(* Every step of the deque is a step of Deque or changes nothing there     *)

LEMMA InitRefines == Init => Abstract!AbsInit
<1> SUFFICES ASSUME Init PROVE Abstract!AbsInit
  OBVIOUS
<1>1. len = 0
  BY DEF Init, len
<1>2. Contents = <<>>
  BY <1>1 DEF Contents
<1>3. AbsCall = [p \in Procs |-> Abstract!NoCall]
  <2>1. \A p \in Procs : AbsOf(p) = Abstract!NoCall
    BY DEF Init, AbsOf, Abstract!NoCall
  <2> QED BY <2>1 DEF AbsCall
<1> QED BY <1>2, <1>3 DEF Abstract!AbsInit, Init, AbsCall, AbsOf

\* The steps before the claim, and those that hold a slot without moving it.
LEMMA QuietRefines ==
  ASSUME Shape, StoredInv, Shape', StoredInv', NEW p \in Procs,
         ptr' = ptr, data' = data, out' = out, op' = op, item' = item,
         \A s \in Indices : Filled(s)' <=> Filled(s),
         pc[p] # "settle", pc'[p] # "settle",
         \A q \in Procs \ {p} : pc'[q] = pc[q] /\ own'[q] = own[q]
  PROVE  UNCHANGED Abstract!absVars
<1>1. Contents' = Contents /\ \A q \in Procs \ {p} : AbsOf(q)' = AbsOf(q)
  BY Quiet
<1>2. AbsOf(p)' = AbsOf(p)
  BY DEF AbsOf
<1>3. AbsCall' = AbsCall
  BY <1>1, <1>2 DEF AbsCall
<1> QED BY <1>1, <1>3 DEF Abstract!absVars, AbsCall, AbsOf

LEMMA RefuseRefines ==
  ASSUME IInv, Shape, StoredInv, Shape', StoredInv', NEW p \in Procs,
         pc[p] \in {"recheck", "claim"}, Refuse(p)
  PROVE  Abstract!Refuse(p)
<1>1. /\ pc' = [pc EXCEPT ![p] = "idle"] /\ op' = [op EXCEPT ![p] = None]
      /\ item' = [item EXCEPT ![p] = None] /\ own' = [own EXCEPT ![p] = 0]
      /\ out' = IF IsPush(op[p]) THEN out \cup {item[p]} ELSE out
      /\ UNCHANGED <<ptr, state, data>>
  BY DEF Refuse, Leave, Goto
<1>2. /\ pc'[p] = "idle" /\ op'[p] = None /\ item'[p] = None /\ op[p] # None
      /\ \A q \in Procs \ {p} : /\ pc'[q] = pc[q] /\ op'[q] = op[q]
                                /\ own'[q] = own[q] /\ item'[q] = item[q]
  BY <1>1 DEF IInv, TypeOK
<1>3. \A s \in Indices : Filled(s)' <=> Filled(s)
  BY <1>1 DEF Filled
<1>4. Contents' = Contents /\ \A q \in Procs \ {p} : AbsOf(q)' = AbsOf(q)
  BY <1>1, <1>2, <1>3, Quiet
<1>5. AbsOf(p)' = Abstract!NoCall
  BY <1>2 DEF AbsOf, Abstract!NoCall
<1>6. AbsCall' = [AbsCall EXCEPT ![p] = Abstract!NoCall]
  BY <1>4, <1>5, CallChange
<1> QED BY <1>1, <1>2, <1>4, <1>6, AbsRefuse

LEMMA CallRefines ==
  ASSUME IInv, Shape, StoredInv, Shape', StoredInv', NEW p \in Procs, Call(p)
  PROVE  Abstract!Begin(p)
<1>1. PICK o \in Allowed[p] :
        /\ op' = [op EXCEPT ![p] = o]
        /\ IF IsPush(o)
           THEN \E i \in out : item' = [item EXCEPT ![p] = i] /\ out' = out \ {i}
           ELSE UNCHANGED <<item, out>>
  BY DEF Call
<1>2. pc[p] = "idle" /\ pc' = [pc EXCEPT ![p] = "own"]
      /\ UNCHANGED <<ptr, state, data, own, far>>
  BY DEF Call, Goto
<1>3. op[p] = None /\ item[p] = None
  BY <1>2, Calls DEF IInv, TypeOK
<1>4. PICK i : /\ item'[p] = i
               /\ IF IsPush(o) THEN i \in out /\ out' = out \ {i} ELSE i = None /\ out' = out
               /\ \A q \in Procs \ {p} : item'[q] = item[q]
  <2>1. CASE IsPush(o)
    BY <1>1, <2>1 DEF IInv, TypeOK
  <2>2. CASE ~IsPush(o)
    BY <1>1, <1>3, <2>2
  <2> QED BY <2>1, <2>2
<1>5. /\ pc'[p] = "own" /\ op'[p] = o
      /\ \A q \in Procs \ {p} : /\ pc'[q] = pc[q] /\ op'[q] = op[q]
                                /\ own'[q] = own[q] /\ item'[q] = item[q]
  BY <1>1, <1>2, <1>4 DEF IInv, TypeOK
<1>6. \A s \in Indices : Filled(s)' <=> Filled(s)
  BY <1>2 DEF Filled
<1>7. Contents' = Contents /\ \A q \in Procs \ {p} : AbsOf(q)' = AbsOf(q)
  BY <1>2, <1>5, <1>6, Quiet
<1>8. AbsOf(p) = Abstract!NoCall
  BY <1>2, <1>3 DEF AbsOf, Abstract!NoCall
<1>9. AbsOf(p)' = [op |-> o, item |-> i, done |-> FALSE]
  BY <1>4, <1>5 DEF AbsOf
<1>10. AbsCall' = [AbsCall EXCEPT ![p] = [op |-> o, item |-> i, done |-> FALSE]]
  BY <1>7, <1>9, CallChange
<1> QED BY <1>4, <1>7, <1>8, <1>10, AbsBegin

LEMMA MoveRefines ==
  ASSUME IInv, WindowInv, HasRoom, Shape, StoredInv, Shape', StoredInv',
         NEW p \in Procs, Move(p)
  PROVE  Abstract!Put(p) \/ Abstract!Take(p)
<1> DEFINE i == IF IsPush(op[p]) THEN item[p] ELSE data[MySlot(p)]
<1>1. pc[p] # "settle" /\ out' = out
  BY DEF Move
<1>2. AbsCall' = [AbsCall EXCEPT ![p] = [op |-> op[p], item |-> i, done |-> TRUE]]
  <2>1. AbsOf(p)' = [op |-> op[p], item |-> i, done |-> TRUE]
    BY MoveFacts
  <2> QED BY <2>1, MoveFacts, CallChange
<1>3. CASE IsPush(op[p])
  BY <1>1, <1>2, <1>3, PushContents, AbsPut
<1>4. CASE ~IsPush(op[p])
  <2>1. op[p] \in {"pop_front", "pop_back"} /\ item[p] = None
    BY <1>4, MoveFacts, Calls DEF IInv, Operations, IsPush
  <2> QED BY <1>1, <1>2, <1>4, <2>1, PopContents, AbsTake
<1> QED BY <1>3, <1>4

LEMMA SettleRefines ==
  ASSUME IInv, WindowInv, Shape, StoredInv, Shape', StoredInv',
         NEW p \in Procs, Settle(p)
  PROVE  Abstract!Return(p)
<1>0. PICK s \in Indices : s = MySlot(p)
  BY Calls DEF IInv
<1>1. /\ pc[p] = "settle" /\ pc' = [pc EXCEPT ![p] = "idle"]
      /\ op' = [op EXCEPT ![p] = None] /\ item' = [item EXCEPT ![p] = None]
      /\ own' = [own EXCEPT ![p] = 0] /\ ptr' = ptr
      /\ state' = [state EXCEPT ![s] = IF IsPush(op[p]) THEN "READY" ELSE "EMPTY"]
      /\ data' = [data EXCEPT ![s] = IF IsPush(op[p]) THEN item[p] ELSE None]
      /\ out' = IF IsPush(op[p]) THEN out ELSE out \cup {data[s]}
  BY <1>0 DEF Settle, Leave, Goto
<1>2. /\ pc'[p] = "idle" /\ op'[p] = None /\ item'[p] = None
      /\ \A q \in Procs \ {p} : /\ pc'[q] = pc[q] /\ op'[q] = op[q]
                                /\ own'[q] = own[q] /\ item'[q] = item[q]
      /\ \A r \in Indices \ {s} : state'[r] = state[r] /\ data'[r] = data[r]
      /\ state'[s] = IF IsPush(op[p]) THEN "READY" ELSE "EMPTY"
      /\ data'[s] = IF IsPush(op[p]) THEN item[p] ELSE None
  BY <1>1 DEF IInv, TypeOK, Indices
<1>3. \A q \in Procs \ {p} : /\ MySlot(q)' = MySlot(q) /\ MySlot(q) \in Indices
                             /\ pc[q] = "settle" => MySlot(q) # s
  <2>1. \A q \in Procs \ {p} : MySlot(q)' = MySlot(q)
    BY <1>2 DEF MySlot
  <2> QED BY <1>0, <1>1, <2>1, Calls DEF IInv, ClaimInv, Holding
<1>4. state[s] = Held(op[p])
  BY <1>0, <1>1 DEF IInv, ClaimInv, Holding
<1>5. ASSUME NEW r \in Indices, Inside(r) PROVE Stored(r)' = Stored(r)
  <2>1. Inside(r)'
    BY <1>1, <1>5 DEF Inside, Offset, len
  <2>2. CASE r # s
    <3>1. \A q \in Procs : pc[q] = "settle" /\ IsPush(op[q]) /\ MySlot(q) = r =>
            pc'[q] = "settle" /\ op'[q] = op[q] /\ MySlot(q)' = r /\ item'[q] = item[q]
      <4> SUFFICES ASSUME NEW q \in Procs, pc[q] = "settle", MySlot(q) = r
                   PROVE  q \in Procs \ {p}
        BY <1>2, <1>3
      <4> QED BY <1>0, <2>2
    <3>2. data'[r] = data[r] /\ (Filled(r)' <=> Filled(r))
      BY <1>2, <2>2 DEF Filled
    <3> QED BY <1>5, <2>1, <3>1, <3>2, StoredStays
  <2>3. CASE r = s
    <3>1. IsPush(op[p])
      <4>1. state[s] # "READY" /\ \A q \in Procs \ {p} : ~Keeps(q, s)
        BY <1>0, <1>1, <1>4 DEF IInv, ClaimInv, Holding, Keeps, Held
      <4>2. Keeps(p, s)
        BY <1>5, <2>3, <4>1, WindowIs
      <4> QED BY <1>1, <4>2 DEF Keeps
    <3>2. Stored(s) = item[p]
      BY <1>0, <1>1, <1>5, <2>3, <3>1 DEF StoredInv
    <3>3. Filled(s)' /\ data'[s] = item[p]
      BY <1>2, <3>1 DEF Filled
    <3> QED BY <2>1, <2>3, <3>2, <3>3 DEF StoredInv
  <2> QED BY <2>2, <2>3
<1>6. Contents' = Contents
  BY <1>1, <1>5, SameContents
<1>7. ASSUME NEW q \in Procs \ {p} PROVE AbsOf(q)' = AbsOf(q)
  <2>1. /\ pc'[q] = pc[q] /\ op'[q] = op[q] /\ item'[q] = item[q]
        /\ MySlot(q)' = MySlot(q)
    BY <1>2, <1>3
  <2>2. CASE pc[q] = "settle"
    <3>1. PICK r \in Indices \ {s} : r = MySlot(q)
      BY <1>3, <2>2
    <3>2. data'[r] = data[r]
      BY <1>2
    <3> QED BY <2>1, <3>1, <3>2 DEF AbsOf
  <2>3. CASE pc[q] # "settle"
    BY <2>1, <2>3 DEF AbsOf
  <2> QED BY <2>2, <2>3
<1>8. AbsOf(p)' = Abstract!NoCall
  BY <1>2 DEF AbsOf, Abstract!NoCall
<1>9. AbsCall' = [AbsCall EXCEPT ![p] = Abstract!NoCall]
  BY <1>7, <1>8, CallChange
<1>10. out' = IF IsPush(op[p]) THEN out ELSE out \cup {AbsOf(p).item}
  BY <1>0, <1>1 DEF AbsOf
<1> QED BY <1>1, <1>6, <1>9, <1>10, AbsReturn

LEMMA NextRefines ==
  ASSUME IInv, WindowInv, HasRoom, IInv', WindowInv', [Next]_vars
  PROVE  [Abstract!AbsNext]_(Abstract!absVars)
<1>1. Shape /\ StoredInv /\ Shape' /\ StoredInv'
  BY ShapeHolds, StoredHolds, ShapeNext
<1>2. CASE UNCHANGED vars
  <2>1. \A s \in Indices : Inside(s) => Stored(s)' = Stored(s)
    <3>1. ASSUME NEW s \in Indices, Inside(s) PROVE Stored(s)' = Stored(s)
      <4>1. Inside(s)'
        BY <1>2, <3>1 DEF vars, Inside, Offset, len
      <4>2. data'[s] = data[s] /\ (Filled(s)' <=> Filled(s))
        BY <1>2 DEF vars, Filled
      <4>3. \A q \in Procs : pc[q] = "settle" /\ IsPush(op[q]) /\ MySlot(q) = s =>
              pc'[q] = "settle" /\ op'[q] = op[q] /\ MySlot(q)' = s /\ item'[q] = item[q]
        BY <1>2 DEF vars, MySlot
      <4> QED BY <1>1, <3>1, <4>1, <4>2, <4>3, StoredStays
    <3> QED BY <3>1
  <2>2. Contents' = Contents
    BY <1>1, <1>2, <2>1, SameContents DEF vars
  <2> QED BY <1>2, <2>2 DEF vars, Abstract!absVars, MySlot
<1>3. CASE Next
  <2>1. PICK p \in Procs : Call(p) \/ Step(p)
    BY <1>3 DEF Next
  <2>2. ASSUME pc[p] # "settle", NEW l \in {"own", "far", "recheck", "claim", "move", "release"},
               pc' = [pc EXCEPT ![p] = l], UNCHANGED <<ptr, data, out, op, item>>,
               own' = own \/ \E i : own' = [own EXCEPT ![p] = i],
               \A s \in Indices : Filled(s)' <=> Filled(s)
        PROVE  UNCHANGED Abstract!absVars
    <3>1. pc'[p] # "settle" /\ \A q \in Procs \ {p} : pc'[q] = pc[q] /\ own'[q] = own[q]
      BY <2>2 DEF IInv, TypeOK
    <3> QED BY <1>1, <2>2, <3>1, QuietRefines
  <2>3. state' = state => \A s \in Indices : Filled(s)' <=> Filled(s)
    BY DEF Filled
  <2>4. CASE Call(p)
    BY <1>1, <2>4, CallRefines DEF Abstract!AbsNext
  <2>5. CASE LoadOwn(p)
    BY <2>2, <2>3, <2>5 DEF LoadOwn, Goto
  <2>6. CASE LoadFar(p)
    BY <2>2, <2>3, <2>6 DEF LoadFar, Goto
  <2>7. CASE Recheck(p)
    <3>1. CASE Refuse(p) /\ pc[p] = "recheck"
      BY <1>1, <3>1, RefuseRefines DEF Abstract!AbsNext
    <3>2. CASE ~Refuse(p)
      BY <2>2, <2>3, <2>7, <3>2 DEF Recheck, Retry, Goto
    <3> QED BY <2>7, <3>1, <3>2 DEF Recheck
  <2>8. CASE ClaimFails(p)
    <3>1. CASE Refuse(p) /\ pc[p] = "claim"
      BY <1>1, <3>1, RefuseRefines DEF Abstract!AbsNext
    <3>2. CASE ~Refuse(p)
      BY <2>2, <2>3, <2>8, <3>2 DEF ClaimFails, Retry, Goto
    <3> QED BY <2>8, <3>1, <3>2 DEF ClaimFails
  <2>9. CASE Claim(p) \/ Release(p)
    <3>1. PICK v \in {Held(op[p]), Wanted(op[p])} : state' = [state EXCEPT ![MySlot(p)] = v]
      BY <2>9 DEF Claim, Release
    <3>2. state[MySlot(p)] \in {Held(op[p]), Wanted(op[p])}
      BY <2>9 DEF Claim, Release, IInv, ClaimInv, Holding
    <3>3. \A s \in Indices : state'[s] = IF s = MySlot(p) THEN v ELSE state[s]
      BY <3>1 DEF IInv, TypeOK, Indices
    <3>4. \A s \in Indices : Filled(s)' <=> Filled(s)
      BY <3>2, <3>3 DEF Filled, Held, Wanted
    <3> QED BY <2>2, <2>9, <3>4 DEF Claim, Release, Retry, Goto
  <2>10. CASE MoveFails(p)
    BY <2>2, <2>3, <2>10 DEF MoveFails, Goto
  <2>11. CASE Move(p)
    BY <1>1, <2>11, MoveRefines DEF Abstract!AbsNext
  <2>12. CASE Settle(p)
    BY <1>1, <2>12, SettleRefines DEF Abstract!AbsNext
  <2> QED BY <2>1, <2>4, <2>5, <2>6, <2>7, <2>8, <2>9, <2>10, <2>11, <2>12 DEF Step
<1> QED BY <1>2, <1>3

\* For any number of callers the lock-free deque is an implementation of
\* Deque while the ring has room for the items in use: each call that
\* succeeds takes effect once, between its beginning and its return, at the
\* end it names, and a refused call changes nothing.
THEOREM DequeImplemented == HasRoom => (Spec => ImplementsDeque)
<1> SUFFICES ASSUME HasRoom PROVE Spec => ImplementsDeque
  OBVIOUS
<1>1. Init => Abstract!AbsInit
  BY InitRefines
<1>2. (IInv /\ WindowInv) /\ (IInv /\ WindowInv)' /\ [Next]_vars
        => [Abstract!AbsNext]_(Abstract!absVars)
  BY NextRefines
<1>3. Spec => [](IInv /\ WindowInv)
  BY Window
<1> QED BY <1>1, <1>2, <1>3, PTL DEF Spec, ImplementsDeque, Abstract!AbsSpec
=============================================================================

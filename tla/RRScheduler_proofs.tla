------------------------- MODULE RRScheduler_proofs -------------------------
(***************************************************************************)
(* Proofs about RRScheduler, for every set of tasks and every slice:       *)
(* types, one place per task, no task in the ready queue without ticks,    *)
(* no task dropped while the queue has room, and no task passed over for   *)
(* more than one slice of another.                                         *)
(***************************************************************************)
EXTENDS RRScheduler, FiniteSetTheorems, TLAPS

-----------------------------------------------------------------------------
(* The inductive invariant behind FairShare                                *)

\* A task u that may still run before the queued t, because
\* it is ahead of t in the queue, runs or sleeps, has had no more than its slice without the rest
\* of it; a task behind t may have used its slice up, and has a new one that it gets after t.
Before(q, u, t) == \E i, j \in 1..Len(q) : i < j /\ q[i] = u /\ q[j] = t
Shares(q, outside, slices, sh) ==
  /\ \A t \in Tasks \ ToSet(q) : sh[t] = NoShare
  /\ \A t \in ToSet(q), u \in Tasks :
       /\ sh[t][u] <= MAX_TIME_SLICE
       /\ u \in outside \/ Before(q, u, t) => sh[t][u] + slices[u] <= MAX_TIME_SLICE
ShareInv ==
  /\ share \in [Tasks -> [Tasks -> Nat]]
  /\ Shares(ready, asleep \cup {current}, time_slice, share)

-----------------------------------------------------------------------------
(* Sequences without duplicates                                            *)

\* push_back of a task that is not in the queue.
LEMMA PushBack ==
  ASSUME NEW S, NEW q \in Seq(S), NEW t \in S
  PROVE  /\ Append(q, t) \in Seq(S)
         /\ ToSet(Append(q, t)) = ToSet(q) \cup {t}
         /\ Distinct(q) /\ t \notin ToSet(q) => Distinct(Append(q, t))
<1> DEFINE r == Append(q, t)
<1>1. r \in Seq(S) /\ Len(r) = Len(q) + 1 /\ Len(q) \in Nat
  OBVIOUS
<1>2. DOMAIN r = 1..Len(r) /\ DOMAIN q = 1..Len(q)
  BY <1>1
<1>3. r[Len(q) + 1] = t /\ \A i \in 1..Len(q) : r[i] = q[i]
  OBVIOUS
<1>4. ToSet(r) = ToSet(q) \cup {t}
  <2> HIDE DEF r
  <2>1. ToSet(r) \subseteq ToSet(q) \cup {t}
    BY <1>1, <1>2, <1>3 DEF ToSet
  <2>2. t \in ToSet(r)
    BY <1>1, <1>2, <1>3 DEF ToSet
  <2>3. ASSUME NEW i \in 1..Len(q) PROVE q[i] \in ToSet(r)
    <3>1. i \in DOMAIN r /\ r[i] = q[i]
      BY <1>1, <1>2, <1>3
    <3> QED BY <3>1 DEF ToSet
  <2> QED BY <1>2, <2>1, <2>2, <2>3 DEF ToSet
<1>5. ASSUME Distinct(q), t \notin ToSet(q) PROVE Distinct(r)
  <2> HIDE DEF r
  <2>1. \A i \in 1..Len(q) : q[i] # t
    BY <1>2, <1>5 DEF ToSet
  <2> QED BY <1>1, <1>3, <1>5, <2>1 DEF Distinct
<1> QED BY <1>1, <1>4, <1>5

\* push_front of a task that is not in the queue.
LEMMA PushFront ==
  ASSUME NEW S, NEW q \in Seq(S), NEW t \in S
  PROVE  /\ <<t>> \o q \in Seq(S)
         /\ ToSet(<<t>> \o q) = ToSet(q) \cup {t}
         /\ Distinct(q) /\ t \notin ToSet(q) => Distinct(<<t>> \o q)
<1> DEFINE r == <<t>> \o q
<1>1. r \in Seq(S) /\ Len(r) = Len(q) + 1
  OBVIOUS
<1>2. r[1] = t /\ \A i \in 2..Len(r) : r[i] = q[i - 1]
  OBVIOUS
<1>3. DOMAIN r = 1..Len(r) /\ DOMAIN q = 1..Len(q) /\ Len(q) \in Nat
  BY <1>1
<1>4. ToSet(r) = ToSet(q) \cup {t}
  <2>1. ToSet(r) \subseteq ToSet(q) \cup {t}
    BY <1>1, <1>2 DEF ToSet
  <2>2. t \in ToSet(r)
    BY <1>1, <1>2 DEF ToSet
  <2>3. ASSUME NEW i \in 1..Len(q) PROVE q[i] \in ToSet(r)
    <3>1. i + 1 \in DOMAIN r /\ r[i + 1] = q[i]
      <4> HIDE DEF r
      <4> QED BY <1>1, <1>2, <1>3
    <3> HIDE DEF r
    <3> QED BY <3>1 DEF ToSet
  <2> QED BY <1>3, <2>1, <2>2, <2>3 DEF ToSet
<1>5. ASSUME Distinct(q), t \notin ToSet(q) PROVE Distinct(r)
  BY <1>1, <1>2, <1>5 DEF ToSet, Distinct
<1> QED BY <1>1, <1>4, <1>5

\* pop_front.
LEMMA PopFront ==
  ASSUME NEW S, NEW q \in Seq(S), q # <<>>, Distinct(q)
  PROVE  /\ Tail(q) \in Seq(S) /\ Head(q) \in S
         /\ Head(q) \in ToSet(q)
         /\ ToSet(Tail(q)) = ToSet(q) \ {Head(q)}
         /\ Distinct(Tail(q))
<1> DEFINE r == Tail(q)
<1>1. r \in Seq(S) /\ Len(r) = Len(q) - 1 /\ Len(q) >= 1
  OBVIOUS
<1>2. Head(q) = q[1] /\ \A i \in 1..Len(r) : r[i] = q[i + 1]
  OBVIOUS
<1>3. ToSet(r) \subseteq ToSet(q) \ {Head(q)}
  BY <1>1, <1>2 DEF ToSet, Distinct
<1>4. ASSUME NEW i \in 1..Len(q), q[i] # Head(q) PROVE q[i] \in ToSet(r)
  <2>1. DOMAIN r = 1..Len(r) /\ Len(q) \in Nat
    BY <1>1
  <2> HIDE DEF r
  <2>2. i - 1 \in DOMAIN r /\ r[i - 1] = q[i]
    BY <1>1, <1>2, <1>4, <2>1
  <2> QED BY <2>2 DEF ToSet
<1>5. Distinct(r)
  BY <1>1, <1>2 DEF Distinct
<1>6. Head(q) \in S /\ Head(q) \in ToSet(q)
  BY <1>1, <1>2 DEF ToSet
<1> QED BY <1>1, <1>3, <1>4, <1>5, <1>6 DEF ToSet

\* A queue without duplicates is no longer than there are tasks.
LEMMA DistinctFits ==
  ASSUME NEW S, IsFiniteSet(S), NEW q \in Seq(S), Distinct(q)
  PROVE  Len(q) <= Cardinality(S)
<1>1. q \in [1..Len(q) -> S] /\ Len(q) \in Nat
  OBVIOUS
<1>2. q \in Injection(1..Len(q), S)
  BY <1>1 DEF Injection, IsInjective, Distinct
<1>3. Cardinality(1..Len(q)) = Len(q)
  <2>1. Cardinality(1..Len(q)) = IF 1 > Len(q) THEN 0 ELSE Len(q) - 1 + 1
    BY <1>1, FS_Interval, 1 \in Int, Len(q) \in Int
  <2> QED BY <1>1, <2>1
<1> QED BY <1>2, <1>3, FS_Injection

\* A push of a task that is not in the queue succeeds or leaves the queue alone.
LEMMA Pushes ==
  ASSUME NEW S, NEW q \in Seq(S), Distinct(q), NEW t \in S, t \notin ToSet(q),
         NEW r, r \in {push_back(q, t), push_front(q, t)}
  PROVE  /\ r \in Seq(S) /\ Distinct(r)
         /\ ToSet(r) \subseteq ToSet(q) \cup {t}
         /\ ToSet(q) \subseteq ToSet(r)
         /\ Fits(q) => t \in ToSet(r)
<1>1. CASE Fits(q) /\ r = Append(q, t)
  BY <1>1, PushBack
<1>2. CASE Fits(q) /\ r = <<t>> \o q
  BY <1>2, PushFront
<1>3. CASE ~Fits(q) /\ r = q
  BY <1>3
<1> QED BY <1>1, <1>2, <1>3 DEF push_back, push_front

-----------------------------------------------------------------------------
(* put_prev_task and pick_next_task                                        *)

\* put_prev_task puts a task that is nowhere in the queue there, if there is room,
\* once, and with ticks left.
LEMMA PutPrev ==
  ASSUME IInv, NEW t \in Tasks, NEW preempt \in BOOLEAN, t \notin Queued,
         put_prev_task(t, preempt)
  PROVE  /\ PutQueue(t, preempt) \in Seq(Tasks)
         /\ Distinct(PutQueue(t, preempt))
         /\ ToSet(PutQueue(t, preempt)) \subseteq Queued \cup {t}
         /\ Queued \subseteq ToSet(PutQueue(t, preempt))
         /\ Fits(ready) => t \in ToSet(PutQueue(t, preempt))
         /\ time_slice' \in [Tasks -> 0..MAX_TIME_SLICE]
         /\ time_slice'[t] > 0
         /\ \A u \in Tasks \ {t} : time_slice'[u] = time_slice[u]
<1>1. ready \in Seq(Tasks) /\ Distinct(ready) /\ t \notin ToSet(ready)
  BY DEF IInv, TypeOK, Queued
<1>2. time_slice \in [Tasks -> 0..MAX_TIME_SLICE] /\ MAX_TIME_SLICE \in Nat \ {0}
  BY SliceAssumption DEF IInv, TypeOK
<1>3. /\ PutQueue(t, preempt) \in Seq(Tasks)
      /\ Distinct(PutQueue(t, preempt))
      /\ ToSet(PutQueue(t, preempt)) \subseteq Queued \cup {t}
      /\ Queued \subseteq ToSet(PutQueue(t, preempt))
      /\ Fits(ready) => t \in ToSet(PutQueue(t, preempt))
  BY <1>1, Pushes DEF PutQueue, Queued
<1>4. /\ time_slice' \in [Tasks -> 0..MAX_TIME_SLICE]
      /\ time_slice'[t] > 0
      /\ \A u \in Tasks \ {t} : time_slice'[u] = time_slice[u]
  BY <1>2 DEF put_prev_task, KeepsSlice
<1> QED BY <1>3, <1>4

\* pick_next_task takes the picked task out of the queue.
LEMMA Picks ==
  ASSUME NEW q \in Seq(Tasks), Distinct(q), PickFrom(q)
  PROVE  /\ ready' \in Seq(Tasks) /\ Distinct(ready')
         /\ \/ current' = Idle /\ Queued' = ToSet(q)
            \/ /\ current' \in ToSet(q) /\ current' \in Tasks
               /\ Queued' = ToSet(q) \ {current'}
<1>1. CASE q = <<>>
  BY <1>1 DEF PickFrom, Queued
<1>2. CASE q # <<>>
  <2>1. current' = Head(q) /\ ready' = Tail(q)
    BY <1>2 DEF PickFrom
  <2>2. /\ Tail(q) \in Seq(Tasks) /\ Head(q) \in Tasks
        /\ Head(q) \in ToSet(q)
        /\ ToSet(Tail(q)) = ToSet(q) \ {Head(q)}
        /\ Distinct(Tail(q))
    BY <1>2, PopFront
  <2>3. Queued' = ToSet(Tail(q))
    BY <2>1 DEF Queued
  <2> QED BY <2>1, <2>2, <2>3
<1> QED BY <1>1, <1>2
-----------------------------------------------------------------------------
(* The invariant                                                           *)

LEMMA InitIInv == Init => IInv
BY SliceAssumption DEF Init, IInv, TypeOK, Distinct, Queued, ToSet

LEMMA NextIInv == IInv /\ [Next]_vars => IInv'
<1> SUFFICES ASSUME IInv, [Next]_vars PROVE IInv'
  OBVIOUS
<1> USE SliceAssumption
<1>0. /\ ready \in Seq(Tasks) /\ Distinct(ready) /\ Queued \subseteq Tasks
      /\ time_slice \in [Tasks -> 0..MAX_TIME_SLICE]
      /\ Idle \notin Tasks
  BY DEF IInv, TypeOK, Queued, ToSet
<1>1. ASSUME NEW t \in fresh, Spawn(t) PROVE IInv'
  <2>1. t \in Tasks /\ t \notin Queued /\ t \notin asleep /\ t # current
    BY DEF IInv, TypeOK
  <2>2. ready' \in Seq(Tasks) /\ Distinct(ready') /\ Queued' \subseteq Queued \cup {t}
    BY <1>0, <1>1, <2>1, Pushes DEF Spawn, Queued
  <2> QED BY <1>0, <1>1, <2>1, <2>2 DEF Spawn, IInv, TypeOK
<1>2. ASSUME NEW t \in asleep, NEW resched \in BOOLEAN, unblock_task(t, resched)
      PROVE  IInv'
  <2>1. t \in Tasks /\ t \notin Queued /\ t \notin fresh /\ t # current
    BY DEF IInv, TypeOK
  <2>2. /\ ready' \in Seq(Tasks) /\ Distinct(ready') /\ Queued' \subseteq Queued \cup {t}
        /\ time_slice' \in [Tasks -> 0..MAX_TIME_SLICE] /\ time_slice'[t] > 0
        /\ \A u \in Tasks \ {t} : time_slice'[u] = time_slice[u]
    BY <1>2, <2>1, PutPrev DEF unblock_task, Queued
  <2> QED BY <1>0, <1>2, <2>1, <2>2 DEF unblock_task, IInv, TypeOK
<1>3. ASSUME NEW preempt \in BOOLEAN, GiveUp(preempt) PROVE IInv'
  <2>1. CASE current = Idle
    BY <1>0, <1>3, <2>1, Picks DEF GiveUp, IInv, TypeOK, Queued
  <2>2. CASE current # Idle
    <3> DEFINE q == PutQueue(current, preempt)
    <3>1. /\ current \in Tasks /\ current \notin Queued
          /\ current \notin asleep /\ current \notin fresh
      BY <2>2 DEF IInv, TypeOK
    <3>2. /\ q \in Seq(Tasks) /\ Distinct(q) /\ ToSet(q) \subseteq Queued \cup {current}
          /\ time_slice' \in [Tasks -> 0..MAX_TIME_SLICE]
          /\ time_slice'[current] > 0
          /\ \A u \in Tasks \ {current} : time_slice'[u] = time_slice[u]
      BY <1>3, <2>2, <3>1, PutPrev DEF GiveUp
    <3>3. /\ ready' \in Seq(Tasks) /\ Distinct(ready')
          /\ \/ current' = Idle /\ Queued' = ToSet(q)
             \/ /\ current' \in ToSet(q) /\ current' \in Tasks
                /\ Queued' = ToSet(q) \ {current'}
      BY <1>3, <2>2, <3>2, Picks DEF GiveUp
    <3> HIDE DEF q
    <3> QED BY <1>0, <1>3, <3>1, <3>2, <3>3 DEF GiveUp, IInv, TypeOK
  <2> QED BY <2>1, <2>2
<1>4. ASSUME Block PROVE IInv'
  <2>1. current \in Tasks
    BY <1>4 DEF Block, IInv, TypeOK
  <2>2. /\ ready' \in Seq(Tasks) /\ Distinct(ready')
        /\ \/ current' = Idle /\ Queued' = Queued
           \/ /\ current' \in Queued /\ current' \in Tasks
              /\ Queued' = Queued \ {current'}
    BY <1>0, <1>4, Picks DEF Block, Queued
  <2> QED BY <1>0, <1>4, <2>1, <2>2 DEF Block, IInv, TypeOK
<1>5. ASSUME task_tick PROVE IInv'
  <2>1. current \in Tasks /\ current \notin Queued /\ current \notin fresh
    BY <1>5 DEF task_tick, IInv, TypeOK
  <2>2. /\ time_slice' \in [Tasks -> 0..MAX_TIME_SLICE]
        /\ \A u \in Tasks \ {current} : time_slice'[u] = time_slice[u]
    BY <1>0, <1>5, <2>1 DEF task_tick
  <2> QED BY <1>0, <1>5, <2>1, <2>2 DEF task_tick, IInv, TypeOK, Queued
<1>6. CASE UNCHANGED vars
  BY <1>6 DEF vars, IInv, TypeOK, Queued
<1> QED BY <1>1, <1>2, <1>3, <1>4, <1>5, <1>6
        DEF Next, yield_current, preempt_current

\* Types, one place per task, and ticks left for every queued and every new
\* task are kept by spawn, unblock_task, yield_current, preempt_current,
\* block and task_tick.
THEOREM RRInvariance == Spec => []IInv
<1>1. Init => IInv BY InitIInv
<1>2. IInv /\ [Next]_vars => IInv' BY NextIInv
<1> QED BY <1>1, <1>2, PTL DEF Spec

\* A task is never picked with a used-up slice: whichever way it entered the
\* ready queue, put_prev_task or add_task, it has ticks left.
THEOREM QueuedTicks == Spec => []QueuedHaveTicks
<1>1. IInv => QueuedHaveTicks BY DEF IInv, QueuedHaveTicks
<1> QED BY RRInvariance, <1>1, PTL

-----------------------------------------------------------------------------
(* No task is dropped                                                      *)

\* With room for all tasks a push of a task that is not in the queue succeeds.
LEMMA RoomFits ==
  ASSUME IInv, HasRoom, NEW t \in Tasks, t \notin Queued
  PROVE  Fits(ready)
<1>1. ready \in Seq(Tasks) /\ Distinct(ready) /\ t \notin ToSet(ready)
  BY DEF IInv, TypeOK, Queued
<1>2. Append(ready, t) \in Seq(Tasks) /\ Distinct(Append(ready, t))
  BY <1>1, PushBack
<1>3. Len(Append(ready, t)) <= Cardinality(Tasks)
  BY <1>2, DistinctFits DEF HasRoom
<1>4. Len(Append(ready, t)) = Len(ready) + 1 /\ Len(ready) \in Nat
  BY <1>1
<1>5. Cardinality(Tasks) \in Nat
  BY FS_CardinalityType DEF HasRoom
<1> QED BY <1>3, <1>4, <1>5, CapacityAssumption DEF HasRoom, Fits

LEMMA NextNoTaskLost == IInv /\ NoTaskLost /\ [Next]_vars => NoTaskLost'
<1> SUFFICES ASSUME IInv, NoTaskLost, [Next]_vars, HasRoom
             PROVE  (Tasks \subseteq Queued \cup asleep \cup fresh \cup {current})'
  BY DEF NoTaskLost, HasRoom
<1>0. /\ Tasks \subseteq Queued \cup asleep \cup fresh \cup {current}
      /\ ready \in Seq(Tasks) /\ Distinct(ready) /\ Idle \notin Tasks
  BY SliceAssumption DEF NoTaskLost, IInv, TypeOK
<1>1. ASSUME NEW t \in fresh, Spawn(t)
      PROVE  (Tasks \subseteq Queued \cup asleep \cup fresh \cup {current})'
  <2>1. t \in Tasks /\ t \notin Queued
    BY DEF IInv, TypeOK
  <2>2. Queued \subseteq Queued' /\ t \in Queued'
    BY <1>0, <1>1, <2>1, Pushes, RoomFits DEF Spawn, Queued
  <2> QED BY <1>0, <1>1, <2>2 DEF Spawn
<1>2. ASSUME NEW t \in asleep, NEW resched \in BOOLEAN, unblock_task(t, resched)
      PROVE  (Tasks \subseteq Queued \cup asleep \cup fresh \cup {current})'
  <2>1. t \in Tasks /\ t \notin Queued
    BY DEF IInv, TypeOK
  <2>2. Queued \subseteq Queued' /\ t \in Queued'
    BY <1>2, <2>1, PutPrev, RoomFits DEF unblock_task, Queued
  <2> QED BY <1>0, <1>2, <2>2 DEF unblock_task
<1>3. ASSUME NEW preempt \in BOOLEAN, GiveUp(preempt)
      PROVE  (Tasks \subseteq Queued \cup asleep \cup fresh \cup {current})'
  <2>1. CASE current = Idle
    <3>1. Queued \subseteq Queued' \cup {current'}
      BY <1>0, <1>3, <2>1, Picks DEF GiveUp, Queued
    <3> QED BY <1>0, <1>3, <2>1, <3>1 DEF GiveUp
  <2>2. CASE current # Idle
    <3> DEFINE q == PutQueue(current, preempt)
    <3>1. current \in Tasks /\ current \notin Queued
      BY <2>2 DEF IInv, TypeOK
    <3>2. /\ q \in Seq(Tasks) /\ Distinct(q)
          /\ Queued \subseteq ToSet(q) /\ current \in ToSet(q)
      BY <1>3, <2>2, <3>1, PutPrev, RoomFits DEF GiveUp
    <3>3. ToSet(q) \subseteq Queued' \cup {current'}
      BY <1>3, <2>2, <3>2, Picks DEF GiveUp
    <3> HIDE DEF q
    <3> QED BY <1>0, <1>3, <3>2, <3>3 DEF GiveUp
  <2> QED BY <2>1, <2>2
<1>4. ASSUME Block
      PROVE  (Tasks \subseteq Queued \cup asleep \cup fresh \cup {current})'
  <2>1. Queued \subseteq Queued' \cup {current'}
    BY <1>0, <1>4, Picks DEF Block, Queued
  <2> QED BY <1>0, <1>4, <2>1 DEF Block
<1>5. CASE task_tick
  BY <1>0, <1>5 DEF task_tick, Queued
<1>6. CASE UNCHANGED vars
  BY <1>0, <1>6 DEF vars, Queued
<1> QED BY <1>1, <1>2, <1>3, <1>4, <1>5, <1>6
        DEF Next, yield_current, preempt_current

\* No task is dropped by add_task or put_prev_task, which ignore a full queue, as long as
\* there are fewer tasks than slots: for every number of tasks.
THEOREM NoneDropped == Spec => []NoTaskLost
<1>1. Init => NoTaskLost
  BY DEF Init, NoTaskLost
<1>2. IInv /\ NoTaskLost /\ [Next]_vars => NoTaskLost'
  BY NextNoTaskLost
<1> QED BY <1>1, <1>2, RRInvariance, PTL DEF Spec

-----------------------------------------------------------------------------
(* Fair shares                                                             *)

\* A push changes the order of no two tasks that were in the queue.
LEMMA PushKeepsOrder ==
  ASSUME NEW S, NEW q \in Seq(S), NEW x \in S, NEW u, NEW t
  PROVE  /\ Before(Append(q, x), u, t) /\ t # x => Before(q, u, t)
         /\ Before(<<x>> \o q, u, t) /\ u # x => Before(q, u, t)
<1> DEFINE b == Append(q, x)
           f == <<x>> \o q
<1>1. Len(q) \in Nat /\ Len(b) = Len(q) + 1 /\ Len(f) = Len(q) + 1
  OBVIOUS
<1>2. b[Len(q) + 1] = x /\ \A i \in 1..Len(q) : b[i] = q[i]
  OBVIOUS
<1>3. f[1] = x /\ \A i \in 2..Len(f) : f[i] = q[i - 1]
  OBVIOUS
<1> HIDE DEF b, f
<1>4. ASSUME Before(b, u, t), t # x PROVE Before(q, u, t)
  <2>1. PICK i, j \in 1..Len(b) : i < j /\ b[i] = u /\ b[j] = t
    BY <1>4 DEF Before
  <2>2. i \in 1..Len(q) /\ j \in 1..Len(q)
    BY <1>1, <1>2, <1>4, <2>1
  <2> QED BY <1>2, <2>1, <2>2 DEF Before
<1>5. ASSUME Before(f, u, t), u # x PROVE Before(q, u, t)
  <2>1. PICK i, j \in 1..Len(f) : i < j /\ f[i] = u /\ f[j] = t
    BY <1>5 DEF Before
  <2>2. i \in 2..Len(f) /\ j \in 2..Len(f)
    BY <1>1, <1>3, <1>5, <2>1
  <2>3. i - 1 \in 1..Len(q) /\ j - 1 \in 1..Len(q) /\ i - 1 < j - 1
    BY <1>1, <2>1, <2>2
  <2> QED BY <1>3, <2>1, <2>2, <2>3 DEF Before
<1> QED BY <1>4, <1>5 DEF b, f

\* pop_front keeps the order too, and what it takes was ahead of all the others.
LEMMA PopKeepsOrder ==
  ASSUME NEW S, NEW q \in Seq(S), q # <<>>, NEW u, NEW t
  PROVE  /\ Before(Tail(q), u, t) => Before(q, u, t)
         /\ t \in ToSet(Tail(q)) => Before(q, Head(q), t)
<1> DEFINE r == Tail(q)
<1>1. Len(q) \in Nat /\ Len(q) >= 1 /\ r \in Seq(S) /\ Len(r) = Len(q) - 1
  OBVIOUS
<1>2. Head(q) = q[1] /\ \A i \in 1..Len(r) : r[i] = q[i + 1]
  OBVIOUS
<1>3. DOMAIN r = 1..Len(r)
  BY <1>1
<1> HIDE DEF r
<1>4. ASSUME Before(r, u, t) PROVE Before(q, u, t)
  <2>1. PICK i, j \in 1..Len(r) : i < j /\ r[i] = u /\ r[j] = t
    BY <1>4 DEF Before
  <2>2. i + 1 \in 1..Len(q) /\ j + 1 \in 1..Len(q) /\ i + 1 < j + 1
    BY <1>1, <2>1
  <2> QED BY <1>2, <2>1, <2>2 DEF Before
<1>5. ASSUME t \in ToSet(r) PROVE Before(q, Head(q), t)
  <2>1. PICK i \in 1..Len(r) : r[i] = t
    BY <1>3, <1>5 DEF ToSet
  <2>2. 1 \in 1..Len(q) /\ i + 1 \in 1..Len(q) /\ 1 < i + 1
    BY <1>1, <2>1
  <2> QED BY <1>2, <2>1, <2>2 DEF Before
<1> QED BY <1>4, <1>5 DEF r

\* Shares lets a task that is not in the queue be counted as outside of it no longer.
LEMMA SharesLeaves ==
  ASSUME NEW q, NEW outside, NEW less \in SUBSET outside, NEW slices, NEW sh,
         Shares(q, outside, slices, sh)
  PROVE  Shares(q, less, slices, sh)
BY DEF Shares

\* A new slice for a task x that is neither in the queue nor, any more, outside of it.
LEMMA SharesRenewed ==
  ASSUME NEW q \in Seq(Tasks), NEW outside, NEW x \in Tasks, x \notin ToSet(q), x \notin outside,
         NEW slices, NEW sh, NEW new, \A u \in Tasks \ {x} : new[u] = slices[u],
         Shares(q, outside, slices, sh)
  PROVE  Shares(q, outside, new, sh)
<1>1. ASSUME NEW t \in ToSet(q), NEW u \in Tasks, u \in outside \/ Before(q, u, t)
      PROVE  sh[t][u] + new[u] <= MAX_TIME_SLICE
  <2>1. DOMAIN q = 1..Len(q)
    OBVIOUS
  <2>2. u # x
    BY <1>1, <2>1 DEF Before, ToSet
  <2>3. new[u] = slices[u]
    BY <2>2
  <2>4. sh[t][u] + slices[u] <= MAX_TIME_SLICE
    BY <1>1 DEF Shares
  <2> QED BY <2>3, <2>4
<1> QED BY <1>1 DEF Shares

\* A task x that was not in the queue is pushed: nobody has run while it waited.  At the back it
\* runs before no other; at the front it does, and is one of the tasks outside that may.
LEMMA SharesPushed ==
  ASSUME NEW q \in Seq(Tasks), NEW x \in Tasks, x \notin ToSet(q), NEW outside,
         NEW slices \in [Tasks -> 0..MAX_TIME_SLICE], NEW sh \in [Tasks -> [Tasks -> Nat]],
         Shares(q, outside, slices, sh),
         NEW r, r = push_back(q, x) \/ (r = push_front(q, x) /\ x \in outside)
  PROVE  Shares(r, outside, slices, sh)
<1>0. MAX_TIME_SLICE \in Nat /\ DOMAIN q = 1..Len(q)
  BY SliceAssumption
<1>1. CASE r = q
  BY <1>1
<1>2. CASE r # q
  <2>1. r = Append(q, x) \/ (r = <<x>> \o q /\ x \in outside)
    BY <1>2 DEF push_back, push_front
  <2>2. ToSet(r) = ToSet(q) \cup {x}
    <3>1. ToSet(Append(q, x)) = ToSet(q) \cup {x}
      BY PushBack
    <3>2. ToSet(<<x>> \o q) = ToSet(q) \cup {x}
      BY PushFront
    <3> QED BY <2>1, <3>1, <3>2
  <2>3. ASSUME NEW u \in Tasks PROVE sh[x][u] = 0
    BY DEF Shares, NoShare
  <2>4. ASSUME NEW t \in ToSet(r), NEW u \in Tasks
        PROVE  /\ sh[t][u] <= MAX_TIME_SLICE
               /\ u \in outside \/ Before(r, u, t) => sh[t][u] + slices[u] <= MAX_TIME_SLICE
    <3>1. slices[u] \in 0..MAX_TIME_SLICE
      OBVIOUS
    <3>2. CASE t = x
      BY <1>0, <2>3, <3>1, <3>2
    <3>3. CASE t # x
      <4>1. t \in ToSet(q)
        BY <2>2, <3>3
      <4>2. Before(r, u, t) => u \in outside \/ Before(q, u, t)
        <5>1. Before(Append(q, x), u, t) => Before(q, u, t)
          BY <3>3, PushKeepsOrder
        <5>2. Before(<<x>> \o q, u, t) /\ u # x => Before(q, u, t)
          BY PushKeepsOrder
        <5> QED BY <2>1, <5>1, <5>2
      <4> QED BY <4>1, <4>2 DEF Shares
    <3> QED BY <3>2, <3>3
  <2>5. \A t \in Tasks \ ToSet(r) : sh[t] = NoShare
    BY <2>2 DEF Shares
  <2> QED BY <2>4, <2>5 DEF Shares
<1> QED BY <1>1, <1>2

\* put_prev_task of a task x that ran or slept.
LEMMA PutShares ==
  ASSUME IInv, ShareInv, NEW x \in Tasks, x \in asleep \cup {current}, x \notin Queued,
         NEW preempt \in BOOLEAN, put_prev_task(x, preempt)
  PROVE  Shares(PutQueue(x, preempt), (asleep \cup {current}) \ {x}, time_slice', share)
<1> DEFINE outside == asleep \cup {current}
<1>1. /\ ready \in Seq(Tasks) /\ x \notin ToSet(ready)
      /\ time_slice \in [Tasks -> 0..MAX_TIME_SLICE]
      /\ share \in [Tasks -> [Tasks -> Nat]] /\ Shares(ready, outside, time_slice, share)
  BY DEF IInv, TypeOK, ShareInv, Queued
<1>2. x \in outside /\ outside \ {x} \in SUBSET outside /\ x \notin outside \ {x}
  OBVIOUS
<1> HIDE DEF outside
<1>3. Shares(ready, outside \ {x}, time_slice, share)
  BY <1>1, <1>2, SharesLeaves
<1>4. CASE KeepsSlice(x, preempt)
  <2>1. time_slice' = time_slice /\ PutQueue(x, preempt) = push_front(ready, x)
    BY <1>4 DEF put_prev_task, PutQueue
  <2>2. Shares(push_front(ready, x), outside, time_slice, share)
    BY <1>1, <1>2, SharesPushed
  <2> QED BY <1>2, <2>1, <2>2, SharesLeaves DEF outside
<1>5. CASE ~KeepsSlice(x, preempt)
  <2>1. PutQueue(x, preempt) = push_back(ready, x)
    BY <1>5 DEF PutQueue
  <2>2. /\ time_slice' \in [Tasks -> 0..MAX_TIME_SLICE]
        /\ \A u \in Tasks \ {x} : time_slice'[u] = time_slice[u]
    BY PutPrev
  <2>3. Shares(ready, outside \ {x}, time_slice', share)
    BY <1>1, <1>2, <1>3, <2>2, SharesRenewed
  <2>4. Shares(push_back(ready, x), outside \ {x}, time_slice', share)
    BY <1>1, <2>2, <2>3, SharesPushed
  <2> QED BY <2>1, <2>4 DEF outside
<1> QED BY <1>4, <1>5

\* pick_next_task: what is picked was ahead of every other task in the queue.
LEMMA PickShares ==
  ASSUME NEW q \in Seq(Tasks), Distinct(q), NEW outside, NEW slices, PickFrom(q),
         share \in [Tasks -> [Tasks -> Nat]], Shares(q, outside, slices, share)
  PROVE  /\ share' \in [Tasks -> [Tasks -> Nat]]
         /\ Shares(ready', outside \cup {current'}, slices, share')
<1>1. CASE q = <<>>
  <2>1. current' = Idle /\ ready' = q /\ share' = share /\ Idle \notin Tasks
    BY <1>1, SliceAssumption DEF PickFrom
  <2> QED BY <2>1 DEF Shares
<1>2. CASE q # <<>>
  <2> DEFINE h == Head(q)
  <2>1. /\ current' = h /\ ready' = Tail(q) /\ share' = [share EXCEPT ![h] = NoShare]
        /\ h \in Tasks /\ ToSet(Tail(q)) = ToSet(q) \ {h}
    BY <1>2, PopFront DEF PickFrom
  <2>2. NoShare \in [Tasks -> Nat]
    BY DEF NoShare
  <2>3. \A t \in Tasks : \A u : Before(Tail(q), u, t) => Before(q, u, t)
    BY <1>2, PopKeepsOrder
  <2>4. \A t \in ToSet(Tail(q)) : Before(q, h, t)
    BY <1>2, PopKeepsOrder
  <2>5. ToSet(q) \subseteq Tasks
    BY DEF ToSet
  <2> HIDE DEF h
  <2>6. share'[h] = NoShare /\ \A t \in Tasks \ {h} : share'[t] = share[t]
    BY <2>1
  <2>7. \A t \in Tasks \ ToSet(ready') : share'[t] = NoShare
    BY <2>1, <2>6 DEF Shares
  <2>8. ASSUME NEW t \in ToSet(ready'), NEW u \in Tasks
        PROVE  /\ share'[t][u] <= MAX_TIME_SLICE
               /\ u \in outside \cup {current'} \/ Before(ready', u, t)
                    => share'[t][u] + slices[u] <= MAX_TIME_SLICE
    <3>1. t \in ToSet(q) /\ t \in Tasks /\ share'[t] = share[t]
      BY <2>1, <2>5, <2>6
    <3>2. u \in outside \cup {current'} \/ Before(ready', u, t)
            => u \in outside \/ Before(q, u, t)
      BY <2>1, <2>3, <2>4, <3>1
    <3> QED BY <3>1, <3>2 DEF Shares
  <2>9. share' \in [Tasks -> [Tasks -> Nat]]
    BY <2>1, <2>2
  <2> QED BY <2>7, <2>8, <2>9 DEF Shares
<1> QED BY <1>1, <1>2

LEMMA InitShareInv == Init => ShareInv
<1> SUFFICES ASSUME Init PROVE ShareInv
  OBVIOUS
<1>1. ToSet(ready) = {}
  BY DEF Init, ToSet
<1>2. share \in [Tasks -> [Tasks -> Nat]] /\ \A t \in Tasks : share[t] = NoShare
  BY DEF Init, NoShare
<1> QED BY <1>1, <1>2 DEF ShareInv, Shares

LEMMA NextShareInv == IInv /\ ShareInv /\ [Next]_vars => ShareInv'
<1> SUFFICES ASSUME IInv, ShareInv, [Next]_vars PROVE ShareInv'
  OBVIOUS
<1> DEFINE outside == asleep \cup {current}
<1>0. /\ ready \in Seq(Tasks) /\ Distinct(ready)
      /\ time_slice \in [Tasks -> 0..MAX_TIME_SLICE]
      /\ share \in [Tasks -> [Tasks -> Nat]] /\ Shares(ready, outside, time_slice, share)
  BY DEF IInv, TypeOK, ShareInv
<1>1. ASSUME NEW t \in fresh, Spawn(t) PROVE ShareInv'
  <2>1. t \in Tasks /\ t \notin ToSet(ready)
    BY DEF IInv, TypeOK, Queued
  <2>2. Shares(push_back(ready, t), outside, time_slice, share)
    BY <1>0, <2>1, SharesPushed
  <2> QED BY <1>0, <1>1, <2>2 DEF Spawn, ShareInv
<1>2. ASSUME NEW t \in asleep, NEW resched \in BOOLEAN, unblock_task(t, resched)
      PROVE  ShareInv'
  <2>1. t \in Tasks /\ t \notin Queued /\ t # current
    BY DEF IInv, TypeOK
  <2>2. Shares(ready', outside \ {t}, time_slice', share)
    BY <1>2, <2>1, PutShares DEF unblock_task
  <2>3. asleep' \cup {current'} = outside \ {t} /\ share' = share
    BY <1>2, <2>1 DEF unblock_task
  <2> QED BY <1>0, <2>2, <2>3 DEF ShareInv
<1>3. ASSUME NEW preempt \in BOOLEAN, GiveUp(preempt) PROVE ShareInv'
  <2>1. CASE current = Idle
    <3>1. PickFrom(ready) /\ time_slice' = time_slice /\ asleep' = asleep
      BY <1>3, <2>1 DEF GiveUp
    <3>2. Shares(ready, asleep, time_slice, share)
      BY <1>0, SharesLeaves
    <3> QED BY <1>0, <3>1, <3>2, PickShares DEF ShareInv
  <2>2. CASE current # Idle
    <3> DEFINE q == PutQueue(current, preempt)
    <3>1. put_prev_task(current, preempt) /\ PickFrom(q) /\ asleep' = asleep
      BY <1>3, <2>2 DEF GiveUp
    <3>2. current \in Tasks /\ current \notin Queued /\ current \notin asleep
      BY <2>2 DEF IInv, TypeOK
    <3>3. q \in Seq(Tasks) /\ Distinct(q)
      BY <3>1, <3>2, PutPrev
    <3>4. Shares(q, outside \ {current}, time_slice', share)
      BY <3>1, <3>2, PutShares
    <3>5. outside \ {current} = asleep
      BY <3>2
    <3> HIDE DEF q
    <3>6. /\ share' \in [Tasks -> [Tasks -> Nat]]
          /\ Shares(ready', asleep \cup {current'}, time_slice', share')
      BY <1>0, <3>1, <3>3, <3>4, <3>5, PickShares
    <3> QED BY <3>1, <3>6 DEF ShareInv
  <2> QED BY <2>1, <2>2
<1>4. ASSUME Block PROVE ShareInv'
  <2>1. PickFrom(ready) /\ asleep' = outside /\ time_slice' = time_slice
    BY <1>4 DEF Block
  <2>2. /\ share' \in [Tasks -> [Tasks -> Nat]]
        /\ Shares(ready', outside \cup {current'}, time_slice, share')
    BY <1>0, <2>1, PickShares
  <2> QED BY <2>1, <2>2 DEF ShareInv
<1>5. ASSUME task_tick PROVE ShareInv'
  <2>1. /\ current \in Tasks /\ time_slice[current] > 0 /\ current \in outside
        /\ ready' = ready /\ asleep' \cup {current'} = outside
        /\ time_slice' = [time_slice EXCEPT ![current] = @ - 1]
        /\ share' = [t \in Tasks |-> IF t \in ToSet(ready)
                                     THEN [share[t] EXCEPT ![current] = @ + 1] ELSE share[t]]
    BY <1>5 DEF task_tick, IInv, TypeOK, Queued
  <2>2. ToSet(ready) \subseteq Tasks
    BY <1>0 DEF ToSet
  <2>3. share' \in [Tasks -> [Tasks -> Nat]]
    BY <1>0, <2>1
  <2>4. \A t \in Tasks \ ToSet(ready) : share'[t] = NoShare
    BY <1>0, <2>1 DEF Shares
  <2>5. ASSUME NEW t \in ToSet(ready), NEW u \in Tasks
        PROVE  /\ share'[t][u] <= MAX_TIME_SLICE
               /\ u \in outside \/ Before(ready, u, t)
                    => share'[t][u] + time_slice'[u] <= MAX_TIME_SLICE
    <3>1. /\ t \in Tasks /\ share[t][u] \in Nat /\ time_slice[u] \in Nat
          /\ MAX_TIME_SLICE \in Nat
      BY <1>0, <2>2, SliceAssumption
    <3>2. /\ share[t][u] <= MAX_TIME_SLICE
          /\ u \in outside \/ Before(ready, u, t)
               => share[t][u] + time_slice[u] <= MAX_TIME_SLICE
      BY <1>0 DEF Shares
    <3>3. CASE u = current
      <4>1. share'[t][u] = share[t][u] + 1 /\ time_slice'[u] = time_slice[u] - 1
        BY <1>0, <2>1, <3>1, <3>3
      <4> HIDE DEF outside
      <4> QED BY <2>1, <3>1, <3>2, <3>3, <4>1
    <3>4. CASE u # current
      <4>1. share'[t][u] = share[t][u] /\ time_slice'[u] = time_slice[u]
        BY <1>0, <2>1, <3>1, <3>4
      <4> QED BY <3>2, <4>1
    <3> QED BY <3>3, <3>4
  <2> QED BY <2>1, <2>3, <2>4, <2>5 DEF ShareInv, Shares
<1>6. CASE UNCHANGED vars
  BY <1>0, <1>6 DEF vars, ShareInv
<1> QED BY <1>1, <1>2, <1>3, <1>4, <1>5, <1>6
        DEF Next, yield_current, preempt_current

\* However the tasks yield, are preempted, block and are woken to the front of the queue, no
\* task gets more ticks than one time slice while another waits: for every number of tasks,
\* every slice, and also when the ready queue is too small.
THEOREM FairShares == Spec => []FairShare
<1>1. IInv /\ ShareInv /\ [Next]_vars => ShareInv'
  BY NextShareInv
<1>2. ShareInv => FairShare
  BY DEF ShareInv, Shares, FairShare, Queued
<1> QED BY InitShareInv, <1>1, <1>2, RRInvariance, PTL DEF Spec
=============================================================================

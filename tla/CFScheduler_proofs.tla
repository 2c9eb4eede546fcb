------------------------- MODULE CFScheduler_proofs -------------------------
(***************************************************************************)
(* Proofs about CFScheduler, for all numbers of CPUs, tasks and slots.     *)
(***************************************************************************)
EXTENDS CFScheduler, FiniteSetTheorems, WellFoundedInduction, TLAPS

-----------------------------------------------------------------------------
(* The inductive invariants                                                *)

\* The tasks in the queue, in a call of add_task that has not inserted them
\* yet, and on the CPU.
QueuedTasks == {e.task : e \in ready_queue}
Added == {arg[c] : c \in {d \in Callers : pc[d] \in AddSteps}}
Running == IF pc[Home] = "pick" THEN {} ELSE {current} \ {Idle}

\* A task is in no two places, nor in two calls.
PlaceInv ==
  /\ QueuedTasks \cap (Added \cup fresh \cup asleep \cup Running) = {}
  /\ Added \cap (fresh \cup asleep \cup Running) = {}
  /\ fresh \cap (asleep \cup Running) = {}
  /\ asleep \cap Running = {}
  /\ \A c, d \in Callers : pc[c] \in AddSteps /\ pc[d] \in AddSteps /\ arg[c] = arg[d] => c = d

\* The tasks that are in the queue or will go there with the id they have got:
\* the ids are taken from id_pool and differ, so that no two keys are equal.
Inserting == {arg[c] : c \in {d \in Callers : pc[d] = "insert"}}
WithId == QueuedTasks \cup Inserting
IdInv ==
  /\ \A t \in WithId : task[t].id < id_pool
  /\ \A t, u \in WithId : task[t].id = task[u].id => t = u

\* A task that was never queued has had no tick: its vruntime is what add_task sets.
NewInv == \A t \in fresh \cup Added : task[t].delta = 0

IInv == TypeOK /\ PlaceInv /\ IdInv /\ NewInv /\ QueuedKeysCurrent

NoTaskLost == Tasks \subseteq QueuedTasks \cup Added \cup fresh \cup asleep \cup Running

\* Until another CPU spawns: min_vruntime is None or 0, as the entry that
\* add_task has just inserted is still there when it asks for the first one, and it stays 0:
\* what has been found set still is when it is unwrapped.
MinKept ==
  /\ min_vruntime \in {None, 0}
  /\ \A c \in Callers :
       /\ pc[c] \in AddSteps \cup {"first", "store"} => c = Home
       /\ pc[c] = "insert" => task[arg[c]].init_vruntime = 0
       /\ pc[c] = "first" => \E e \in ready_queue : e.vr = 0
       /\ pc[c] = "store" => arg[c] = 0
       /\ pc[c] \in {"unwrap", "insert", "first", "store", "compare"} => min_vruntime # None
       /\ pc[c] \notin {"panic", "tick_panic"}
MinInv == ~foreign => MinKept

-----------------------------------------------------------------------------
(* Virtual run times                                                       *)

LEMMA WeightPositive == \A nice \in -20..19 : get_weight(nice) \in Nat \ {0}
<1> SUFFICES ASSUME NEW nice \in -20..19 PROVE get_weight(nice) \in Nat \ {0}
  OBVIOUS
<1>1. ASSUME NEW i \in 1..20 PROVE NICE2WEIGHT_POS[i] \in Nat \ {0}
  BY SMTT(60) DEF NICE2WEIGHT_POS
<1>2. ASSUME NEW i \in 1..21 PROVE NICE2WEIGHT_NEG[i] \in Nat \ {0}
  BY SMTT(60) DEF NICE2WEIGHT_NEG
<1>3. CASE nice >= 0
  <2>1. nice + 1 \in 1..20
    BY <1>3
  <2> QED BY <1>1, <1>3, <2>1 DEF get_weight
<1>4. CASE ~(nice >= 0)
  <2>1. 1 - nice \in 1..21
    BY <1>4
  <2> QED BY <1>2, <1>4, <2>1 DEF get_weight
<1> QED BY <1>3, <1>4

\* Division by a weight is monotonic.
LEMMA DivMonotonic ==
  ASSUME NEW w \in Nat \ {0}, NEW x \in Nat, NEW y \in Nat, x <= y
  PROVE  x \div w \in Nat /\ x \div w <= y \div w
<1> DEFINE p == x \div w
           q == y \div w
<1>1. p \in Int /\ q \in Int /\ w * p <= x /\ x < w * p + w /\ w * q <= y /\ y < w * q + w
  OBVIOUS
<1> HIDE DEF p, q
<1>2. p >= 0
  BY <1>1
<1>3. p <= q
  <2> SUFFICES ASSUME p >= q + 1 PROVE FALSE
    BY <1>1
  <2>1. w * p >= w * (q + 1)
    BY <1>1
  <2>2. w * (q + 1) = w * q + w
    BY <1>1
  <2> QED BY <1>1, <2>1, <2>2
<1> QED BY <1>1, <1>2, <1>3 DEF p, q

\* A vruntime is not negative, a tick never sets it back, and set_priority,
\* which folds the delta into the initial vruntime, does not change it.
LEMMA VruntimeSteps ==
  ASSUME NEW f \in Fields
  PROVE  /\ vruntime_of(f) \in Nat
         /\ vruntime_of([f EXCEPT !.delta = @ + 1]) >= vruntime_of(f)
         /\ \A nice \in -20..19 : /\ repriced(f, nice) \in Fields
                                  /\ vruntime_of(repriced(f, nice)) = vruntime_of(f)
<1>1. /\ f.init_vruntime \in Nat /\ f.delta \in Nat /\ f.nice \in -20..19
      /\ get_weight(f.nice) \in Nat \ {0}
  BY WeightPositive DEF Fields
<1> DEFINE d == f.delta * 1024
           e == (f.delta + 1) * 1024
           w == get_weight(f.nice)
<1>2. d \in Nat /\ e \in Nat /\ d <= e
  BY <1>1
<1>3. d \div w \in Nat /\ e \div w \in Nat /\ d \div w <= e \div w
  <2> HIDE DEF d, e, w
  <2>1. w \in Nat \ {0}
    BY <1>1 DEF w
  <2>2. d \div w \in Nat /\ d \div w <= e \div w
    BY <1>2, <2>1, DivMonotonic
  <2>3. e <= e
    BY <1>2
  <2>4. e \div w \in Nat
    BY <1>2, <2>1, <2>3, DivMonotonic
  <2> QED BY <2>2, <2>4
<1>4. vruntime_of(f) \in Nat
  BY <1>1, <1>3 DEF vruntime_of
<1>5. vruntime_of([f EXCEPT !.delta = @ + 1]) >= vruntime_of(f)
  <2> DEFINE g == [f EXCEPT !.delta = @ + 1]
  <2>1. g.init_vruntime = f.init_vruntime /\ g.delta = f.delta + 1 /\ g.nice = f.nice
    BY DEF Fields
  <2> HIDE DEF g
  <2>2. vruntime_of(g) = f.init_vruntime + e \div w
    BY <2>1 DEF vruntime_of
  <2>3. vruntime_of(f) = f.init_vruntime + d \div w
    BY DEF vruntime_of
  <2> HIDE DEF d, e, w
  <2> QED BY <1>1, <1>3, <2>2, <2>3 DEF g
<1>6. ASSUME NEW nice \in -20..19
      PROVE  /\ repriced(f, nice) \in Fields
             /\ vruntime_of(repriced(f, nice)) = vruntime_of(f)
  <2> DEFINE g == repriced(f, nice)
  <2>1. g \in Fields /\ g.init_vruntime = vruntime_of(f) /\ g.delta = 0 /\ g.nice = nice
    BY <1>4 DEF repriced, Fields
  <2> HIDE DEF g
  <2>2. (g.delta * 1024) \div get_weight(g.nice) = 0
    <3>1. g.delta * 1024 = 0 /\ get_weight(g.nice) \in Nat \ {0}
      BY <2>1, WeightPositive
    <3> QED BY <3>1
  <2>3. vruntime_of(g) = g.init_vruntime + (g.delta * 1024) \div get_weight(g.nice)
    BY DEF vruntime_of
  <2> QED BY <1>4, <2>1, <2>2, <2>3 DEF g
<1> QED BY <1>4, <1>5, <1>6

-----------------------------------------------------------------------------
(* The keys of the ready queue                                             *)

Entries == [vr : Nat, id : Nat, task : Tasks]

\* A set of natural numbers has a least element.
LEMMA LeastNatural ==
  ASSUME NEW S \in SUBSET Nat, S # {}
  PROVE  \E m \in S : \A n \in S : m <= n
<1>1. PICK m \in S : \A n \in S : <<n, m>> \notin OpToRel(<, Nat)
  BY NatLessThanWellFounded, WFMin
<1>2. ASSUME NEW n \in S PROVE m <= n
  <2>1. n \in Nat /\ m \in Nat
    OBVIOUS
  <2>2. ~(n < m)
    BY <1>1, <2>1 DEF OpToRel
  <2> QED BY <2>1, <2>2
<1> QED BY <1>2

\* Keys with different ids have a first one, and it has the least vruntime.
LEMMA FirstIsLeast ==
  ASSUME NEW q \in SUBSET Entries, q # {},
         \A e, f \in q : e.id = f.id => e = f
  PROVE  First(q) \in q /\ \A f \in q : First(q).vr <= f.vr
<1> DEFINE V == {e.vr : e \in q}
           I(v) == {e.id : e \in {f \in q : f.vr = v}}
<1>1. \A e \in q : e.vr \in Nat /\ e.id \in Nat
  BY DEF Entries
<1>2. PICK v \in V : \A n \in V : v <= n
  <2>1. V \in SUBSET Nat /\ V # {}
    BY <1>1
  <2> HIDE DEF V
  <2> QED BY <2>1, LeastNatural
<1>3. PICK i \in I(v) : \A n \in I(v) : i <= n
  <2>1. I(v) \in SUBSET Nat /\ I(v) # {}
    BY <1>1, <1>2
  <2> HIDE DEF I
  <2> QED BY <2>1, LeastNatural
<1>4. PICK e \in q : e.vr = v /\ e.id = i
  BY <1>3
<1>5. ASSUME NEW f \in q \ {e} PROVE Before(e, f)
  <2>1. f.id # e.id /\ f.vr \in Nat /\ f.id \in Nat /\ e.vr \in Nat /\ e.id \in Nat
    BY <1>1
  <2>2. v <= f.vr
    BY <1>2
  <2>3. f.vr = v => i <= f.id
    BY <1>3
  <2> QED BY <1>4, <2>1, <2>2, <2>3 DEF Before
<1>6. First(q) \in q /\ \A f \in q \ {First(q)} : Before(First(q), f)
  BY <1>5 DEF First
<1>7. ASSUME NEW f \in q PROVE First(q).vr <= f.vr
  <2> DEFINE m == First(q)
  <2> HIDE DEF m
  <2>1. m \in q /\ (f # m => Before(m, f))
    BY <1>6 DEF m
  <2>2. m.vr \in Nat /\ f.vr \in Nat
    BY <1>1, <2>1
  <2> QED BY <2>1, <2>2 DEF Before, m
<1> QED BY <1>6, <1>7

\* An entry with an id of its own: insert stores it, and replaces no other, if a slot is free.
LEMMA InsertNewId ==
  ASSUME NEW vr, NEW id, NEW t, \A e \in ready_queue : e.id # id
  PROVE  Inserted(vr, id, t) = IF Cardinality(ready_queue) < CAPACITY
                               THEN ready_queue \cup {[vr |-> vr, id |-> id, task |-> t]}
                               ELSE ready_queue
<1>1. {e \in ready_queue : ~(e.vr = vr /\ e.id = id)} = ready_queue
  OBVIOUS
<1> QED BY <1>1 DEF Inserted

\* The queued entries of a task: one if it is queued, else none.
LEMMA QueuedOnce ==
  ASSUME TypeOK, QueuedKeysCurrent, NEW e \in ready_queue, NEW f \in ready_queue,
         e.task = f.task
  PROVE  e = f
<1>1. e \in Entries /\ f \in Entries
  BY DEF TypeOK, Entries
<1>2. e.vr = f.vr /\ e.id = f.id
  BY DEF QueuedKeysCurrent
<1> QED BY <1>1, <1>2 DEF Entries

\* With a slot for every task there is one for a task that is not queued.
LEMMA RoomForOne ==
  ASSUME TypeOK, QueuedKeysCurrent, HasRoom, NEW t \in Tasks, t \notin QueuedTasks
  PROVE  Cardinality(ready_queue) < CAPACITY
<1> DEFINE f == [e \in ready_queue |-> e.task]
           R == Tasks \ {t}
<1>1. f \in [ready_queue -> R]
  BY DEF TypeOK, QueuedTasks
<1>2. \A e, g \in ready_queue : f[e] = f[g] => e = g
  BY QueuedOnce
<1>3. IsFiniteSet(R) /\ Cardinality(R) = Cardinality(Tasks) - 1
  BY FS_RemoveElement DEF HasRoom
<1>4. f \in Injection(ready_queue, R)
  BY <1>1, <1>2 DEF Injection, IsInjective
<1>5. Cardinality(ready_queue) <= Cardinality(R)
  <2> HIDE DEF f, R
  <2> QED BY <1>3, <1>4, FS_Injection
<1>6. Cardinality(Tasks) \in Nat /\ CAPACITY \in Nat /\ Cardinality(ready_queue) \in Nat
  BY CFSAssumption, FS_CardinalityType DEF HasRoom, TypeOK
<1> QED BY <1>3, <1>5, <1>6 DEF HasRoom

-----------------------------------------------------------------------------
(* The invariant                                                           *)

\* The owning CPU goes from one step of its own to another: nothing changes for add_task.
LEMMA HomeMoves ==
  ASSUME TypeOK, PlaceInv, pc[Home] \notin AddSteps, NEW l \in Labels \ AddSteps,
         Goto(Home, l), arg' = arg
  PROVE  /\ Added' = Added /\ Inserting' = Inserting
         /\ pc' \in [Callers -> Labels] /\ arg' \in [Callers -> Tasks \cup Nat \cup {None}]
         /\ pc'[Home] = l
         /\ \A c \in Callers : /\ pc'[c] \in AddSteps => arg'[c] \in Tasks
                               /\ l # "store" /\ pc'[c] = "store" => arg'[c] \in Nat \cup {None}
         /\ \A c, d \in Callers :
              pc'[c] \in AddSteps /\ pc'[d] \in AddSteps /\ arg'[c] = arg'[d] => c = d
<1>1. /\ pc' \in [Callers -> Labels] /\ pc'[Home] = l
      /\ \A c \in Callers \ {Home} : pc'[c] = pc[c]
  BY CFSAssumption DEF TypeOK, Goto
<1>2. \A c \in Callers : pc'[c] \in AddSteps <=> pc[c] \in AddSteps
  BY <1>1
<1>3. \A c \in Callers : pc'[c] = "insert" <=> pc[c] = "insert"
  BY <1>1, <1>2 DEF AddSteps
<1>4. Added' = Added
  BY <1>2 DEF Added
<1>5. Inserting' = Inserting
  BY <1>3 DEF Inserting
<1> QED BY <1>1, <1>2, <1>4, <1>5 DEF TypeOK, PlaceInv

\* A task that was given a fresh id and inserted into the queue, or dropped by a full one.
LEMMA NewEntry ==
  ASSUME IInv, NEW t \in Tasks, t \notin QueuedTasks, NEW vr \in Nat, NEW id \in Nat,
         \A u \in QueuedTasks : task[u].id # id,
         ready_queue' = Inserted(vr, id, t)
  PROVE  /\ ready_queue' \subseteq Entries /\ IsFiniteSet(ready_queue')
         /\ ready_queue \subseteq ready_queue'
         /\ ready_queue' \subseteq ready_queue \cup {[vr |-> vr, id |-> id, task |-> t]}
         /\ QueuedTasks \subseteq QueuedTasks'
         /\ QueuedTasks' \subseteq QueuedTasks \cup {t}
         /\ HasRoom => [vr |-> vr, id |-> id, task |-> t] \in ready_queue'
         /\ HasRoom => t \in QueuedTasks'
<1> DEFINE new == [vr |-> vr, id |-> id, task |-> t]
<1>1. \A e \in ready_queue : e.id # id
  BY DEF IInv, QueuedKeysCurrent, QueuedTasks
<1>2. ready_queue' = IF Cardinality(ready_queue) < CAPACITY
                     THEN ready_queue \cup {new} ELSE ready_queue
  BY <1>1, InsertNewId
<1>3. HasRoom => Cardinality(ready_queue) < CAPACITY
  BY RoomForOne DEF IInv
<1>4. ready_queue \subseteq Entries /\ IsFiniteSet(ready_queue) /\ new \in Entries
  BY DEF IInv, TypeOK, Entries
<1>5. IsFiniteSet(ready_queue \cup {new})
  BY <1>4, FS_AddElement
<1>6. new.task = t
  OBVIOUS
<1> HIDE DEF new
<1>7. /\ QueuedTasks \subseteq QueuedTasks' /\ QueuedTasks' \subseteq QueuedTasks \cup {t}
      /\ new \in ready_queue' => t \in QueuedTasks'
  BY <1>2, <1>6 DEF QueuedTasks
<1>8. ready_queue' \subseteq Entries /\ IsFiniteSet(ready_queue')
  BY <1>2, <1>4, <1>5
<1> QED BY <1>2, <1>3, <1>7, <1>8 DEF new

\* put_prev_task of a task that is neither queued nor about to be.
LEMMA PutPrev ==
  ASSUME IInv, NEW t \in Tasks, t \notin QueuedTasks, t \notin Added, put_prev_task(t),
         Inserting' = Inserting
  PROVE  /\ ready_queue' \subseteq Entries /\ IsFiniteSet(ready_queue')
         /\ ready_queue \subseteq ready_queue'
         /\ id_pool' \in Nat /\ task' \in [Tasks -> Fields]
         /\ QueuedTasks \subseteq QueuedTasks'
         /\ QueuedTasks' \subseteq QueuedTasks \cup {t}
         /\ HasRoom => t \in QueuedTasks'
         /\ IdInv' /\ QueuedKeysCurrent'
         /\ \A u \in Tasks : vruntime_of(task'[u]) = get_vruntime(u)
                             /\ task'[u].nice = task[u].nice
                             /\ task'[u].init_vruntime = task[u].init_vruntime
<1>1. /\ id_pool \in Nat /\ id_pool' = id_pool + 1
      /\ task \in [Tasks -> Fields] /\ task' = [task EXCEPT ![t].id = id_pool]
      /\ ready_queue' = Inserted(get_vruntime(t), id_pool, t)
  BY DEF IInv, TypeOK, put_prev_task
<1>2. get_vruntime(t) \in Nat
  BY <1>1, VruntimeSteps DEF get_vruntime
<1>3. /\ task' \in [Tasks -> Fields] /\ task'[t].id = id_pool
      /\ \A u \in Tasks \ {t} : task'[u] = task[u]
      /\ \A u \in Tasks : /\ task'[u].init_vruntime = task[u].init_vruntime
                          /\ task'[u].delta = task[u].delta /\ task'[u].nice = task[u].nice
  BY <1>1 DEF Fields
<1>4. \A u \in Tasks : vruntime_of(task'[u]) = get_vruntime(u)
  BY <1>3 DEF vruntime_of, get_vruntime
<1>5. /\ t \notin WithId
      /\ \A u \in WithId : u \in Tasks /\ task[u].id < id_pool
  <2>1. Inserting \subseteq Added
    BY DEF Inserting, Added, AddSteps
  <2>2. QueuedTasks \subseteq Tasks
    BY DEF IInv, TypeOK, QueuedTasks
  <2>3. Added \subseteq Tasks
    BY DEF IInv, TypeOK, Added
  <2> QED BY <2>1, <2>2, <2>3 DEF IInv, IdInv, WithId
<1>6. \A u \in WithId : u \in Tasks /\ task[u].id \in Nat /\ task[u].id # id_pool
  BY <1>1, <1>5 DEF Fields
<1>7. /\ ready_queue' \subseteq Entries /\ IsFiniteSet(ready_queue')
      /\ ready_queue \subseteq ready_queue'
      /\ ready_queue' \subseteq ready_queue
                                \cup {[vr |-> get_vruntime(t), id |-> id_pool, task |-> t]}
      /\ QueuedTasks \subseteq QueuedTasks'
      /\ QueuedTasks' \subseteq QueuedTasks \cup {t}
      /\ HasRoom => t \in QueuedTasks'
  <2>1. \A u \in QueuedTasks : task[u].id # id_pool
    BY <1>6 DEF WithId
  <2> QED BY <1>1, <1>2, <2>1, NewEntry
<1>8. WithId' \subseteq WithId \cup {t}
  BY <1>7 DEF WithId
<1>9. IdInv'
  <2>1. \A u \in WithId \cup {t} : task'[u].id \in Nat /\ task'[u].id < id_pool'
    BY <1>1, <1>3, <1>5, <1>6
  <2>2. \A u, v \in WithId \cup {t} : task'[u].id = task'[v].id => u = v
    <3>1. \A u, v \in WithId : task[u].id = task[v].id => u = v
      BY DEF IInv, IdInv
    <3> QED BY <1>3, <1>5, <1>6, <3>1
  <2> QED BY <1>8, <2>1, <2>2 DEF IdInv
<1>10. QueuedKeysCurrent'
  <2>1. ASSUME NEW e \in ready_queue'
        PROVE  e.vr = vruntime_of(task'[e.task]) /\ e.id = task'[e.task].id
    <3>1. CASE e \in ready_queue
      <4>1. e.task \in WithId /\ e.task \in Tasks \ {t}
        BY <1>5, <3>1 DEF WithId, QueuedTasks
      <4>2. e.vr = get_vruntime(e.task) /\ e.id = task[e.task].id
        BY <3>1 DEF IInv, QueuedKeysCurrent
      <4> QED BY <1>3, <1>4, <4>1, <4>2
    <3>2. CASE e \notin ready_queue
      <4>1. e = [vr |-> get_vruntime(t), id |-> id_pool, task |-> t]
        BY <1>7, <3>2
      <4>2. e.vr = get_vruntime(t) /\ e.id = id_pool /\ e.task = t
        BY <4>1
      <4> QED BY <1>3, <1>4, <4>2
    <3> QED BY <3>1, <3>2
  <2> QED BY <2>1 DEF QueuedKeysCurrent, get_vruntime
<1> QED BY <1>1, <1>3, <1>4, <1>7, <1>9, <1>10

\* Steps that leave the queue and the tasks' fields alone.
LEMMA QuietStep ==
  ASSUME IdInv, QueuedKeysCurrent, Inserting' = Inserting,
         UNCHANGED <<ready_queue, id_pool, task>>
  PROVE  QueuedTasks' = QueuedTasks /\ IdInv' /\ QueuedKeysCurrent'
<1>1. QueuedTasks' = QueuedTasks
  BY DEF QueuedTasks
<1>2. WithId' = WithId
  BY <1>1 DEF WithId
<1> QED BY <1>1, <1>2 DEF IdInv, QueuedKeysCurrent, get_vruntime

\* No two entries have the same id, so that there is a first one.
LEMMA FirstQueued ==
  ASSUME IInv, ready_queue # {}
  PROVE  /\ First(ready_queue) \in ready_queue
         /\ \A e \in ready_queue : First(ready_queue).vr <= e.vr
<1>1. ASSUME NEW e \in ready_queue, NEW f \in ready_queue, e.id = f.id PROVE e = f
  <2>1. e.task \in WithId /\ f.task \in WithId
    BY DEF WithId, QueuedTasks
  <2>2. e.task = f.task
    BY <1>1, <2>1 DEF IInv, QueuedKeysCurrent, IdInv
  <2> QED BY <2>2, QueuedOnce DEF IInv
<1>2. ready_queue \in SUBSET Entries
  BY DEF IInv, TypeOK, Entries
<1> QED BY <1>1, <1>2, FirstIsLeast

LEMMA InitIInv == Init => IInv
<1> SUFFICES ASSUME Init PROVE IInv
  OBVIOUS
<1> USE CFSAssumption DEF Init
<1>1. IsFiniteSet(ready_queue)
  BY FS_EmptySet
<1>2. \A c \in Callers : pc[c] = "idle"
  OBVIOUS
<1>3. Added = {} /\ QueuedTasks = {} /\ Inserting = {} /\ Running = {}
  BY <1>2 DEF Added, QueuedTasks, Inserting, Running, AddSteps
<1>4. TypeOK
  <2>1. [init_vruntime |-> 0, delta |-> 0, nice |-> 0, id |-> 0] \in Fields
    BY DEF Fields
  <2>2. task \in [Tasks -> Fields]
    BY <2>1
  <2>3. pc \in [Callers -> Labels] /\ arg \in [Callers -> Tasks \cup Nat \cup {None}]
    BY DEF Labels
  <2>4. \A c \in Callers : pc[c] \notin AddSteps /\ pc[c] # "store"
    BY <1>2 DEF AddSteps
  <2> QED BY <1>1, <2>2, <2>3, <2>4 DEF TypeOK
<1>5. PlaceInv
  BY <1>2, <1>3 DEF PlaceInv, AddSteps
<1>6. IdInv /\ NewInv /\ QueuedKeysCurrent
  BY <1>3 DEF IdInv, NewInv, QueuedKeysCurrent, WithId
<1> QED BY <1>4, <1>5, <1>6 DEF IInv

\* spawn: the task is in a call of add_task.
LEMMA SpawnStartKeeps ==
  ASSUME IInv, NEW c \in Callers, NEW t \in fresh, SpawnStart(c, t)
  PROVE  /\ IInv'
         /\ Added' = Added \cup {t} /\ QueuedTasks' = QueuedTasks /\ Running' = Running
<1> DEFINE l == IF min_vruntime = None THEN "set_zero" ELSE "unwrap"
<1>1. /\ pc \in [Callers -> Labels] /\ arg \in [Callers -> Tasks \cup Nat \cup {None}]
      /\ pc[c] = "idle" /\ l \in {"set_zero", "unwrap"} /\ t \in Tasks
      /\ pc' = [pc EXCEPT ![c] = l] /\ arg' = [arg EXCEPT ![c] = t]
  BY DEF IInv, TypeOK, SpawnStart, Goto
<1> HIDE DEF l
<1>2. /\ pc' \in [Callers -> Labels] /\ arg' \in [Callers -> Tasks \cup Nat \cup {None}]
      /\ pc'[c] \in {"set_zero", "unwrap"} /\ arg'[c] = t
      /\ \A d \in Callers \ {c} : pc'[d] = pc[d] /\ arg'[d] = arg[d]
  BY <1>1 DEF Labels
<1>3. pc'[c] \in AddSteps /\ pc[c] \notin AddSteps /\ pc'[c] # "insert" /\ pc[c] # "insert"
      /\ pc'[c] # "store"
  BY <1>1, <1>2 DEF AddSteps
<1>4. Added' = Added \cup {t}
  BY <1>2, <1>3 DEF Added
<1>5. Inserting' = Inserting
  BY <1>2, <1>3 DEF Inserting
<1>6. Running' = Running
  BY <1>1, <1>2 DEF SpawnStart, Running
<1>7. QueuedTasks' = QueuedTasks /\ IdInv' /\ QueuedKeysCurrent'
  BY <1>5, QuietStep DEF SpawnStart, IInv
<1>8. TypeOK'
  BY <1>1, <1>2, <1>3 DEF SpawnStart, IInv, TypeOK
<1>9. PlaceInv'
  <2>1. \A d \in Callers : pc[d] \in AddSteps => arg[d] # t
    BY DEF IInv, PlaceInv, Added
  <2>2. \A d, e \in Callers :
          pc'[d] \in AddSteps /\ pc'[e] \in AddSteps /\ arg'[d] = arg'[e] => d = e
    BY <1>2, <2>1 DEF IInv, PlaceInv
  <2> QED BY <1>4, <1>6, <1>7, <2>2 DEF SpawnStart, IInv, PlaceInv
<1>10. NewInv'
  BY <1>4 DEF SpawnStart, IInv, NewInv
<1> QED BY <1>4, <1>6, <1>7, <1>8, <1>9, <1>10 DEF IInv

\* The steps of add_task that touch nothing but min_vruntime and the caller's own variables.
LEMMA AddTaskKeeps ==
  ASSUME IInv, NEW c \in Callers, SetZero(c) \/ FirstKey(c) \/ StoreMin(c)
  PROVE  IInv' /\ Added' = Added /\ QueuedTasks' = QueuedTasks /\ Running' = Running
<1>0. foreign' \in BOOLEAN
  BY DEF SetZero, FirstKey, StoreMin, IInv, TypeOK
<1>1. /\ pc \in [Callers -> Labels] /\ arg \in [Callers -> Tasks \cup Nat \cup {None}]
      /\ min_vruntime \in Nat \cup {None}
      /\ \A d \in Callers : pc[d] \in AddSteps => arg[d] \in Tasks
  BY DEF IInv, TypeOK
<1>2. first_vruntime \in Nat \cup {None}
  <2>1. CASE ready_queue # {}
    <3>2. First(ready_queue) \in ready_queue /\ ready_queue \subseteq Entries
      BY <2>1, FirstQueued DEF IInv, TypeOK, Entries
    <3> QED BY <2>1, <3>2 DEF first_vruntime, Entries
  <2>2. CASE ready_queue = {}
    BY <2>2 DEF first_vruntime
  <2> QED BY <2>1, <2>2
<1>3. /\ pc' \in [Callers -> Labels] /\ arg' \in [Callers -> Tasks \cup Nat \cup {None}]
      /\ \A d \in Callers \ {c} : pc'[d] = pc[d] /\ arg'[d] = arg[d]
      /\ pc'[c] \in AddSteps <=> pc[c] \in AddSteps
      /\ pc'[c] \in AddSteps => arg'[c] = arg[c]
      /\ pc'[c] # "insert" /\ pc[c] # "insert" /\ pc'[c] # "pick" /\ pc[c] # "pick"
      /\ pc'[c] = "store" => arg'[c] \in Nat \cup {None}
      /\ min_vruntime' \in Nat \cup {None}
  <2>1. CASE SetZero(c)
    BY <1>1, <2>1 DEF SetZero, Goto, Labels, AddSteps
  <2>2. CASE FirstKey(c)
    BY <1>1, <1>2, <2>2 DEF FirstKey, Goto, Labels, AddSteps
  <2>3. CASE StoreMin(c)
    <3>1. arg[c] \in Nat \cup {None}
      BY <2>3 DEF StoreMin, IInv, TypeOK
    <3> QED BY <1>1, <2>3, <3>1 DEF StoreMin, Goto, Labels, AddSteps
  <2> QED BY <2>1, <2>2, <2>3
<1>4. UNCHANGED <<ready_queue, id_pool, task, current, asleep, fresh>>
  BY DEF SetZero, FirstKey, StoreMin
<1>5. \A d \in Callers : (pc'[d] \in AddSteps <=> pc[d] \in AddSteps)
                         /\ (pc'[d] \in AddSteps => arg'[d] = arg[d])
  BY <1>3
<1>6. Added' = Added
  BY <1>5 DEF Added
<1>7. Inserting' = Inserting
  BY <1>3 DEF Inserting
<1>8. Running' = Running
  BY <1>3, <1>4, CFSAssumption DEF Running
<1>9. QueuedTasks' = QueuedTasks /\ IdInv' /\ QueuedKeysCurrent'
  BY <1>4, <1>7, QuietStep DEF IInv
<1>10. TypeOK'
  BY <1>0, <1>1, <1>3, <1>4, <1>5 DEF IInv, TypeOK
<1>11. PlaceInv'
  BY <1>4, <1>5, <1>6, <1>8, <1>9 DEF IInv, PlaceInv
<1>12. NewInv'
  BY <1>4, <1>6 DEF IInv, NewInv
<1> QED BY <1>6, <1>8, <1>9, <1>10, <1>11, <1>12 DEF IInv

\* add_task takes the next id, which no other task that has one holds.
LEMMA UnwrapKeeps ==
  ASSUME IInv, NEW c \in Callers, Unwrap(c)
  PROVE  IInv' /\ Added' = Added /\ QueuedTasks' = QueuedTasks /\ Running' = Running
<1>0. foreign' \in BOOLEAN
  BY DEF Unwrap, IInv, TypeOK
<1>1. /\ pc \in [Callers -> Labels] /\ arg' = arg /\ pc[c] = "unwrap" /\ arg[c] \in Tasks
      /\ arg[c] \in Added
  BY DEF Unwrap, IInv, TypeOK, AddSteps, Added
<1>2. /\ pc' \in [Callers -> Labels] /\ pc'[c] \in {"panic", "insert"}
      /\ \A d \in Callers \ {c} : pc'[d] = pc[d]
  BY <1>1 DEF Unwrap, Goto, Labels
<1>3. \A d \in Callers : /\ pc'[d] \in AddSteps <=> pc[d] \in AddSteps
                         /\ pc'[d] = "store" => pc[d] = "store"
                         /\ pc'[d] = "pick" <=> pc[d] = "pick"
  BY <1>1, <1>2 DEF AddSteps
<1>4. UNCHANGED <<ready_queue, min_vruntime, current, asleep, fresh>>
  BY DEF Unwrap
<1>5. Added' = Added /\ Running' = Running /\ QueuedTasks' = QueuedTasks
  <2>1. Added' = Added
    BY <1>1, <1>3 DEF Added
  <2>2. Running' = Running
    BY <1>3, <1>4, CFSAssumption DEF Running
  <2> QED BY <1>4, <2>1, <2>2 DEF QueuedTasks
<1>6. PlaceInv'
  BY <1>1, <1>3, <1>4, <1>5 DEF IInv, PlaceInv
<1>7. CASE min_vruntime = None
  <2>1. pc'[c] = "panic" /\ UNCHANGED <<task, id_pool>>
    BY <1>1, <1>7 DEF Unwrap, Goto
  <2>2. Inserting' = Inserting
    BY <1>1, <1>2, <2>1 DEF Inserting
  <2>3. IdInv' /\ QueuedKeysCurrent'
    BY <1>4, <2>1, <2>2, QuietStep DEF IInv
  <2>4. TypeOK'
    BY <1>0, <1>1, <1>2, <1>3, <1>4, <2>1 DEF IInv, TypeOK
  <2>5. NewInv'
    BY <1>4, <1>5, <2>1 DEF IInv, NewInv
  <2> QED BY <1>5, <1>6, <2>3, <2>4, <2>5 DEF IInv
<1>8. CASE min_vruntime # None
  <2> DEFINE t == arg[c]
  <2>1. /\ id_pool' = id_pool + 1 /\ id_pool \in Nat /\ min_vruntime \in Nat
        /\ task \in [Tasks -> Fields]
        /\ task' = [task EXCEPT ![t].init_vruntime = min_vruntime, ![t].id = id_pool]
    BY <1>8 DEF Unwrap, IInv, TypeOK
  <2>2. pc'[c] = "insert"
    BY <1>1, <1>8 DEF Unwrap, Goto
  <2>3. t \in Tasks
    BY <1>1
  <2> HIDE DEF t
  <2>4. /\ task' \in [Tasks -> Fields] /\ task'[t].id = id_pool
        /\ \A u \in Tasks \ {t} : task'[u] = task[u]
        /\ \A u \in Tasks : task'[u].delta = task[u].delta
    BY <2>1, <2>3 DEF Fields
  <2>5. Inserting' = Inserting \cup {t}
    BY <1>1, <1>2, <2>2 DEF Inserting, t
  <2>6. t \notin WithId /\ WithId \subseteq Tasks
    <3>1. t \notin QueuedTasks /\ QueuedTasks \subseteq Tasks
      BY <1>1 DEF IInv, PlaceInv, TypeOK, QueuedTasks, t
    <3>2. ASSUME NEW d \in Callers, pc[d] = "insert" PROVE arg[d] # t /\ arg[d] \in Tasks
      BY <1>1, <3>2 DEF IInv, PlaceInv, TypeOK, AddSteps, t
    <3> QED BY <3>1, <3>2 DEF WithId, Inserting
  <2>7. WithId' = WithId \cup {t}
    BY <1>5, <2>5 DEF WithId
  <2>8. IdInv'
    <3>1. /\ \A u \in WithId : task[u].id < id_pool /\ task[u].id \in Nat
          /\ \A u, v \in WithId : task[u].id = task[v].id => u = v
      BY <2>1, <2>6 DEF IInv, IdInv, Fields
    <3> QED BY <2>1, <2>3, <2>4, <2>6, <2>7, <3>1 DEF IdInv
  <2>9. QueuedKeysCurrent'
    <3>1. \A e \in ready_queue : e.task \in Tasks /\ e.task # t
      BY <2>6 DEF WithId, QueuedTasks
    <3> QED BY <1>4, <2>4, <3>1 DEF IInv, QueuedKeysCurrent, get_vruntime
  <2>10. TypeOK'
    BY <1>0, <1>1, <1>2, <1>3, <1>4, <2>1, <2>4 DEF IInv, TypeOK
  <2>11. NewInv'
    <3>1. fresh \cup Added \subseteq Tasks
      BY DEF IInv, TypeOK, Added
    <3> QED BY <1>4, <1>5, <2>4, <3>1 DEF IInv, NewInv
  <2> QED BY <1>5, <1>6, <2>8, <2>9, <2>10, <2>11 DEF IInv
<1> QED BY <1>7, <1>8

\* add_task inserts its task, which moves from the call to the queue.
LEMMA InsertNewKeeps ==
  ASSUME IInv, NEW c \in Callers, InsertNew(c)
  PROVE  /\ IInv'
         /\ QueuedTasks \subseteq QueuedTasks' /\ Added \subseteq Added' \cup {arg[c]}
         /\ Running' = Running /\ ready_queue \subseteq ready_queue'
         /\ HasRoom => arg[c] \in QueuedTasks'
         /\ HasRoom => \E e \in ready_queue' : e.vr = task[arg[c]].init_vruntime
<1> DEFINE t == arg[c]
<1>0. foreign' \in BOOLEAN
  BY DEF InsertNew, IInv, TypeOK
<1>1. /\ pc \in [Callers -> Labels] /\ arg' = arg /\ pc[c] = "insert" /\ t \in Tasks
      /\ t \in Added /\ t \in Inserting
  BY DEF InsertNew, IInv, TypeOK, AddSteps, Added, Inserting
<1>2. /\ pc' \in [Callers -> Labels] /\ pc'[c] = "first"
      /\ \A d \in Callers \ {c} : pc'[d] = pc[d]
  BY <1>1 DEF InsertNew, Goto, Labels
<1>3. /\ UNCHANGED <<min_vruntime, id_pool, task, current, asleep, fresh>>
      /\ ready_queue' = Inserted(task[t].init_vruntime, task[t].id, t)
  BY DEF InsertNew
<1>4. \A d \in Callers \ {c} : pc[d] \in AddSteps => arg[d] # t
  BY <1>1 DEF IInv, PlaceInv, AddSteps
<1>5. task[t] \in Fields /\ task[t].init_vruntime \in Nat /\ task[t].id \in Nat
  BY <1>1 DEF IInv, TypeOK, Fields
<1>6. t \notin QueuedTasks /\ \A u \in QueuedTasks : task[u].id # task[t].id
  BY <1>1 DEF IInv, PlaceInv, IdInv, WithId
<1> DEFINE new == [vr |-> task[t].init_vruntime, id |-> task[t].id, task |-> t]
<1>7. /\ ready_queue' \subseteq Entries /\ IsFiniteSet(ready_queue')
      /\ ready_queue \subseteq ready_queue'
      /\ ready_queue' \subseteq ready_queue \cup {new}
      /\ QueuedTasks \subseteq QueuedTasks' /\ QueuedTasks' \subseteq QueuedTasks \cup {t}
      /\ HasRoom => new \in ready_queue' /\ t \in QueuedTasks'
  <2> HIDE DEF t
  <2> QED BY <1>1, <1>3, <1>5, <1>6, NewEntry
<1>8. new.vr = task[t].init_vruntime /\ new.id = task[t].id /\ new.task = t
  OBVIOUS
<1> HIDE DEF new
<1>9. Added' = Added \ {t}
  BY <1>1, <1>2, <1>4 DEF Added, AddSteps
<1>10. Running' = Running
  BY <1>1, <1>2, <1>3, CFSAssumption DEF Running
<1>11. Inserting' \subseteq Inserting
  BY <1>1, <1>2 DEF Inserting
<1>12. IdInv'
  <2>1. WithId' \subseteq WithId
    BY <1>1, <1>7, <1>11 DEF WithId
  <2> QED BY <1>3, <2>1 DEF IInv, IdInv
<1>13. QueuedKeysCurrent'
  <2>1. ASSUME NEW e \in ready_queue'
        PROVE  e.vr = get_vruntime(e.task) /\ e.id = task[e.task].id
    <3>1. CASE e \in ready_queue
      BY <3>1 DEF IInv, QueuedKeysCurrent
    <3>2. CASE e = new
      <4>1. get_vruntime(t) = task[t].init_vruntime
        <5>1. task[t].delta * 1024 = 0
          BY <1>1, <1>5 DEF IInv, NewInv
        <5>2. get_weight(task[t].nice) \in Nat \ {0}
          BY <1>5, WeightPositive DEF Fields
        <5>3. (task[t].delta * 1024) \div get_weight(task[t].nice) = 0
          BY <5>1, <5>2
        <5> QED BY <1>5, <5>3 DEF get_vruntime, vruntime_of
      <4> QED BY <1>8, <3>2, <4>1
    <3> QED BY <1>7, <3>1, <3>2
  <2> QED BY <1>3, <2>1 DEF QueuedKeysCurrent, get_vruntime
<1>14. TypeOK'
  BY <1>0, <1>1, <1>2, <1>3, <1>7 DEF IInv, TypeOK, Entries, AddSteps
<1>15. PlaceInv'
  <2>1. \A d \in Callers : pc'[d] \in AddSteps => pc[d] \in AddSteps
    BY <1>2 DEF AddSteps
  <2> QED BY <1>1, <1>3, <1>7, <1>9, <1>10, <2>1 DEF IInv, PlaceInv
<1>16. NewInv'
  BY <1>3, <1>9 DEF IInv, NewInv
<1> QED BY <1>7, <1>8, <1>9, <1>10, <1>12, <1>13, <1>14, <1>15, <1>16 DEF IInv

\* The current task is put back, or a sleeping one woken.
LEMMA PutBackKeeps ==
  ASSUME IInv, PutBack
  PROVE  IInv' /\ Added' = Added /\ QueuedTasks \subseteq QueuedTasks' /\ Running = {current}
         /\ (HasRoom => current \in QueuedTasks') /\ ready_queue \subseteq ready_queue'
<1>0. foreign' \in BOOLEAN
  BY DEF PutBack, IInv, TypeOK
<1>1. /\ pc[Home] = "idle" /\ current \in Tasks /\ current # Idle /\ put_prev_task(current)
      /\ Goto(Home, "pick") /\ UNCHANGED <<min_vruntime, current, asleep, fresh, arg>>
  BY DEF PutBack, IInv, TypeOK
<1>2. Running = {current}
  BY <1>1 DEF Running
<1>3. current \notin QueuedTasks /\ current \notin Added
  BY <1>2 DEF IInv, PlaceInv
<1>4. /\ Added' = Added /\ Inserting' = Inserting
      /\ pc' \in [Callers -> Labels] /\ arg' \in [Callers -> Tasks \cup Nat \cup {None}]
      /\ pc'[Home] = "pick"
      /\ \A c \in Callers : /\ pc'[c] \in AddSteps => arg'[c] \in Tasks
                            /\ pc'[c] = "store" => arg'[c] \in Nat \cup {None}
      /\ \A c, d \in Callers :
           pc'[c] \in AddSteps /\ pc'[d] \in AddSteps /\ arg'[c] = arg'[d] => c = d
  <2>1. pc[Home] \notin AddSteps /\ "pick" \in Labels \ AddSteps /\ "pick" # "store"
    BY <1>1 DEF AddSteps, Labels
  <2> QED BY <1>1, <2>1, HomeMoves DEF IInv
<1>5. /\ ready_queue' \subseteq Entries /\ IsFiniteSet(ready_queue')
      /\ ready_queue \subseteq ready_queue'
      /\ id_pool' \in Nat /\ task' \in [Tasks -> Fields]
      /\ QueuedTasks \subseteq QueuedTasks' /\ QueuedTasks' \subseteq QueuedTasks \cup {current}
      /\ HasRoom => current \in QueuedTasks'
      /\ IdInv' /\ QueuedKeysCurrent'
  BY <1>1, <1>3, <1>4, PutPrev
<1>6. Running' = {}
  BY <1>4 DEF Running
<1>7. TypeOK'
  BY <1>0, <1>1, <1>4, <1>5 DEF IInv, TypeOK, Entries
<1>8. PlaceInv'
  BY <1>1, <1>2, <1>4, <1>5, <1>6 DEF IInv, PlaceInv
<1>9. NewInv'
  <2>1. \A u \in Tasks : task'[u].delta = task[u].delta
    BY <1>1 DEF put_prev_task, IInv, TypeOK, Fields
  <2>2. fresh \cup Added \subseteq Tasks
    BY DEF IInv, TypeOK, Added
  <2> QED BY <1>1, <1>4, <2>1, <2>2 DEF IInv, NewInv
<1> QED BY <1>2, <1>4, <1>5, <1>7, <1>8, <1>9 DEF IInv

LEMMA UnblockKeeps ==
  ASSUME IInv, NEW c \in Callers, NEW t \in asleep, unblock_task(c, t)
  PROVE  IInv' /\ Added' = Added /\ QueuedTasks \subseteq QueuedTasks' /\ Running' = Running
         /\ (HasRoom => t \in QueuedTasks') /\ ready_queue \subseteq ready_queue'
<1>0. foreign' \in BOOLEAN
  BY DEF unblock_task, locals, IInv, TypeOK
<1>1. /\ t \in Tasks /\ put_prev_task(t) /\ asleep' = asleep \ {t}
      /\ UNCHANGED <<min_vruntime, current, fresh, pc, arg>>
  BY DEF unblock_task, IInv, TypeOK, locals
<1>2. t \notin QueuedTasks /\ t \notin Added
  BY DEF IInv, PlaceInv
<1>3. Added' = Added /\ Inserting' = Inserting /\ Running' = Running
  BY <1>1 DEF Added, Inserting, Running
<1>4. /\ ready_queue' \subseteq Entries /\ IsFiniteSet(ready_queue')
      /\ ready_queue \subseteq ready_queue'
      /\ id_pool' \in Nat /\ task' \in [Tasks -> Fields]
      /\ QueuedTasks \subseteq QueuedTasks' /\ QueuedTasks' \subseteq QueuedTasks \cup {t}
      /\ HasRoom => t \in QueuedTasks'
      /\ IdInv' /\ QueuedKeysCurrent'
  BY <1>1, <1>2, <1>3, PutPrev
<1>5. TypeOK'
  BY <1>0, <1>1, <1>4 DEF IInv, TypeOK, Entries
<1>6. PlaceInv'
  BY <1>1, <1>3, <1>4 DEF IInv, PlaceInv
<1>7. NewInv'
  <2>1. \A u \in Tasks : task'[u].delta = task[u].delta
    BY <1>1 DEF put_prev_task, IInv, TypeOK, Fields
  <2>2. fresh \cup Added \subseteq Tasks
    BY DEF IInv, TypeOK, Added
  <2> QED BY <1>1, <1>3, <2>1, <2>2 DEF IInv, NewInv
<1> QED BY <1>3, <1>4, <1>5, <1>6, <1>7 DEF IInv

\* The first task of the queue becomes the current one.
LEMMA PickKeeps ==
  ASSUME IInv, pick_next_task
  PROVE  IInv' /\ Added' = Added /\ QueuedTasks \subseteq QueuedTasks' \cup Running' /\ Running = {}
<1>0. foreign' \in BOOLEAN
  BY DEF pick_next_task, IInv, TypeOK
<1>1. /\ pc[Home] = "pick" /\ Goto(Home, "idle")
      /\ UNCHANGED <<min_vruntime, id_pool, task, asleep, fresh, arg>>
  BY DEF pick_next_task
<1>2. /\ Added' = Added /\ Inserting' = Inserting
      /\ pc' \in [Callers -> Labels] /\ arg' \in [Callers -> Tasks \cup Nat \cup {None}]
      /\ pc'[Home] = "idle"
      /\ \A c \in Callers : /\ pc'[c] \in AddSteps => arg'[c] \in Tasks
                            /\ pc'[c] = "store" => arg'[c] \in Nat \cup {None}
      /\ \A c, d \in Callers :
           pc'[c] \in AddSteps /\ pc'[d] \in AddSteps /\ arg'[c] = arg'[d] => c = d
  <2>1. pc[Home] \notin AddSteps /\ "idle" \in Labels \ AddSteps /\ "idle" # "store"
    BY <1>1 DEF AddSteps, Labels
  <2> QED BY <1>1, <2>1, HomeMoves DEF IInv
<1>3. Running = {} /\ Running' = {current'} \ {Idle}
  BY <1>1, <1>2 DEF Running
<1>4. ready_queue' \subseteq ready_queue /\ IsFiniteSet(ready_queue')
  <2>1. ready_queue' \subseteq ready_queue
    BY DEF pick_next_task
  <2> QED BY <2>1, FS_Subset DEF IInv, TypeOK
<1>5. \/ current' = Idle /\ QueuedTasks' = QueuedTasks
      \/ /\ current' \in QueuedTasks /\ current' \in Tasks
         /\ QueuedTasks' = QueuedTasks \ {current'}
  <2>1. CASE ready_queue = {}
    BY <2>1 DEF pick_next_task, QueuedTasks
  <2>2. CASE ready_queue # {}
    <3> DEFINE f == First(ready_queue)
    <3>1. f \in ready_queue /\ current' = f.task /\ ready_queue' = ready_queue \ {f}
      BY <2>2, FirstQueued DEF pick_next_task
    <3> HIDE DEF f
    <3>2. \A e \in ready_queue : e.task = f.task => e = f
      BY <3>1, QueuedOnce DEF IInv
    <3>3. QueuedTasks' = QueuedTasks \ {f.task}
      BY <3>1, <3>2 DEF QueuedTasks
    <3>4. f.task \in QueuedTasks /\ f.task \in Tasks
      BY <3>1 DEF QueuedTasks, IInv, TypeOK
    <3> QED BY <3>1, <3>3, <3>4
  <2> QED BY <2>1, <2>2
<1>6. TypeOK'
  BY <1>0, <1>1, <1>2, <1>4, <1>5 DEF IInv, TypeOK
<1>7. PlaceInv'
  BY <1>1, <1>2, <1>3, <1>5 DEF IInv, PlaceInv
<1>8. IdInv'
  <2>1. WithId' \subseteq WithId
    BY <1>2, <1>5 DEF WithId
  <2> QED BY <1>1, <2>1 DEF IInv, IdInv
<1>9. NewInv' /\ QueuedKeysCurrent'
  BY <1>1, <1>2, <1>4 DEF IInv, NewInv, QueuedKeysCurrent, get_vruntime
<1>10. QueuedTasks \subseteq QueuedTasks' \cup Running'
  BY <1>3, <1>5, CFSAssumption
<1> QED BY <1>2, <1>3, <1>6, <1>7, <1>8, <1>9, <1>10 DEF IInv

\* The steps of the owning CPU that change neither the queue nor a task.
LEMMA PassKeeps ==
  ASSUME IInv, Block \/ IdleYields \/ Check \/ Compare \/ TickReturns
  PROVE  IInv' /\ Added' = Added /\ QueuedTasks' = QueuedTasks
         /\ Running \subseteq Running' \cup asleep'
<1>0. foreign' \in BOOLEAN
  BY DEF Block, IdleYields, Check, Compare, TickReturns, IInv, TypeOK
<1>1. /\ UNCHANGED <<ready_queue, min_vruntime, id_pool, task, current, fresh, arg>>
      /\ pc[Home] \in {"idle", "check", "compare", "tick_true", "tick_false"}
  BY DEF Block, IdleYields, Check, Compare, TickReturns
<1>2. PICK l \in {"idle", "pick", "compare", "tick_true", "tick_false", "tick_panic"} :
        /\ Goto(Home, l)
        /\ l = "pick" => \/ asleep' = asleep \cup {current} /\ current \in Tasks
                            /\ pc[Home] = "idle" /\ current # Idle
                         \/ asleep' = asleep /\ current = Idle
        /\ l # "pick" => asleep' = asleep
  BY DEF Block, IdleYields, Check, Compare, TickReturns, IInv, TypeOK
<1>3. /\ Added' = Added /\ Inserting' = Inserting
      /\ pc' \in [Callers -> Labels] /\ arg' \in [Callers -> Tasks \cup Nat \cup {None}]
      /\ pc'[Home] = l
      /\ \A c \in Callers : /\ pc'[c] \in AddSteps => arg'[c] \in Tasks
                            /\ pc'[c] = "store" => arg'[c] \in Nat \cup {None}
      /\ \A c, d \in Callers :
           pc'[c] \in AddSteps /\ pc'[d] \in AddSteps /\ arg'[c] = arg'[d] => c = d
  <2>1. pc[Home] \notin AddSteps /\ l \in Labels \ AddSteps /\ l # "store"
    BY <1>1 DEF AddSteps, Labels
  <2> QED BY <1>1, <1>2, <2>1, HomeMoves DEF IInv
<1>4. QueuedTasks' = QueuedTasks /\ IdInv' /\ QueuedKeysCurrent'
  BY <1>1, <1>3, QuietStep DEF IInv
<1>5. NewInv'
  BY <1>1, <1>3 DEF IInv, NewInv
<1>6. Running = {current} \ {Idle}
  BY <1>1 DEF Running
<1>7. CASE l = "pick"
  <2>1. Running' = {}
    BY <1>3, <1>7 DEF Running
  <2>2. TypeOK'
    BY <1>0, <1>1, <1>2, <1>3, <1>7 DEF IInv, TypeOK
  <2>3. asleep' \subseteq asleep \cup Running /\ Running \subseteq asleep'
    BY <1>2, <1>6, <1>7
  <2>4. PlaceInv'
    BY <1>1, <1>3, <1>4, <2>1, <2>3 DEF IInv, PlaceInv
  <2> QED BY <1>3, <1>4, <1>5, <2>2, <2>3, <2>4 DEF IInv
<1>8. CASE l # "pick"
  <2>1. Running' = Running
    BY <1>1, <1>3, <1>6, <1>8 DEF Running
  <2>2. TypeOK'
    BY <1>0, <1>1, <1>2, <1>3, <1>8 DEF IInv, TypeOK
  <2>3. PlaceInv'
    BY <1>1, <1>2, <1>3, <1>4, <1>8, <2>1 DEF IInv, PlaceInv
  <2> QED BY <1>3, <1>4, <1>5, <2>1, <2>2, <2>3 DEF IInv
<1> QED BY <1>7, <1>8

\* A tick, or a new priority, of the current task: it is not queued, so no key becomes stale.
LEMMA TickKeeps ==
  ASSUME IInv, TickStart \/ \E nice \in Nices : set_priority(nice)
  PROVE  /\ IInv' /\ Added' = Added /\ QueuedTasks' = QueuedTasks /\ Running' = Running
         /\ \A u \in Tasks : vruntime_of(task'[u]) >= get_vruntime(u)
<1>0. foreign' \in BOOLEAN
  BY DEF TickStart, set_priority, locals, IInv, TypeOK
<1>1. /\ UNCHANGED <<ready_queue, min_vruntime, id_pool, current, asleep, fresh, arg>>
      /\ pc[Home] = "idle" /\ current \in Tasks /\ current # Idle
      /\ task \in [Tasks -> Fields]
  BY DEF TickStart, set_priority, locals, IInv, TypeOK
<1>2. PICK l \in {"idle", "tick_false", "check"} : Goto(Home, l)
  <2>1. CASE TickStart
    BY <2>1 DEF TickStart
  <2>2. CASE \E nice \in Nices : set_priority(nice)
    <3>1. pc' = [pc EXCEPT ![Home] = "idle"]
      BY <1>1, <2>2 DEF set_priority, locals, IInv, TypeOK
    <3> QED BY <3>1 DEF Goto
  <2> QED BY <2>1, <2>2
<1>3. /\ Added' = Added /\ Inserting' = Inserting
      /\ pc' \in [Callers -> Labels] /\ arg' \in [Callers -> Tasks \cup Nat \cup {None}]
      /\ pc'[Home] = l
      /\ \A c \in Callers : /\ pc'[c] \in AddSteps => arg'[c] \in Tasks
                            /\ pc'[c] = "store" => arg'[c] \in Nat \cup {None}
      /\ \A c, d \in Callers :
           pc'[c] \in AddSteps /\ pc'[d] \in AddSteps /\ arg'[c] = arg'[d] => c = d
  <2>1. pc[Home] \notin AddSteps /\ l \in Labels \ AddSteps /\ l # "store"
    BY <1>1 DEF AddSteps, Labels
  <2> QED BY <1>1, <1>2, <2>1, HomeMoves DEF IInv
<1>4. /\ task' \in [Tasks -> Fields]
      /\ \A u \in Tasks \ {current} : task'[u] = task[u]
      /\ task'[current].id = task[current].id
      /\ vruntime_of(task'[current]) >= get_vruntime(current)
  <2> DEFINE f == task[current]
  <2>1. f \in Fields
    BY <1>1
  <2>2. CASE TickStart
    <3>1. task' = [task EXCEPT ![current] = [f EXCEPT !.delta = @ + 1]]
      BY <2>2 DEF TickStart
    <3>2. [f EXCEPT !.delta = @ + 1] \in Fields /\ [f EXCEPT !.delta = @ + 1].id = f.id
      BY <2>1 DEF Fields
    <3>3. vruntime_of([f EXCEPT !.delta = @ + 1]) >= vruntime_of(f)
      BY <2>1, VruntimeSteps
    <3> QED BY <1>1, <3>1, <3>2, <3>3 DEF get_vruntime
  <2>3. CASE \E nice \in Nices : set_priority(nice)
    <3>1. PICK nice \in Nices : set_priority(nice)
      BY <2>3
    <3>2. task' = [task EXCEPT ![current] = repriced(f, nice)] /\ nice \in -20..19
      BY <3>1, CFSAssumption DEF set_priority
    <3>3. /\ repriced(f, nice) \in Fields /\ vruntime_of(repriced(f, nice)) = vruntime_of(f)
          /\ vruntime_of(f) \in Nat
      BY <2>1, <3>2, VruntimeSteps
    <3>4. repriced(f, nice).id = f.id
      BY <2>1 DEF repriced, Fields
    <3> QED BY <1>1, <3>2, <3>3, <3>4 DEF get_vruntime
  <2> QED BY <1>1, <2>2, <2>3
<1>5. Running = {current} /\ Running' = Running
  BY <1>1, <1>3 DEF Running
<1>6. current \notin QueuedTasks /\ current \notin Added /\ current \notin fresh
  BY <1>5 DEF IInv, PlaceInv
<1>7. QueuedTasks' = QueuedTasks /\ WithId' = WithId
  BY <1>1, <1>3 DEF QueuedTasks, WithId
<1>8. QueuedTasks \subseteq Tasks /\ Added \subseteq Tasks /\ Inserting \subseteq Tasks
  <2>1. Inserting \subseteq Added
    BY DEF Inserting, Added, AddSteps
  <2> QED BY <2>1 DEF IInv, TypeOK, QueuedTasks, Added
<1>9. IdInv'
  <2>1. \A u \in WithId : task'[u].id = task[u].id
    BY <1>4, <1>8 DEF WithId
  <2> QED BY <1>1, <1>7, <2>1 DEF IInv, IdInv
<1>10. NewInv'
  BY <1>1, <1>3, <1>4, <1>6, <1>8 DEF IInv, NewInv, TypeOK
<1>11. QueuedKeysCurrent'
  <2>1. \A e \in ready_queue : task'[e.task] = task[e.task]
    BY <1>4, <1>6, <1>8 DEF QueuedTasks
  <2> QED BY <1>1, <2>1 DEF IInv, QueuedKeysCurrent, get_vruntime
<1>12. TypeOK'
  BY <1>0, <1>1, <1>3, <1>4 DEF IInv, TypeOK
<1>13. PlaceInv'
  BY <1>1, <1>3, <1>5, <1>7 DEF IInv, PlaceInv
<1>14. \A u \in Tasks : vruntime_of(task'[u]) >= get_vruntime(u)
  <2>1. \A u \in Tasks : get_vruntime(u) \in Nat
    BY <1>1, VruntimeSteps DEF get_vruntime
  <2> QED BY <1>4, <2>1 DEF get_vruntime
<1> QED BY <1>3, <1>5, <1>7, <1>9, <1>10, <1>11, <1>12, <1>13, <1>14 DEF IInv

LEMMA NextIInv == IInv /\ [Next]_vars => IInv'
<1> SUFFICES ASSUME IInv, [Next]_vars PROVE IInv'
  OBVIOUS
<1>1. CASE UNCHANGED vars
  BY <1>1 DEF vars, IInv, TypeOK, PlaceInv, IdInv, NewInv, QueuedKeysCurrent, QueuedTasks,
              Added, Running, WithId, Inserting, get_vruntime
<1>2. ASSUME NEW c \in Callers,
             \/ \E t \in fresh : SpawnStart(c, t)
             \/ SetZero(c) \/ Unwrap(c) \/ InsertNew(c) \/ FirstKey(c) \/ StoreMin(c)
             \/ \E t \in asleep : unblock_task(c, t)
      PROVE  IInv'
  BY <1>2, SpawnStartKeeps, AddTaskKeeps, UnwrapKeeps, InsertNewKeeps, UnblockKeeps
<1>3. CASE PutBack \/ pick_next_task \/ Block \/ IdleYields \/ Check \/ Compare \/ TickReturns
  BY <1>3, PutBackKeeps, PickKeeps, PassKeeps
<1>4. CASE TickStart \/ \E nice \in Nices : set_priority(nice)
  BY <1>4, TickKeeps
<1> QED BY <1>1, <1>2, <1>3, <1>4 DEF Next

\* Keys have ids that no other task of the queue has, entries follow the fields of their task,
\* and no task is in two places: kept by every step of add_task, put_prev_task,
\* pick_next_task, task_tick and set_priority, also when the map is full.
THEOREM CFSInvariance == Spec => []IInv
BY InitIInv, NextIInv, PTL DEF Spec

\* A task waits under the vruntime and the id it has now: no tick and no set_priority reaches
\* a queued task, and no insertion replaces the entry of another.
THEOREM KeysCurrent == Spec => []QueuedKeysCurrent
<1>1. IInv => QueuedKeysCurrent
  BY DEF IInv
<1> QED BY CFSInvariance, <1>1, PTL

-----------------------------------------------------------------------------
(* No task is dropped                                                      *)

LEMMA NextNoTaskLost == IInv /\ NoTaskLost /\ HasRoom /\ [Next]_vars => NoTaskLost'
<1> SUFFICES ASSUME IInv, NoTaskLost, HasRoom, [Next]_vars PROVE NoTaskLost'
  OBVIOUS
<1> USE DEF NoTaskLost
<1>1. ASSUME NEW c \in Callers, NEW t \in fresh, SpawnStart(c, t) PROVE NoTaskLost'
  <2>1. fresh' = fresh \ {t} /\ asleep' = asleep
    BY <1>1 DEF SpawnStart
  <2> QED BY <1>1, <2>1, SpawnStartKeeps
<1>2. ASSUME NEW c \in Callers, SetZero(c) \/ FirstKey(c) \/ StoreMin(c) \/ Unwrap(c)
      PROVE  NoTaskLost'
  <2>1. fresh' = fresh /\ asleep' = asleep
    BY <1>2 DEF SetZero, FirstKey, StoreMin, Unwrap
  <2>2. Added' = Added /\ QueuedTasks' = QueuedTasks /\ Running' = Running
    BY <1>2, AddTaskKeeps, UnwrapKeeps
  <2> QED BY <2>1, <2>2
<1>3. ASSUME NEW c \in Callers, InsertNew(c) PROVE NoTaskLost'
  <2>1. fresh' = fresh /\ asleep' = asleep
    BY <1>3 DEF InsertNew
  <2> QED BY <1>3, <2>1, InsertNewKeeps
<1>4. ASSUME NEW c \in Callers, NEW t \in asleep, unblock_task(c, t) PROVE NoTaskLost'
  <2>1. fresh' = fresh /\ asleep' = asleep \ {t}
    BY <1>4 DEF unblock_task
  <2> QED BY <1>4, <2>1, UnblockKeeps
<1>5. CASE PutBack
  <2>1. fresh' = fresh /\ asleep' = asleep
    BY <1>5 DEF PutBack
  <2> QED BY <1>5, <2>1, PutBackKeeps
<1>6. CASE pick_next_task
  <2>1. fresh' = fresh /\ asleep' = asleep
    BY <1>6 DEF pick_next_task
  <2> QED BY <1>6, <2>1, PickKeeps
<1>7. CASE Block \/ IdleYields \/ Check \/ Compare \/ TickReturns
  <2>1. fresh' = fresh /\ asleep \subseteq asleep'
    BY <1>7 DEF Block, IdleYields, Check, Compare, TickReturns
  <2> QED BY <1>7, <2>1, PassKeeps
<1>8. CASE TickStart \/ \E nice \in Nices : set_priority(nice)
  <2>1. fresh' = fresh /\ asleep' = asleep
    BY <1>8 DEF TickStart, set_priority
  <2> QED BY <1>8, <2>1, TickKeeps
<1>9. CASE UNCHANGED vars
  BY <1>9 DEF vars, QueuedTasks, Added, Running
<1> QED BY <1>1, <1>2, <1>3, <1>4, <1>5, <1>6, <1>7, <1>8, <1>9 DEF Next

LEMMA InitNoTaskLost == Init => NoTaskLost
BY DEF Init, NoTaskLost

\* One entry, one call or one place for each task, counted as in TaskInOnePlace.
LEMMA OnePlaceCounted == IInv /\ NoTaskLost => TaskInOnePlace
<1> SUFFICES ASSUME IInv, NoTaskLost, NEW t \in Tasks
             PROVE  Cardinality(InQueue(t)) + Cardinality(Adding(t))
                    + (IF t \in fresh THEN 1 ELSE 0) + (IF t \in asleep THEN 1 ELSE 0)
                    + (IF t = current /\ pc[Home] # "pick" THEN 1 ELSE 0) = 1
  BY DEF TaskInOnePlace
<1>1. Cardinality(InQueue(t)) = IF t \in QueuedTasks THEN 1 ELSE 0
  <2>1. CASE t \in QueuedTasks
    <3>1. PICK e \in ready_queue : e.task = t
      BY <2>1 DEF QueuedTasks
    <3>2. InQueue(t) = {e}
      BY <3>1, QueuedOnce DEF InQueue, IInv
    <3> QED BY <2>1, <3>2, FS_Singleton
  <2>2. CASE t \notin QueuedTasks
    <3>1. InQueue(t) = {}
      BY <2>2 DEF InQueue, QueuedTasks
    <3> QED BY <2>2, <3>1, FS_EmptySet
  <2> QED BY <2>1, <2>2
<1>2. Cardinality(Adding(t)) = IF t \in Added THEN 1 ELSE 0
  <2>1. Adding(t) = {c \in Callers : pc[c] \in AddSteps /\ arg[c] = t}
    BY DEF Adding, AddSteps
  <2>2. CASE t \in Added
    <3>1. PICK c \in Callers : pc[c] \in AddSteps /\ arg[c] = t
      BY <2>2 DEF Added
    <3>2. Adding(t) = {c}
      BY <2>1, <3>1 DEF IInv, PlaceInv
    <3> QED BY <2>2, <3>2, FS_Singleton
  <2>3. CASE t \notin Added
    <3>1. Adding(t) = {}
      BY <2>1, <2>3 DEF Added
    <3> QED BY <2>3, <3>1, FS_EmptySet
  <2> QED BY <2>2, <2>3
<1>3. t = current /\ pc[Home] # "pick" <=> t \in Running
  BY CFSAssumption DEF Running
<1>4. t \in QueuedTasks \cup Added \cup fresh \cup asleep \cup Running
  BY DEF NoTaskLost
<1>5. /\ t \in QueuedTasks => t \notin Added /\ t \notin fresh /\ t \notin asleep /\ t \notin Running
      /\ t \in Added => t \notin fresh /\ t \notin asleep /\ t \notin Running
      /\ t \in fresh => t \notin asleep /\ t \notin Running
      /\ t \in asleep => t \notin Running
  BY DEF IInv, PlaceInv
<1> DEFINE q == Cardinality(InQueue(t))
           a == Cardinality(Adding(t))
<1>6. q = (IF t \in QueuedTasks THEN 1 ELSE 0) /\ a = (IF t \in Added THEN 1 ELSE 0)
  BY <1>1, <1>2
<1> HIDE DEF q, a
<1>7. q + a + (IF t \in fresh THEN 1 ELSE 0) + (IF t \in asleep THEN 1 ELSE 0)
      + (IF t \in Running THEN 1 ELSE 0) = 1
  BY <1>4, <1>5, <1>6
<1> QED BY <1>3, <1>7 DEF q, a

\* insert refuses an entry when the map is full and replaces one with an equal key, and the
\* scheduler ignores both: neither happens when there is a slot for every task, however
\* spawns, wakes, yields and blocks of all CPUs come together.
THEOREM CFSOnePlace == HasRoom => (Spec => []TaskInOnePlace)
<1> SUFFICES ASSUME HasRoom PROVE Spec => []TaskInOnePlace
  OBVIOUS
<1>1. IInv /\ NoTaskLost /\ [Next]_vars => NoTaskLost'
  BY NextNoTaskLost
<1> QED BY InitNoTaskLost, <1>1, CFSInvariance, OnePlaceCounted, PTL DEF Spec

-----------------------------------------------------------------------------
(* Steps of the vruntimes                                                  *)

VruntimeStep ==
  \A t \in Tasks \ fresh :
    /\ Adding(t) = {} => vruntime_of(task'[t]) >= get_vruntime(t)
    /\ task'[t].nice # task[t].nice => vruntime_of(task'[t]) = get_vruntime(t)

LEMMA NextVruntimeStep == IInv /\ [Next]_vars => VruntimeStep
<1> SUFFICES ASSUME IInv, [Next]_vars PROVE VruntimeStep
  OBVIOUS
<1>0. task \in [Tasks -> Fields] /\ \A t \in Tasks : get_vruntime(t) \in Nat
  BY VruntimeSteps DEF IInv, TypeOK, get_vruntime
<1>1. CASE task' = task
  BY <1>0, <1>1 DEF VruntimeStep, get_vruntime
<1>2. ASSUME NEW c \in Callers, Unwrap(c) PROVE VruntimeStep
  <2>1. CASE min_vruntime = None
    BY <1>1, <1>2, <2>1 DEF Unwrap
  <2>2. CASE min_vruntime # None
    <3>1. task' = [task EXCEPT ![arg[c]].init_vruntime = min_vruntime, ![arg[c]].id = id_pool]
      BY <1>2, <2>2 DEF Unwrap
    <3>2. arg[c] \in Tasks /\ c \in Adding(arg[c])
      BY <1>2 DEF Unwrap, IInv, TypeOK, AddSteps, Adding
    <3>3. /\ \A t \in Tasks \ {arg[c]} : task'[t] = task[t]
          /\ \A t \in Tasks : task'[t].nice = task[t].nice
      BY <1>0, <3>1, <3>2 DEF Fields
    <3> QED BY <1>0, <3>2, <3>3 DEF VruntimeStep, get_vruntime
  <2> QED BY <2>1, <2>2
<1>3. ASSUME NEW t \in Tasks, put_prev_task(t) PROVE VruntimeStep
  <2>1. task' = [task EXCEPT ![t].id = id_pool]
    BY <1>3 DEF put_prev_task
  <2>2. \A u \in Tasks : /\ task'[u].init_vruntime = task[u].init_vruntime
                         /\ task'[u].delta = task[u].delta /\ task'[u].nice = task[u].nice
    BY <1>0, <2>1 DEF Fields
  <2>3. \A u \in Tasks : vruntime_of(task'[u]) = get_vruntime(u)
    BY <2>2 DEF vruntime_of, get_vruntime
  <2> QED BY <1>0, <2>2, <2>3 DEF VruntimeStep
<1>4. CASE TickStart
  <2>1. \A u \in Tasks : vruntime_of(task'[u]) >= get_vruntime(u)
    BY <1>4, TickKeeps
  <2>2. \A u \in Tasks : task'[u].nice = task[u].nice
    BY <1>0, <1>4 DEF TickStart, Fields
  <2> QED BY <2>1, <2>2 DEF VruntimeStep
<1>5. ASSUME NEW nice \in Nices, set_priority(nice) PROVE VruntimeStep
  <2>1. /\ task' = [task EXCEPT ![current] = repriced(task[current], nice)]
        /\ current \in Tasks /\ nice \in -20..19
    BY <1>5, CFSAssumption DEF set_priority, IInv, TypeOK
  <2>2. vruntime_of(repriced(task[current], nice)) = vruntime_of(task[current])
    BY <1>0, <2>1, VruntimeSteps
  <2>3. \A u \in Tasks : vruntime_of(task'[u]) = get_vruntime(u)
    BY <1>0, <2>1, <2>2 DEF get_vruntime
  <2> QED BY <1>0, <2>3 DEF VruntimeStep
<1>6. ASSUME NEW c \in Callers,
             \/ \E t \in fresh : SpawnStart(c, t)
             \/ SetZero(c) \/ InsertNew(c) \/ FirstKey(c) \/ StoreMin(c)
      PROVE  VruntimeStep
  BY <1>1, <1>6 DEF SpawnStart, SetZero, InsertNew, FirstKey, StoreMin
<1>7. ASSUME NEW c \in Callers, NEW t \in asleep, unblock_task(c, t) PROVE VruntimeStep
  BY <1>3, <1>7 DEF unblock_task, IInv, TypeOK
<1>8. CASE PutBack
  BY <1>3, <1>8 DEF PutBack, IInv, TypeOK
<1>9. CASE Block \/ IdleYields \/ pick_next_task \/ Check \/ Compare \/ TickReturns
           \/ UNCHANGED vars
  BY <1>1, <1>9 DEF Block, IdleYields, pick_next_task, Check, Compare, TickReturns, vars
<1> QED BY <1>2, <1>4, <1>5, <1>6, <1>7, <1>8, <1>9 DEF Next

\* The vruntime of a spawned task is never set back, for any nice value and any rounding of
\* the delta, and set_priority does not change it, in whatever order ticks, priority changes
\* and put_prev_task come.
THEOREM VruntimesKept == Spec => VruntimeKept
<1>1. IInv /\ [Next]_vars => [VruntimeStep]_vars
  BY NextVruntimeStep
<1>2. Spec => [][VruntimeStep]_vars
  BY <1>1, CFSInvariance, PTL DEF Spec
<1> QED BY <1>2 DEF VruntimeKept, VruntimeStep

-----------------------------------------------------------------------------
(* task_tick                                                               *)

\* What another CPU has spawned stays known.
LEMMA ForeignStays ==
  ASSUME [Next]_vars, ~foreign', IInv
  PROVE  ~foreign /\ \A c \in Callers, t \in fresh : SpawnStart(c, t) => c = Home
<1>1. CASE \E c \in Callers, t \in fresh : SpawnStart(c, t)
  BY <1>1 DEF SpawnStart, IInv, TypeOK
<1>2. CASE ~ \E c \in Callers, t \in fresh : SpawnStart(c, t)
  <2>1. foreign' = foreign
    BY <1>2 DEF Next, SetZero, Unwrap, InsertNew, FirstKey, StoreMin, unblock_task, PutBack,
                Block, IdleYields, pick_next_task, TickStart, Check, Compare, TickReturns,
                set_priority, vars
  <2> QED BY <1>2, <2>1
<1> QED BY <1>1, <1>2

\* While only the owning CPU spawns, the entry it has just inserted is in the queue when it
\* asks for the first one, as nobody else takes any out: min_vruntime stays what it was set to.
LEMMA NextMinKept ==
  ASSUME HasRoom, IInv, MinKept, [Next]_vars, ~foreign'
  PROVE  MinKept'
<1> DEFINE Adds == AddSteps \cup {"first", "store"}
<1> DEFINE Unwraps == {"unwrap", "insert", "first", "store", "compare"}
<1> DEFINE Panics == {"panic", "tick_panic"}
<1>0. /\ task \in [Tasks -> Fields] /\ pc \in [Callers -> Labels] /\ Home \in Callers
      /\ arg \in [Callers -> Tasks \cup Nat \cup {None}]
      /\ \A c \in Callers : pc[c] \in AddSteps => arg[c] \in Tasks
  BY CFSAssumption DEF IInv, TypeOK
\* Steps that neither touch min_vruntime nor add_task, and take nothing out of the queue.
<1>1. ASSUME min_vruntime' = min_vruntime, arg' = arg, ready_queue \subseteq ready_queue',
             \A c \in Callers : pc'[c] = pc[c] \/ (c = Home /\ pc'[c] \notin Adds \cup Panics),
             pc'[Home] = "compare" => pc[Home] = "compare" \/ min_vruntime # None,
             \A t \in Added : task'[t].init_vruntime = task[t].init_vruntime
      PROVE  MinKept'
  <2>1. \A c \in Callers : pc'[c] \in Adds => pc'[c] = pc[c]
    BY <1>1
  <2>2. \A c \in Callers : pc[c] = "insert" => arg[c] \in Added
    BY DEF Added, AddSteps
  <2>3. \A c \in Callers : /\ pc'[c] \in Unwraps => min_vruntime' # None
                           /\ pc'[c] \notin Panics
    BY <1>0, <1>1, <2>1 DEF MinKept, AddSteps
  <2> QED BY <1>1, <2>1, <2>2, <2>3 DEF MinKept, AddSteps
<1>2. ASSUME NEW c \in Callers,
             \/ \E t \in fresh : SpawnStart(c, t)
             \/ SetZero(c) \/ Unwrap(c) \/ InsertNew(c) \/ FirstKey(c) \/ StoreMin(c)
      PROVE  MinKept'
  <2>1. c = Home
    BY <1>2, ForeignStays DEF MinKept, AddSteps, SetZero, Unwrap, InsertNew, FirstKey, StoreMin
  <2>2. \A d \in Callers \ {Home} : pc[d] \notin Adds
    BY DEF MinKept
  <2>3. pc' = [pc EXCEPT ![Home] = pc'[Home]] /\ pc'[Home] \in Labels
    BY <1>0, <1>2, <2>1 DEF SpawnStart, SetZero, Unwrap, InsertNew, FirstKey, StoreMin, Goto, Labels
  <2>4. \A d \in Callers \ {Home} : pc'[d] \notin Adds
    BY <1>0, <2>2, <2>3
  <2>5. SUFFICES /\ min_vruntime' \in {None, 0}
                 /\ pc'[Home] = "insert" => task'[arg'[Home]].init_vruntime = 0
                 /\ pc'[Home] = "first" => \E e \in ready_queue' : e.vr = 0
                 /\ pc'[Home] = "store" => arg'[Home] = 0
                 /\ pc'[Home] \in Unwraps => min_vruntime' # None
                 /\ pc'[Home] \notin Panics
                 /\ min_vruntime # None => min_vruntime' # None
    <3>1. ASSUME NEW d \in Callers \ {Home}
          PROVE  pc'[d] \notin Panics /\ (pc'[d] \in Unwraps => min_vruntime # None)
      BY <1>0, <2>3 DEF MinKept
    <3> QED BY <2>4, <3>1 DEF MinKept, AddSteps
  <2>6. CASE \E t \in fresh : SpawnStart(Home, t)
    <3>1. /\ pc'[Home] = IF min_vruntime = None THEN "set_zero" ELSE "unwrap"
          /\ min_vruntime' = min_vruntime
      BY <1>0, <2>6 DEF SpawnStart, Goto
    <3> QED BY <3>1 DEF MinKept
  <2>7. CASE SetZero(Home)
    <3>1. pc'[Home] = "unwrap" /\ min_vruntime' = 0
      BY <1>0, <2>7 DEF SetZero, Goto
    <3> QED BY <3>1, CFSAssumption
  <2>8. CASE Unwrap(Home)
    <3>1. /\ pc[Home] = "unwrap" /\ pc'[Home] = "insert" /\ arg' = arg
          /\ min_vruntime # None /\ min_vruntime' = min_vruntime /\ arg[Home] \in Tasks
      BY <1>0, <2>8 DEF Unwrap, Goto, AddSteps, MinKept
    <3>2. task'[arg[Home]].init_vruntime = 0
      <4>1. min_vruntime = 0
        BY <3>1 DEF MinKept
      <4>2. task' = [task EXCEPT ![arg[Home]].init_vruntime = min_vruntime,
                                 ![arg[Home]].id = id_pool]
        BY <2>8, <3>1 DEF Unwrap
      <4> QED BY <1>0, <3>1, <4>1, <4>2 DEF Fields
    <3> QED BY <3>1, <3>2 DEF MinKept
  <2>9. CASE InsertNew(Home)
    <3>1. /\ pc[Home] = "insert" /\ pc'[Home] = "first" /\ min_vruntime' = min_vruntime
          /\ min_vruntime # None
      BY <1>0, <2>9 DEF InsertNew, Goto, MinKept
    <3>2. task[arg[Home]].init_vruntime = 0
      BY <1>0, <3>1 DEF MinKept
    <3>3. \E e \in ready_queue' : e.vr = task[arg[Home]].init_vruntime
      BY <1>0, <2>9, InsertNewKeeps
    <3> QED BY <3>1, <3>2, <3>3 DEF MinKept
  <2>10. CASE FirstKey(Home)
    <3>1. /\ pc[Home] = "first" /\ pc'[Home] = "store" /\ min_vruntime' = min_vruntime
          /\ arg'[Home] = first_vruntime /\ min_vruntime # None
      BY <1>0, <2>10 DEF FirstKey, Goto, MinKept
    <3>2. PICK e \in ready_queue : e.vr = 0
      BY <1>0, <3>1 DEF MinKept
    <3>3. First(ready_queue) \in ready_queue /\ First(ready_queue).vr <= 0
      BY <3>2, FirstQueued
    <3>4. First(ready_queue).vr \in Nat
      BY <3>3 DEF IInv, TypeOK
    <3>5. first_vruntime = 0
      BY <3>2, <3>3, <3>4 DEF first_vruntime
    <3> QED BY <3>1, <3>5 DEF MinKept
  <2>11. CASE StoreMin(Home)
    <3>1. pc[Home] = "store" /\ pc'[Home] = "idle" /\ min_vruntime' = arg[Home]
      BY <1>0, <2>11 DEF StoreMin, Goto
    <3>2. arg[Home] = 0
      BY <1>0, <3>1 DEF MinKept
    <3> QED BY <3>1, <3>2, CFSAssumption
  <2> QED BY <1>2, <2>1, <2>6, <2>7, <2>8, <2>9, <2>10, <2>11
<1>3. ASSUME NEW c \in Callers, NEW t \in asleep, unblock_task(c, t) PROVE MinKept'
  <2>1. ready_queue \subseteq ready_queue'
    BY <1>3, UnblockKeeps
  <2>2. min_vruntime' = min_vruntime /\ arg' = arg /\ pc' = pc
    BY <1>3 DEF unblock_task, locals
  <2>3. task' = [task EXCEPT ![t].id = id_pool] /\ Added \subseteq Tasks
    BY <1>0, <1>3 DEF unblock_task, put_prev_task, Added
  <2>4. \A u \in Added : task'[u].init_vruntime = task[u].init_vruntime
    BY <1>0, <2>3 DEF Fields
  <2> QED BY <1>1, <2>1, <2>2, <2>4
<1>4. CASE PutBack
  <2>1. ready_queue \subseteq ready_queue'
    BY <1>4, PutBackKeeps
  <2>2. min_vruntime' = min_vruntime /\ arg' = arg /\ pc' = [pc EXCEPT ![Home] = "pick"]
    BY <1>4 DEF PutBack, Goto
  <2>3. task' = [task EXCEPT ![current].id = id_pool] /\ Added \subseteq Tasks
    BY <1>0, <1>4 DEF PutBack, put_prev_task, Added
  <2>4. \A u \in Added : task'[u].init_vruntime = task[u].init_vruntime
    BY <1>0, <2>3 DEF Fields
  <2>5. /\ \A c \in Callers : pc'[c] = pc[c] \/ (c = Home /\ pc'[c] \notin Adds \cup Panics)
        /\ pc'[Home] # "compare"
    BY <1>0, <2>2 DEF AddSteps
  <2> QED BY <1>1, <2>1, <2>2, <2>4, <2>5
<1>5. CASE pick_next_task
  <2>1. /\ pc[Home] = "pick" /\ pc' = [pc EXCEPT ![Home] = "idle"]
        /\ UNCHANGED <<min_vruntime, task, arg>>
    BY <1>5 DEF pick_next_task, Goto
  <2>2. \A c \in Callers : pc[c] \notin Adds /\ pc'[c] \notin Adds
    BY <1>0, <2>1 DEF MinKept, AddSteps
  <2>3. \A c \in Callers : /\ pc'[c] \notin Panics
                           /\ pc'[c] \in Unwraps => min_vruntime # None
    BY <1>0, <2>1 DEF MinKept
  <2> QED BY <2>1, <2>2, <2>3 DEF MinKept, AddSteps
<1>6. CASE Block \/ IdleYields \/ Check \/ Compare \/ TickReturns
  <2>1. UNCHANGED <<min_vruntime, arg, ready_queue, task>>
    BY <1>6 DEF Block, IdleYields, Check, Compare, TickReturns
  <2>2. \E l \in Labels \ (Adds \cup Panics) : pc' = [pc EXCEPT ![Home] = l]
    <3>1. pc[Home] = "compare" => min_vruntime # None
      BY <1>0 DEF MinKept
    <3> QED BY <1>6, <3>1 DEF Block, IdleYields, Check, Compare, TickReturns, Goto, Labels, AddSteps
  <2>3. \A c \in Callers : pc'[c] = pc[c] \/ (c = Home /\ pc'[c] \notin Adds \cup Panics)
    BY <1>0, <2>2
  <2>4. pc'[Home] = "compare" => pc[Home] = "compare" \/ min_vruntime # None
    BY <1>0, <1>6 DEF Block, IdleYields, Check, Compare, TickReturns, Goto
  <2> QED BY <1>1, <2>1, <2>3, <2>4
<1>7. CASE TickStart \/ \E nice \in Nices : set_priority(nice)
  <2>1. UNCHANGED <<min_vruntime, arg, ready_queue>> /\ current \in Tasks /\ pc[Home] = "idle"
    BY <1>7 DEF TickStart, set_priority, locals, IInv, TypeOK
  <2>2. /\ \A c \in Callers : pc'[c] = pc[c] \/ (c = Home /\ pc'[c] \notin Adds \cup Panics)
        /\ pc'[Home] = "compare" => pc[Home] = "compare"
    <3>1. CASE TickStart
      BY <1>0, <3>1 DEF TickStart, Goto, AddSteps
    <3>2. CASE \E nice \in Nices : set_priority(nice)
      BY <3>2 DEF set_priority, locals
    <3> QED BY <1>7, <3>1, <3>2
  <2>3. \E f : task' = [task EXCEPT ![current] = f]
    BY <1>7 DEF TickStart, set_priority
  <2>4. current \notin Added
    BY <2>1, CFSAssumption DEF IInv, PlaceInv, Running, TickStart
  <2>5. \A u \in Added : task'[u] = task[u]
    BY <1>0, <2>3, <2>4 DEF Added
  <2> QED BY <1>1, <2>1, <2>2, <2>5
<1>8. CASE UNCHANGED vars
  BY <1>1, <1>8 DEF vars
<1> QED BY <1>2, <1>3, <1>4, <1>5, <1>6, <1>7, <1>8 DEF Next

LEMMA NextMinInv == HasRoom /\ IInv /\ MinInv /\ [Next]_vars => MinInv'
BY NextMinKept, ForeignStays DEF MinInv

LEMMA InitMinInv == Init => MinInv
BY CFSAssumption DEF Init, MinInv, MinKept, AddSteps

\* The current task is one of the tasks while task_tick works on it.
TickingTask == pc[Home] \in {"check", "compare"} => current \in Tasks

LEMMA InitTickingTask == Init => TickingTask
BY CFSAssumption DEF Init, TickingTask

LEMMA NextTickingTask == IInv /\ TickingTask /\ [Next]_vars => TickingTask'
<1> SUFFICES ASSUME IInv, TickingTask, [Next]_vars PROVE TickingTask'
  OBVIOUS
<1>0. pc \in [Callers -> Labels] /\ Home \in Callers
  BY CFSAssumption DEF IInv, TypeOK
<1> USE DEF TickingTask
<1>1. ASSUME NEW c \in Callers,
             \/ \E t \in fresh : SpawnStart(c, t)
             \/ SetZero(c) \/ Unwrap(c) \/ InsertNew(c) \/ FirstKey(c) \/ StoreMin(c)
      PROVE  TickingTask'
  <2>1. current' = current /\ \E l \in Labels \ {"check", "compare"} : pc' = [pc EXCEPT ![c] = l]
    BY <1>1 DEF SpawnStart, SetZero, Unwrap, InsertNew, FirstKey, StoreMin, Goto, Labels
  <2> QED BY <1>0, <2>1
<1>2. CASE \E c \in Callers : \E t \in asleep : unblock_task(c, t)
  BY <1>2 DEF unblock_task, locals
<1>3. CASE PutBack \/ Block \/ IdleYields \/ pick_next_task \/ TickReturns \/ Compare
  <2>1. \E l \in Labels \ {"check", "compare"} : pc' = [pc EXCEPT ![Home] = l]
    BY <1>3 DEF PutBack, Block, IdleYields, pick_next_task, TickReturns, Compare, Goto, Labels
  <2> QED BY <1>0, <2>1
<1>4. CASE TickStart \/ Check
  <2>1. current' = current /\ current \in Tasks
    BY <1>4 DEF TickStart, Check, IInv, TypeOK
  <2> QED BY <2>1
<1>5. CASE (\E nice \in Nices : set_priority(nice)) \/ UNCHANGED vars
  BY <1>5 DEF set_priority, locals, vars
<1> QED BY <1>1, <1>2, <1>3, <1>4, <1>5 DEF Next

TickStep ==
  Decides("tick_false") /\ ~foreign =>
    \A e \in ready_queue : vruntime_of(task'[current]) <= e.vr

LEMMA NextTickStep == IInv /\ MinInv /\ TickingTask /\ [Next]_vars => TickStep
<1> SUFFICES ASSUME IInv, MinInv, TickingTask, [Next]_vars, Decides("tick_false"), ~foreign
             PROVE  \A e \in ready_queue : vruntime_of(task'[current]) <= e.vr
  BY DEF TickStep
<1>0. pc \in [Callers -> Labels] /\ Home \in Callers
  BY CFSAssumption DEF IInv, TypeOK
<1>1. (TickStart /\ ready_queue = {}) \/ Compare
  <2>1. pc'[Home] = "tick_false" /\ pc[Home] # "tick_false"
    BY DEF Decides
  <2>2. ASSUME NEW c \in Callers,
               \/ \E t \in fresh : SpawnStart(c, t)
               \/ SetZero(c) \/ Unwrap(c) \/ InsertNew(c) \/ FirstKey(c) \/ StoreMin(c)
        PROVE  FALSE
    <3>1. \E l \in Labels \ {"tick_false"} : pc' = [pc EXCEPT ![c] = l]
      BY <2>2 DEF SpawnStart, SetZero, Unwrap, InsertNew, FirstKey, StoreMin, Goto, Labels
    <3> QED BY <1>0, <2>1, <3>1
  <2>3. ASSUME PutBack \/ Block \/ IdleYields \/ pick_next_task \/ TickReturns \/ Check
               \/ (TickStart /\ ready_queue # {})
        PROVE  FALSE
    <3>1. \E l \in Labels \ {"tick_false"} : pc' = [pc EXCEPT ![Home] = l]
      BY <2>3
         DEF PutBack, Block, IdleYields, pick_next_task, TickReturns, Check, TickStart, Goto, Labels
    <3> QED BY <1>0, <2>1, <3>1
  <2>4. ASSUME pc' = pc PROVE FALSE
    BY <2>1, <2>4
  <2> QED BY <2>2, <2>3, <2>4 DEF Next, unblock_task, set_priority, locals, vars
<1>2. CASE TickStart /\ ready_queue = {}
  BY <1>2
<1>3. CASE Compare
  <2>1. /\ pc[Home] = "compare" /\ task' = task /\ current \in Tasks
        /\ min_vruntime # None /\ ~(get_vruntime(current) > min_vruntime)
    BY <1>0, <1>3 DEF Compare, Goto, Decides, TickingTask
  <2>2. min_vruntime = 0 /\ get_vruntime(current) \in Nat
    BY <2>1, VruntimeSteps DEF MinInv, MinKept, IInv, TypeOK, get_vruntime
  <2>3. \A e \in ready_queue : e.vr \in Nat
    BY DEF IInv, TypeOK
  <2>4. get_vruntime(current) = 0
    BY <2>1, <2>2
  <2> QED BY <2>1, <2>3, <2>4 DEF get_vruntime
<1> QED BY <1>1, <1>2, <1>3

\* As long as no other CPU has spawned into the queue, and there is a slot for every task,
\* task_tick never answers that the current task may run on while a queued one is ahead of
\* it, though picks and put_prev_task leave min_vruntime alone.
THEOREM TickSeesAll == HasRoom => (Spec => TickSeesFirst)
<1> SUFFICES ASSUME HasRoom PROVE Spec => TickSeesFirst
  OBVIOUS
<1>1. IInv /\ MinInv /\ [Next]_vars => MinInv'
  BY NextMinInv
<1>2. Spec => [][TickStep]_vars
  <2>1. IInv /\ MinInv /\ TickingTask /\ [Next]_vars => [TickStep]_vars
    BY NextTickStep
  <2> QED BY <1>1, <2>1, InitMinInv, InitTickingTask, NextTickingTask, CFSInvariance, PTL DEF Spec
<1> QED BY <1>2 DEF TickSeesFirst, TickStep

\* Under the same conditions no unwrap of min_vruntime, in add_task or in task_tick, panics:
\* what the check for None has found set is not unset before it is read again.
THEOREM UnwrapsSucceed == HasRoom => (Spec => []UnwrapSucceeds)
<1> SUFFICES ASSUME HasRoom PROVE Spec => []UnwrapSucceeds
  OBVIOUS
<1>1. IInv /\ MinInv /\ [Next]_vars => MinInv'
  BY NextMinInv
<1>2. MinInv => UnwrapSucceeds
  BY DEF MinInv, MinKept, UnwrapSucceeds
<1> QED BY <1>1, <1>2, InitMinInv, CFSInvariance, PTL DEF Spec
=============================================================================

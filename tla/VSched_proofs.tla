---------------------------- MODULE VSched_proofs -----------------------------
(***************************************************************************)
(* Proofs about VSched: IInv is an invariant for any CPUs, tasks, queues   *)
(* and capacity, and what follows from it.  The steps fall into a few      *)
(* kinds, each with a lemma of its own: a CPU moves inside the library     *)
(* (LocalMove), a task gives up its CPU (GiveUp), a CPU takes a task       *)
(* (Dispatch), a task enters a ready queue (EnqueueReady) or a wait queue  *)
(* (AppendQueue) or is taken off one (TakeOutFacts); a lemma per action   *)
(* puts them together.                                                     *)
(***************************************************************************)
EXTENDS VSched, TLAPS

\* What Append does to the elements of a sequence.
LEMMA AppendFacts ==
    ASSUME NEW S, NEW s \in Seq(S), NEW x \in S
    PROVE  /\ Append(s, x) \in Seq(S)
           /\ Len(s) \in Nat
           /\ Len(Append(s, x)) = Len(s) + 1
           /\ \A i \in 1..Len(s) : Append(s, x)[i] = s[i]
           /\ Append(s, x)[Len(s) + 1] = x
  OBVIOUS

\* What Tail does to the elements of a non-empty sequence.
LEMMA TailFacts ==
    ASSUME NEW S, NEW s \in Seq(S), s # <<>>
    PROVE  /\ Tail(s) \in Seq(S)
           /\ Len(s) \in Nat \ {0}
           /\ Len(Tail(s)) = Len(s) - 1
           /\ \A i \in 1..Len(Tail(s)) : i + 1 \in 1..Len(s) /\ Tail(s)[i] = s[i + 1]
           /\ Head(s) = s[1]
           /\ Head(s) \in S
  OBVIOUS

\* What a sequence holds that is cut in two.
LEMMA CutFacts ==
    ASSUME NEW S, NEW s \in Seq(S), NEW n \in 1..Len(s)
    PROVE  /\ SubSeq(s, 1, n) \in Seq(S) /\ SubSeq(s, n + 1, Len(s)) \in Seq(S)
           /\ Len(s) \in Nat /\ n \in Nat
           /\ Len(SubSeq(s, 1, n)) = n /\ Len(SubSeq(s, n + 1, Len(s))) = Len(s) - n
           /\ \A i \in 1..n : SubSeq(s, 1, n)[i] = s[i]
           /\ \A i \in 1..(Len(s) - n) : SubSeq(s, n + 1, Len(s))[i] = s[i + n]
  OBVIOUS

\* What the concatenation of two sequences holds.
LEMMA ConcatFacts ==
    ASSUME NEW S, NEW s \in Seq(S), NEW t \in Seq(S)
    PROVE  /\ s \o t \in Seq(S)
           /\ Len(s) \in Nat /\ Len(t) \in Nat
           /\ Len(s \o t) = Len(s) + Len(t)
           /\ \A i \in 1..Len(s) : (s \o t)[i] = s[i]
           /\ \A i \in 1..Len(t) : (s \o t)[i + Len(s)] = t[i]
           /\ \A i \in 1..Len(s \o t) :
                 (i \in 1..Len(s) /\ (s \o t)[i] = s[i])
                 \/ (i - Len(s) \in 1..Len(t) /\ (s \o t)[i] = t[i - Len(s)])
  OBVIOUS

\* What a sequence without its n-th element holds.
LEMMA RemoveFacts ==
    ASSUME NEW S, NEW s \in Seq(S), NEW n \in 1..Len(s)
    PROVE  /\ Without(s, n) \in Seq(S)
           /\ Len(s) \in Nat \ {0} /\ n \in Nat
           /\ Len(Without(s, n)) = Len(s) - 1
           /\ \A i \in 1..(n - 1) : Without(s, n)[i] = s[i]
           /\ \A i \in n..(Len(s) - 1) : Without(s, n)[i] = s[i + 1]
  <1> DEFINE u == SubSeq(s, 1, n - 1)
             v == SubSeq(s, n + 1, Len(s))
  <1>1. Len(s) \in Nat \ {0} /\ n \in Nat /\ 1 <= n /\ n <= Len(s)
    OBVIOUS
  <1>2. u \in Seq(S) /\ Len(u) = n - 1 /\ \A i \in 1..(n - 1) : u[i] = s[i]
    OBVIOUS
  <1>3. v \in Seq(S) /\ Len(v) = Len(s) - n /\ \A i \in 1..(Len(s) - n) : v[i] = s[i + n]
    OBVIOUS
  <1>4. Without(s, n) = u \o v
    BY DEF Without
  <1> HIDE DEF u, v
  <1>5. /\ u \o v \in Seq(S)
        /\ Len(u \o v) = Len(u) + Len(v)
        /\ \A i \in 1..Len(u) : (u \o v)[i] = u[i]
        /\ \A i \in 1..Len(v) : (u \o v)[i + Len(u)] = v[i]
    <2>1. u \in Seq(S) /\ v \in Seq(S)
      BY <1>2, <1>3
    <2> QED BY ONLY <2>1, ConcatFacts
  <1>6. Len(u \o v) = Len(s) - 1
    BY <1>1, <1>2, <1>3, <1>5
  <1>7. \A i \in 1..(n - 1) : (u \o v)[i] = s[i]
    BY <1>2, <1>5
  <1>8. ASSUME NEW i \in n..(Len(s) - 1) PROVE (u \o v)[i] = s[i + 1]
    <2> DEFINE j == i - (n - 1)
    <2>1. j \in 1..Len(v) /\ j + Len(u) = i /\ j + n = i + 1
      BY <1>1, <1>2, <1>3
    <2> HIDE DEF j
    <2> QED BY <1>3, <1>5, <2>1
  <1> QED BY <1>1, <1>4, <1>5, <1>6, <1>7, <1>8

\* An enqueue keeps the elements and adds at most one, at the end.
LEMMA EnqueueFacts ==
    ASSUME NEW s \in Seq(Tasks), NEW t \in Tasks
    PROVE  /\ Enqueue(s, t) \in Seq(Tasks)
           /\ Len(s) \in Nat
           /\ Len(Enqueue(s, t)) \in {Len(s), Len(s) + 1}
           /\ \A i \in 1..Len(s) : Enqueue(s, t)[i] = s[i]
           /\ \A i \in 1..Len(Enqueue(s, t)) : i \in 1..Len(s) \/ (i = Len(s) + 1 /\ Enqueue(s, t)[i] = t)
  BY AppendFacts DEF Enqueue

\* The queues are places; those of wakers are the WakerQueues.
LEMMA PlaceFacts ==
    /\ Queues \subseteq Places /\ Hands \subseteq Places
    /\ TaskPlaces \subseteq Places /\ WakerPlaces \subseteq Places
    /\ \A p \in Places : p \in TaskPlaces <=> p \notin WakerPlaces
    /\ \A q \in Queues : q \notin Hands /\ (q \in WakerPlaces <=> q \in WakerQueues)
  <1>1. WakerPlaces \subseteq Places
    BY DEF WakerPlaces, Places, Queues, Hands
  <1>2. CPUs \X {"wakers"} \subseteq Hands
    BY DEF Hands
  <1> QED BY <1>1, <1>2, QueueAssumption DEF WakerPlaces, TaskPlaces, Places

\* The boot state satisfies the invariant.
LEMMA InitIInv == Init => IInv
  <1> SUFFICES ASSUME Init PROVE IInv OBVIOUS
  <1> USE TaskAssumption DEF Init
  <1>1. TypeOK
    BY CpuAssumption DEF TypeOK, States, Frames, NoFrame, Ops, Labels, MaxReleases, BootTask, BootTasks, IdleTasks, Queues
  <1>2. CpuInv
    BY DEF CpuInv, Own, OwnAt, NoFrame, BootTask, BootTasks, IdleTasks
  <1>3. FrameInv
    BY DEF FrameInv, TargetFits, NoFrame
  <1>4. ReadyInv
    BY DEF ReadyInv
  <1>5. QueueInv
    BY PlaceFacts DEF QueueInv, HandInv
  <1>6. IdleInv
    BY DEF IdleInv, NoFrame, BootTask, BootTasks, IdleTasks
  <1>7. InWaitQueueExact
    BY PlaceFacts DEF InWaitQueueExact, InQueue
  <1> QED BY <1>1, <1>2, <1>3, <1>4, <1>5, <1>6, <1>7 DEF IInv

\* A step that changes at most the mode keeps the invariant.
LEMMA NothingMoves ==
    ASSUME IInv, UNCHANGED <<taskVars, cpuVars, queueVars, pc>>, mode' \in {"up", "exited", "wild"}
    PROVE  IInv'
  <1> USE DEF IInv, taskVars, cpuVars, queueVars
  <1>1. TypeOK' BY DEF TypeOK
  <1>2. CpuInv' BY DEF CpuInv, Own, OwnAt
  <1>3. FrameInv' BY DEF FrameInv
  <1>4. ReadyInv' BY DEF ReadyInv
  <1>5. QueueInv' BY DEF QueueInv, HandInv
  <1>6. IdleInv' BY DEF IdleInv
  <1>7. InWaitQueueExact' BY DEF InWaitQueueExact, InQueue
  <1> QED BY <1>1, <1>2, <1>3, <1>4, <1>5, <1>6, <1>7 DEF IInv

\* The call f fits the label at which CPU c goes on with the task it has.
FrameFits(c, label, f) ==
    /\ OwnAt(label, f) <=> Own(c)
    /\ f.op = "exit" => state[current[c]] = "Exited"
    /\ TargetFits(current[c], f)
    /\ label = "store" => f.op = "exit"
    /\ label \in {"cond", "block"} => f.op \in {"join", "wait_until"}
    /\ label = "cancel" => f.op \in {"wait", "join", "wait_until"}
    /\ label = "requeue" => f.op = "requeue"
    /\ label \in {"store", "notify", "spin"} =>
          f.q \in Queues /\ f.op \in {"exit", "notify_one", "notify_all"}
    /\ current[c] \in IdleTasks =>
          /\ label \in {"run", "resched", "switch", "resume", "reap"}
          /\ f.op \in {"none", "yield"}

\* CPU c moves to another label, or into or out of a call, while its task keeps the CPU.
LEMMA LocalMove ==
    ASSUME IInv, NEW c \in CPUs, NEW label \in Labels, NEW f \in Frames,
           pc' = [pc EXCEPT ![c] = label],
           frame' = [frame EXCEPT ![current[c]] = f],
           UNCHANGED <<state, current, spawned>>,
           FrameFits(c, label, f)
    PROVE  /\ CpuInv' /\ FrameInv' /\ IdleInv'
           /\ UNCHANGED <<rq, waking>> /\ pc[c] # "spin" /\ label # "spin" => ReadyInv'
           /\ UNCHANGED queue /\ pc[c] \notin {"pended", "requeue"} => QueueInv'
  <1>1. /\ \A d \in CPUs : pc'[d] = IF d = c THEN label ELSE pc[d]
        /\ \A t \in Tasks : frame'[t] = IF t = current[c] THEN f ELSE frame[t]
        /\ current \in [CPUs -> Tasks]
        /\ \A d \in CPUs : current[d] = current[c] => d = c
    BY DEF IInv, TypeOK, CpuInv
  <1>2. CpuInv'
    BY <1>1 DEF IInv, CpuInv, FrameFits, Own
  <1>3. FrameInv'
    BY <1>1 DEF IInv, FrameInv, FrameFits, TargetFits
  <1>4. ASSUME UNCHANGED <<rq, waking>>, pc[c] # "spin", label # "spin" PROVE ReadyInv'
    BY <1>1, <1>4 DEF IInv, ReadyInv
  <1>5. ASSUME UNCHANGED queue, pc[c] \notin {"pended", "requeue"} PROVE QueueInv'
    <2>1. HandInv'
      BY <1>1, <1>5 DEF IInv, QueueInv, HandInv, HandOf
    <2>2. \A d \in CPUs : pc[d] = "pended" => pc'[d] = "pended"
      BY <1>1, <1>5
    <2> QED BY <1>5, <2>1, <2>2 DEF IInv, QueueInv
  <1>6. IdleInv'
    BY <1>1 DEF IInv, IdleInv, FrameFits
  <1> QED BY <1>2, <1>3, <1>4, <1>5, <1>6

\* CPU c leaves the code of its current task, which becomes Ready, Blocked or Exited.
LEMMA GiveUp ==
    ASSUME IInv, NEW c \in CPUs, NEW s \in {"Ready", "Blocked", "Exited"},
           NEW label \in {"resched", "store"}, NEW f \in Frames,
           pc[c] \in {"run", "cond", "block", "pended"},
           pc' = [pc EXCEPT ![c] = label],
           frame' = [frame EXCEPT ![current[c]] = f],
           state' = [state EXCEPT ![current[c]] = s],
           UNCHANGED <<current, spawned, waking>>,
           s = "Exited" <=> f.op = "exit",
           TargetFits(current[c], f),
           label = "store" => f.op = "exit" /\ f.q \in Queues,
           current[c] \in IdleTasks => s = "Ready" /\ label = "resched" /\ f.op = "yield"
    PROVE  /\ CpuInv' /\ FrameInv' /\ IdleInv'
           /\ state[current[c]] = "Running"
           /\ UNCHANGED rq => ReadyInv'
           /\ UNCHANGED queue /\ (pc[c] = "pended" => s = "Blocked") => QueueInv'
  <1>1. /\ \A d \in CPUs : pc'[d] = IF d = c THEN label ELSE pc[d]
        /\ \A t \in Tasks : frame'[t] = IF t = current[c] THEN f ELSE frame[t]
        /\ \A t \in Tasks : state'[t] = IF t = current[c] THEN s ELSE state[t]
        /\ current \in [CPUs -> Tasks]
        /\ \A d \in CPUs : current[d] = current[c] => d = c
        /\ state[current[c]] = "Running"
    BY DEF IInv, TypeOK, CpuInv, Own, OwnAt
  <1>2. CpuInv'
    BY <1>1 DEF IInv, CpuInv, Own, OwnAt
  <1>3. FrameInv'
    BY <1>1 DEF IInv, FrameInv, TargetFits
  <1>4. ASSUME UNCHANGED rq PROVE ReadyInv'
    <2>1. \A t \in Tasks : state[t] = "Ready" => state'[t] = "Ready"
      BY <1>1
    <2>2. \A d \in CPUs : pc'[d] = "spin" <=> pc[d] = "spin"
      BY <1>1
    <2>3. spawned \subseteq Tasks
      BY DEF IInv, TypeOK
    <2> QED BY <1>4, <2>1, <2>2, <2>3 DEF IInv, ReadyInv
  <1>5. ASSUME UNCHANGED queue, pc[c] = "pended" => s = "Blocked" PROVE QueueInv'
    <2>1. ASSUME NEW q \in Places, NEW i \in 1..Len(queue[q])
          PROVE  \/ state'[queue[q][i]] = "Blocked"
                 \/ q \in WakerPlaces /\ \E d \in CPUs : current[d] = queue[q][i] /\ pc'[d] = "pended"
      <3>1. queue[q][i] \in Tasks
        BY DEF IInv, TypeOK
      <3>2. CASE queue[q][i] = current[c]
        BY <1>1, <1>5, <3>1, <3>2 DEF IInv, QueueInv
      <3>3. CASE queue[q][i] # current[c]
        BY <1>1, <3>1, <3>3 DEF IInv, QueueInv
      <3> QED BY <3>2, <3>3
    <2>2. HandInv'
      BY <1>1, <1>5 DEF IInv, QueueInv, HandInv, HandOf
    <2> QED BY <1>5, <2>1, <2>2 DEF IInv, QueueInv
  <1>6. IdleInv'
    BY <1>1, TaskAssumption DEF IInv, IdleInv, IdleTasks, TypeOK
  <1> QED BY <1>1, <1>2, <1>3, <1>4, <1>5, <1>6

\* The picked task is Ready, and neither being woken nor in a wait queue.
LEMMA NextTaskFacts ==
    ASSUME IInv, NEW c \in CPUs, pc[c] = "resched"
    PROVE  /\ NextTask(c) \in spawned
           /\ NextTask(c) \in Tasks
           /\ state[NextTask(c)] = "Ready"
           /\ NextTask(c) \in IdleTasks => NextTask(c) = idle_task[c]
           /\ \A d \in CPUs : waking[d] # NextTask(c)
           /\ \A q \in Places : \A i \in 1..Len(queue[q]) : queue[q][i] # NextTask(c)
  <1>1. CASE rq[c] = <<>>
    <2>1. NextTask(c) = idle_task[c] /\ idle_task[c] \in IdleTasks /\ idle_task[c] \in Tasks
      BY <1>1, TaskAssumption DEF NextTask, IdleTasks
    <2>2. state[idle_task[c]] = "Ready"
      BY <2>1 DEF IInv, CpuInv, IdleInv, Own, OwnAt
    <2>3. \A d \in CPUs : waking[d] # idle_task[c]
      BY <2>1, TaskAssumption DEF IInv, ReadyInv
    <2>4. \A q \in Places : \A i \in 1..Len(queue[q]) : queue[q][i] # idle_task[c]
      BY <2>1 DEF IInv, QueueInv
    <2> QED BY <2>1, <2>2, <2>3, <2>4 DEF IInv, IdleInv
  <1>2. CASE rq[c] # <<>>
    <2>1. NextTask(c) = rq[c][1] /\ 1 \in 1..Len(rq[c])
      BY <1>2, TailFacts DEF NextTask, IInv, TypeOK
    <2>2. rq[c][1] \in spawned \ IdleTasks /\ state[rq[c][1]] = "Ready" /\ rq[c][1] \in Tasks
      BY <2>1 DEF IInv, ReadyInv, TypeOK
    <2>3. \A d \in CPUs : waking[d] # rq[c][1]
      BY <2>1 DEF IInv, ReadyInv
    <2>4. \A q \in Places : \A i \in 1..Len(queue[q]) : queue[q][i] # rq[c][1]
      BY <2>2 DEF IInv, QueueInv, CpuInv, Own, OwnAt
    <2> QED BY <2>1, <2>2, <2>3, <2>4
  <1> QED BY <1>1, <1>2

\* CPU c takes the picked task as its current task.
LEMMA Dispatch ==
    ASSUME IInv, NEW c \in CPUs, pc[c] = "resched",
           NEW label \in {"run", "cond", "cancel", "switch", "resume"}, NEW f \in Frames,
           Pick(c),
           \A d \in CPUs \ {c} : current[d] # NextTask(c),
           current' = [current EXCEPT ![c] = NextTask(c)],
           pc' = [pc EXCEPT ![c] = label],
           frame' = [frame EXCEPT ![NextTask(c)] = f],
           UNCHANGED <<spawned, waking, queue>>,
           f.op # "exit",
           TargetFits(NextTask(c), f),
           label = "cond" => f.op \in {"join", "wait_until"},
           label = "cancel" => f.op \in {"wait", "join", "wait_until"},
           NextTask(c) \in IdleTasks =>
               label \in {"run", "switch", "resume"} /\ f.op \in {"none", "yield"}
    PROVE  CpuInv' /\ FrameInv' /\ ReadyInv' /\ QueueInv' /\ IdleInv'
  <1> DEFINE n == NextTask(c)
  <1>0. /\ n \in spawned /\ n \in Tasks /\ state[n] = "Ready"
        /\ n \in IdleTasks => n = idle_task[c]
        /\ \A d \in CPUs : waking[d] # n
        /\ \A q \in Places : \A i \in 1..Len(queue[q]) : queue[q][i] # n
    BY NextTaskFacts
  <1>1. /\ \A d \in CPUs : pc'[d] = IF d = c THEN label ELSE pc[d]
        /\ \A t \in Tasks : frame'[t] = IF t = n THEN f ELSE frame[t]
        /\ \A t \in Tasks : state'[t] = IF t = n THEN "Running" ELSE state[t]
        /\ \A d \in CPUs : current'[d] = IF d = c THEN n ELSE current[d]
        /\ current \in [CPUs -> Tasks]
        /\ \A d \in CPUs \ {c} : current[d] # n
    BY DEF IInv, TypeOK, Pick
  <1> HIDE DEF n
  <1>2. CpuInv'
    BY <1>0, <1>1 DEF IInv, CpuInv, Own, OwnAt
  <1>3. FrameInv'
    BY <1>0, <1>1 DEF IInv, FrameInv, TargetFits
  <1>4. ReadyInv'
    <2>1. \A d \in CPUs : rq'[d] \in Seq(Tasks)
      BY TailFacts DEF IInv, TypeOK, Pick
    <2>2. \A d \in CPUs \ {c} : rq'[d] = rq[d]
      BY DEF IInv, TypeOK, Pick
    <2>3. \A i \in 1..Len(rq'[c]) : i + 1 \in 1..Len(rq[c]) /\ rq'[c][i] = rq[c][i + 1] /\ rq'[c][i] # n
      BY TailFacts DEF IInv, TypeOK, Pick, ReadyInv, NextTask, n
    <2>4. \A d \in CPUs \ {c} : \A i \in 1..Len(rq[d]) : rq[d][i] # n
      <3>1. CASE rq[c] = <<>>
        BY <3>1, TaskAssumption DEF IInv, ReadyInv, NextTask, IdleTasks, n
      <3>2. CASE rq[c] # <<>>
        <4>1. n = rq[c][1] /\ 1 \in 1..Len(rq[c])
          BY <3>2, TailFacts DEF IInv, TypeOK, NextTask, n
        <4> QED BY <4>1 DEF IInv, ReadyInv
      <3> QED BY <3>1, <3>2
    <2>5. \A d \in CPUs : \A i \in 1..Len(rq'[d]) :
             /\ rq'[d][i] \in spawned \ IdleTasks
             /\ rq'[d][i] # n
             /\ state[rq'[d][i]] = "Ready"
             /\ \A e \in CPUs : waking[e] # rq'[d][i]
      BY <2>2, <2>3, <2>4 DEF IInv, ReadyInv
    <2>6. \A d, e \in CPUs : \A i \in 1..Len(rq'[d]), j \in 1..Len(rq'[e]) :
             rq'[d][i] = rq'[e][j] => d = e /\ i = j
      <3> SUFFICES ASSUME NEW d \in CPUs, NEW e \in CPUs, NEW i \in 1..Len(rq'[d]),
                          NEW j \in 1..Len(rq'[e]), rq'[d][i] = rq'[e][j]
                   PROVE  d = e /\ i = j
        OBVIOUS
      <3>1. PICK ii \in 1..Len(rq[d]) : rq'[d][i] = rq[d][ii] /\ ii = IF d = c THEN i + 1 ELSE i
        BY <2>2, <2>3
      <3>2. PICK jj \in 1..Len(rq[e]) : rq'[e][j] = rq[e][jj] /\ jj = IF e = c THEN j + 1 ELSE j
        BY <2>2, <2>3
      <3>3. \A k \in 1..Len(rq[d]), m \in 1..Len(rq[e]) : rq[d][k] = rq[e][m] => d = e /\ k = m
        BY DEF IInv, ReadyInv
      <3>4. d = e /\ ii = jj
        BY <3>1, <3>2, <3>3
      <3> QED BY <3>1, <3>2, <3>4, <2>1
    <2>7. \A t \in Tasks : state'[t] = "Ready" <=> t # n /\ state[t] = "Ready"
      BY <1>1
    <2>8. /\ \A d \in CPUs : waking[d] # None => waking[d] \in Tasks /\ waking[d] # n
          /\ \A d \in CPUs : \A i \in 1..Len(rq'[d]) : rq'[d][i] \in Tasks
      BY <1>0, <2>1 DEF IInv, TypeOK
    <2> QED BY <1>1, <2>5, <2>6, <2>7, <2>8 DEF IInv, ReadyInv
  <1>5. QueueInv'
    <2>1. ASSUME NEW q \in Places, NEW i \in 1..Len(queue[q])
          PROVE  \/ state'[queue[q][i]] = "Blocked"
                 \/ q \in WakerPlaces /\ \E d \in CPUs : current'[d] = queue[q][i] /\ pc'[d] = "pended"
      <3>1. queue[q][i] \in Tasks /\ queue[q][i] # n
        BY <1>0 DEF IInv, TypeOK
      <3> QED BY <1>1, <3>1 DEF IInv, QueueInv
    <2>2. HandInv'
      BY <1>1 DEF IInv, QueueInv, HandInv, HandOf
    <2> QED BY <2>1, <2>2 DEF IInv, QueueInv
  <1>6. IdleInv'
    <2>1. /\ \A d \in CPUs : idle_task[d] \in IdleTasks
          /\ IdleTasks \subseteq Tasks
      BY TaskAssumption DEF IdleTasks
    <2>2. /\ IdleTasks \cup {Main} \subseteq spawned
          /\ \A d \in CPUs : state[idle_task[d]] \in {"Ready", "Running"}
          /\ \A d, e \in CPUs : current[d] = idle_task[e] => d = e
          /\ \A d \in CPUs : current[d] \in IdleTasks =>
                pc[d] \in {"run", "resched", "switch", "resume", "reap"}
          /\ \A t \in IdleTasks : frame[t].op \in {"none", "yield"}
          /\ \A t \in Tasks \ spawned : state[t] = "Ready"
      BY DEF IInv, IdleInv
    <2>3. \A d \in CPUs : state'[idle_task[d]] \in {"Ready", "Running"}
      BY <1>1, <2>1, <2>2
    <2>4. \A d, e \in CPUs : current'[d] = idle_task[e] => d = e
      BY <1>0, <1>1, <2>1, <2>2, TaskAssumption
    <2>5. \A d \in CPUs : current'[d] \in IdleTasks =>
                pc'[d] \in {"run", "resched", "switch", "resume", "reap"}
      BY <1>1, <2>2 DEF n
    <2>6. \A t \in IdleTasks : frame'[t].op \in {"none", "yield"}
      BY <1>1, <2>1, <2>2 DEF n
    <2>7. \A t \in Tasks \ spawned : state'[t] = "Ready"
      BY <1>0, <1>1, <2>2
    <2> QED BY <2>2, <2>3, <2>4, <2>5, <2>6, <2>7 DEF IdleInv
  <1> QED BY <1>2, <1>3, <1>4, <1>5, <1>6

\* InWaitQueueExact depends only on the queues and the flags.
LEMMA SameQueues ==
    ASSUME IInv, UNCHANGED <<queue, in_wait_queue>>
    PROVE  InWaitQueueExact'
  BY DEF IInv, InWaitQueueExact, InQueue

\* A step that is not part of a requeue leaves the hands alone.
LEMMA HandsKept ==
    ASSUME IInv, NEW c \in CPUs, pc[c] # "requeue",
           \A d \in CPUs \ {c} : pc'[d] = pc[d] /\ current'[d] = current[d],
           \A t \in Tasks \ {current[c]} : frame'[t] = frame[t],
           \A h \in Hands : queue'[h] = queue[h]
    PROVE  HandInv'
  <1> SUFFICES ASSUME NEW d \in CPUs, NEW h \in Hands, h[1] = d, queue'[h] # <<>>
               PROVE  pc'[d] = "requeue" /\ h = HandOf(d, frame'[current'[d]].q)
    BY DEF HandInv, HandOf
  <1>1. queue[h] # <<>>
    OBVIOUS
  <1>2. pc[d] = "requeue" /\ h = HandOf(d, frame[current[d]].q)
    BY <1>1 DEF IInv, QueueInv, HandInv
  <1>3. d # c /\ current[d] # current[c] /\ current[d] \in Tasks
    BY <1>2 DEF IInv, CpuInv, TypeOK
  <1> QED BY <1>2, <1>3

\* The current task of a CPU enters a queue it was in no queue before.
LEMMA AppendQueue ==
    ASSUME IInv, NEW c \in CPUs, NEW q \in Places,
           pc[c] \in {"run", "cond", "block"},
           queue' = [queue EXCEPT ![q] = Append(@, current[c])]
    PROVE  /\ queue' \in [Places -> Seq(Tasks)]
           /\ \A p \in Places : \A i \in 1..Len(queue[p]) :
                 queue[p][i] # current[c] /\ i \in 1..Len(queue'[p]) /\ queue'[p][i] = queue[p][i]
           /\ \A p \in Places : \A i \in 1..Len(queue'[p]) :
                 \/ i \in 1..Len(queue[p]) /\ queue'[p][i] = queue[p][i]
                 \/ p = q /\ i = Len(queue[q]) + 1 /\ queue'[p][i] = current[c]
           /\ Len(queue[q]) + 1 \in 1..Len(queue'[q]) /\ queue'[q][Len(queue[q]) + 1] = current[c]
  <1>1. /\ current[c] \in Tasks /\ state[current[c]] = "Running"
        /\ queue \in [Places -> Seq(Tasks)]
        /\ \A d \in CPUs : current[d] = current[c] => pc[d] # "pended"
    BY DEF IInv, TypeOK, CpuInv, Own, OwnAt
  <1>2. \A p \in Places : \A i \in 1..Len(queue[p]) : queue[p][i] # current[c]
    BY <1>1 DEF IInv, QueueInv
  <1>3. /\ queue'[q] = Append(queue[q], current[c])
        /\ \A p \in Places : p # q => queue'[p] = queue[p]
        /\ queue[q] \in Seq(Tasks)
    BY <1>1
  <1>4. /\ queue'[q] \in Seq(Tasks)
        /\ Len(queue[q]) \in Nat
        /\ Len(queue'[q]) = Len(queue[q]) + 1
        /\ \A i \in 1..Len(queue[q]) : queue'[q][i] = queue[q][i]
        /\ queue'[q][Len(queue[q]) + 1] = current[c]
    BY <1>1, <1>3, AppendFacts
  <1>5. queue' \in [Places -> Seq(Tasks)]
    BY <1>1, <1>3, <1>4
  <1>6. \A p \in Places : \A i \in 1..Len(queue[p]) :
            i \in 1..Len(queue'[p]) /\ queue'[p][i] = queue[p][i]
    BY <1>3, <1>4
  <1>7. \A p \in Places : \A i \in 1..Len(queue'[p]) :
            \/ i \in 1..Len(queue[p]) /\ queue'[p][i] = queue[p][i]
            \/ p = q /\ i = Len(queue[q]) + 1 /\ queue'[p][i] = current[c]
    BY <1>3, <1>4
  <1> QED BY <1>2, <1>4, <1>5, <1>6, <1>7

\* The position in queue p that the i-th waiter had before the n-th left queue q.
After(p, q, i, n) == IF p = q /\ i >= n THEN i + 1 ELSE i

\* What the queues hold after the n-th waiter of one is gone.
LEMMA DropOne ==
    ASSUME IInv, NEW q \in Queues, NEW n \in 1..Len(queue[q]), TakeOut(q, n)
    PROVE  /\ queue' \in [Places -> Seq(Tasks)]
           /\ \A p \in Places : \A i \in 1..Len(queue'[p]) :
                 \E k \in 1..Len(queue[p]) :
                    /\ queue'[p][i] = queue[p][k] /\ queue'[p][i] # queue[q][n]
                    /\ k = After(p, q, i, n)
           /\ \A p \in Places : \A k \in 1..Len(queue[p]) :
                 queue[p][k] # queue[q][n] => \E i \in 1..Len(queue'[p]) : queue'[p][i] = queue[p][k]
  <1> DEFINE s == queue[q]
             r == Without(s, n)
  <1>1. /\ queue \in [Places -> Seq(Tasks)]
        /\ s \in Seq(Tasks)
        /\ queue'[q] = r
        /\ \A p \in Places : p # q => queue'[p] = queue[p]
        /\ queue' = [queue EXCEPT ![q] = r]
        /\ q \in Places
    BY PlaceFacts DEF IInv, TypeOK, TakeOut
  <1>2. /\ r \in Seq(Tasks)
        /\ Len(s) \in Nat \ {0} /\ n \in Nat /\ n \in 1..Len(s)
        /\ Len(r) = Len(s) - 1
        /\ \A i \in 1..(n - 1) : r[i] = s[i]
        /\ \A i \in n..(Len(s) - 1) : r[i] = s[i + 1]
    BY <1>1, RemoveFacts
  <1> HIDE DEF r
  <1>3. queue' \in [Places -> Seq(Tasks)]
    BY <1>1, <1>2
  <1>4. \A p \in Places : \A k \in 1..Len(queue[p]) : queue[p][k] = s[n] => p = q /\ k = n
    <2>1. q \in Places /\ n \in 1..Len(queue[q])
      BY <1>1
    <2> QED BY ONLY IInv, <2>1 DEF IInv, QueueInv
  <1>5. ASSUME NEW p \in Places, NEW i \in 1..Len(queue'[p])
        PROVE  \E k \in 1..Len(queue[p]) :
                  /\ queue'[p][i] = queue[p][k] /\ queue'[p][i] # s[n]
                  /\ k = After(p, q, i, n)
    <2>1. CASE p = q
      <3> DEFINE k == IF i < n THEN i ELSE i + 1
      <3>0. i \in 1..Len(r) /\ i \in Nat
        BY <1>1, <1>2, <2>1
      <3>1. i \in 1..Len(r) /\ i \in Nat /\ r[i] = s[k]
        <4>1. CASE i < n
          <5>1. i \in 1..(n - 1)
            BY <1>2, <3>0, <4>1
          <5> QED BY <1>2, <3>0, <4>1, <5>1
        <4>2. CASE ~(i < n)
          <5>1. i \in n..(Len(s) - 1)
            BY <1>2, <3>0, <4>2
          <5> QED BY <1>2, <3>0, <4>2, <5>1
        <4> QED BY <4>1, <4>2
      <3>2. k \in 1..Len(s) /\ k # n /\ k = After(p, q, i, n)
        <4>1. i \in 1..(Len(s) - 1) /\ Len(s) \in Nat /\ n \in 1..Len(s)
          BY <1>2, <3>0
        <4>2. k \in 1..Len(s) /\ k # n
          BY ONLY <4>1
        <4>3. k = After(p, q, i, n)
          BY ONLY <2>1, <4>1 DEF After
        <4> QED BY <4>2, <4>3
      <3> HIDE DEF k
      <3>3. s[k] # s[n]
        <4>1. q \in Places /\ k \in 1..Len(queue[q])
          BY <1>1, <3>2
        <4> QED BY ONLY <1>4, <3>2, <4>1
      <3> QED BY <1>1, <2>1, <3>1, <3>2, <3>3
    <2>2. CASE p # q
      BY <1>1, <1>4, <2>2 DEF After
    <2> QED BY <2>1, <2>2
  <1>6. ASSUME NEW p \in Places, NEW k \in 1..Len(queue[p]), queue[p][k] # s[n]
        PROVE  \E i \in 1..Len(queue'[p]) : queue'[p][i] = queue[p][k]
    <2>1. CASE p = q
      <3> DEFINE i == IF k < n THEN k ELSE k - 1
      <3>1. k # n /\ k \in 1..Len(s) /\ k \in Nat
        BY <1>2, <1>6, <2>1
      <3>2. i \in 1..Len(r) /\ k = IF i < n THEN i ELSE i + 1
        BY <1>2, <3>1
      <3> HIDE DEF i
      <3>3. r[i] = s[k]
        BY <1>2, <3>2
      <3> QED BY <1>1, <2>1, <3>2, <3>3
    <2>2. CASE p # q
      BY <1>1, <2>2
    <2> QED BY <2>1, <2>2
  <1> QED BY <1>3, <1>5, <1>6

-----------------------------------------------------------------------------
(* Steps that only move a CPU inside the library, or into it.              *)

\* A join starts.
LEMMA JoinKeeps ==
    ASSUME IInv, NEW c \in CPUs, NEW u \in UserTasks, Join(c, u)
    PROVE  IInv'
  <1> DEFINE f == [op |-> "join", q |-> u, resched |-> FALSE]
  <1>1. f \in Frames
    BY DEF Frames, Ops, Queues, UserTasks
  <1>2. TypeOK'
    BY <1>1 DEF IInv, TypeOK, Join, MayCall, At, Goto, Labels, cpuVars, queueVars
  <1>3. FrameFits(c, "cond", f)
    BY DEF Join, MayCall, At, FrameFits, TargetFits, Own, OwnAt, IInv
  <1>4. CpuInv' /\ FrameInv' /\ ReadyInv' /\ QueueInv' /\ IdleInv'
    BY <1>1, <1>3, LocalMove DEF Join, MayCall, At, Goto, Labels, cpuVars, queueVars
  <1> QED BY <1>2, <1>4, SameQueues DEF IInv, Join, queueVars

\* A wait_until starts.
LEMMA WaitUntilKeeps ==
    ASSUME IInv, NEW c \in CPUs, NEW call, NEW q \in WaitQueues \cup WakerQueues,
           WaitUntil(c, call, q), call \in {"wait_until", "waker_until"}
    PROVE  IInv'
  <1> DEFINE f == [op |-> "wait_until", q |-> q, resched |-> FALSE]
  <1>1. f \in Frames
    BY DEF Frames, Ops, Queues
  <1>2. TypeOK'
    BY <1>1 DEF IInv, TypeOK, WaitUntil, MayCall, At, Goto, Labels, cpuVars, queueVars
  <1>3. q \in WakerQueues => current[c] \in Coroutines
    BY QueueAssumption DEF WaitUntil
  <1>4. pc[c] = "run" /\ current[c] \notin IdleTasks
    BY DEF WaitUntil, MayCall, At
  <1>5. FrameFits(c, "cond", f)
    BY <1>3, <1>4 DEF FrameFits, TargetFits, Own, OwnAt
  <1>6. CpuInv' /\ FrameInv' /\ ReadyInv' /\ QueueInv' /\ IdleInv'
    BY <1>1, <1>5, LocalMove DEF WaitUntil, MayCall, At, Goto, Labels, cpuVars, queueVars
  <1> QED BY <1>2, <1>6, SameQueues DEF IInv, WaitUntil, queueVars

\* A notify starts.
LEMMA StartNotifyKeeps ==
    ASSUME IInv, NEW c \in CPUs, NEW call \in {"notify_one", "notify_all"},
           NEW q \in WaitQueues \cup WakerQueues, NEW r \in ReschedFlags,
           StartNotify(c, call, q, r)
    PROVE  IInv'
  <1> DEFINE f == [op |-> call, q |-> q, resched |-> r]
  <1>1. f \in Frames
    BY ParameterAssumption DEF Frames, Ops, Queues
  <1>2. TypeOK'
    BY <1>1 DEF IInv, TypeOK, StartNotify, MayCall, At, Goto, Labels, cpuVars, queueVars
  <1>3. FrameFits(c, "notify", f)
    BY DEF StartNotify, MayCall, At, FrameFits, TargetFits, Own, OwnAt, IInv, Queues
  <1>4. CpuInv' /\ FrameInv' /\ ReadyInv' /\ QueueInv' /\ IdleInv'
    BY <1>1, <1>3, LocalMove DEF StartNotify, MayCall, At, Goto, Labels, cpuVars, queueVars
  <1> QED BY <1>2, <1>4, SameQueues DEF IInv, StartNotify, queueVars

\* The call of a current task, as an EXCEPT that changes nothing.
LEMMA SameFrame ==
    ASSUME IInv, NEW c \in CPUs
    PROVE  /\ frame[current[c]] \in Frames
           /\ frame = [frame EXCEPT ![current[c]] = frame[current[c]]]
  BY DEF IInv, TypeOK

\* What the invariant says of the current task of a CPU.
LEMMA CurrentFacts ==
    ASSUME IInv, NEW c \in CPUs
    PROVE  /\ current[c] \in Tasks
           /\ Own(c) => state[current[c]] = "Running"
           /\ frame[current[c]].op = "exit" => state[current[c]] = "Exited"
           /\ TargetFits(current[c], frame[current[c]])
           /\ pc[c] \in {"cond", "block"} => frame[current[c]].op \in {"join", "wait_until"}
           /\ pc[c] = "requeue" => frame[current[c]].op = "requeue"
           /\ pc[c] = "store" => frame[current[c]].op = "exit"
           /\ pc[c] \in {"store", "notify", "spin"} =>
                 /\ frame[current[c]].q \in Queues
                 /\ frame[current[c]].op \in {"exit", "notify_one", "notify_all"}
           /\ current[c] \in IdleTasks =>
                 /\ pc[c] \in {"run", "resched", "switch", "resume", "reap"}
                 /\ frame[current[c]].op \in {"none", "yield"}
  <1>1. current[c] \in Tasks
    BY DEF IInv, TypeOK
  <1> QED BY <1>1 DEF IInv, CpuInv, FrameInv, IdleInv, TargetFits

\* A coroutine checks the condition of wait_until_f.
LEMMA CondCoroutineKeeps ==
    ASSUME IInv, NEW c \in CPUs, CondCoroutine(c)
    PROVE  IInv'
  <1> USE DEF CondCoroutine, At, Goto, taskVars, cpuVars, queueVars
  <1>1. PICK label \in {"cancel", "block"} : pc' = [pc EXCEPT ![c] = label]
    OBVIOUS
  <1>2. TypeOK'
    BY <1>1 DEF IInv, TypeOK, Labels
  <1>3. FrameFits(c, label, frame[current[c]])
    BY <1>1, CurrentFacts DEF FrameFits, Own, OwnAt
  <1>4. label \in Labels
    BY DEF Labels
  <1>5. CpuInv' /\ FrameInv' /\ ReadyInv' /\ QueueInv' /\ IdleInv'
    BY <1>1, <1>3, <1>4, LocalMove, SameFrame
  <1> QED BY <1>2, <1>5, SameQueues DEF IInv

\* cancel_events finds the flag clear: only the call ends.
LEMMA CancelKeeps ==
    ASSUME IInv, NEW c \in CPUs, Cancel(c)
    PROVE  IInv'
  <1> USE DEF Cancel, At, Goto, cpuVars
  <1>1. ~in_wait_queue[current[c]]
    <2>1. current[c] \in Tasks /\ state[current[c]] = "Running"
      BY CurrentFacts DEF Own, OwnAt
    <2>2. \A q \in TaskPlaces : ~InQueue(current[c], q)
      BY <2>1, PlaceFacts DEF IInv, QueueInv, InQueue
    <2> QED BY <2>1, <2>2 DEF IInv, InWaitQueueExact
  <1>2. UNCHANGED <<queue, in_wait_queue>>
    BY <1>1
  <1>3. NoFrame \in Frames
    BY DEF NoFrame, Frames, Ops
  <1>4. TypeOK'
    BY <1>2, <1>3 DEF IInv, TypeOK, Labels
  <1>5. FrameFits(c, "run", NoFrame)
    BY DEF FrameFits, TargetFits, Own, OwnAt, IInv, NoFrame
  <1>6. CpuInv' /\ FrameInv' /\ ReadyInv' /\ QueueInv' /\ IdleInv'
    BY <1>2, <1>3, <1>5, LocalMove DEF Labels
  <1> QED BY <1>2, <1>4, <1>6, SameQueues DEF IInv

\* A notify finds the queue empty.
LEMMA NotifyEmptyKeeps ==
    ASSUME IInv, NEW c \in CPUs, NotifyEmpty(c)
    PROVE  IInv'
  <1> USE DEF NotifyEmpty, At, Goto, cpuVars, queueVars
  <1>1. NoFrame \in Frames
    BY DEF NoFrame, Frames, Ops
  <1>2. TypeOK'
    BY <1>1 DEF IInv, TypeOK, Labels
  <1>3. CASE frame[current[c]].op = "exit"
    <2>1. FrameFits(c, "resched", frame[current[c]])
      BY <1>3, CurrentFacts DEF FrameFits, Own, OwnAt
    <2> QED BY <1>2, <1>3, <2>1, LocalMove, SameFrame, SameQueues DEF IInv, Labels
  <1>4. CASE frame[current[c]].op # "exit"
    <2>1. FrameFits(c, "run", NoFrame)
      BY <1>4 DEF FrameFits, TargetFits, Own, OwnAt, IInv, NoFrame
    <2> QED BY <1>1, <1>2, <1>4, <2>1, LocalMove, SameQueues DEF IInv, Labels
  <1> QED BY <1>3, <1>4

\* notify_exit stores the exit code.
LEMMA StoreExitCodeKeeps ==
    ASSUME IInv, NEW c \in CPUs, StoreExitCode(c)
    PROVE  IInv'
  <1> USE DEF StoreExitCode, At, Goto, cpuVars, queueVars
  <1>1. TypeOK'
    BY DEF IInv, TypeOK, Labels
  <1>2. FrameFits(c, "notify", frame[current[c]])
    BY CurrentFacts DEF FrameFits, Own, OwnAt
  <1>3. CpuInv' /\ FrameInv' /\ ReadyInv' /\ QueueInv' /\ IdleInv'
    BY <1>2, LocalMove, SameFrame DEF Labels
  <1> QED BY <1>1, <1>3, SameQueues DEF IInv

\* The context switch hands over stacks only.
LEMMA SwitchKeeps ==
    ASSUME IInv, NEW c \in CPUs, Switch(c)
    PROVE  IInv'
  <1> USE DEF Switch, At, Goto, cpuVars, queueVars
  <1>1. kstack' \in [Tasks -> BOOLEAN] /\ pool' \in [CPUs -> Nat]
    <2>1. kstack \in [Tasks -> BOOLEAN] /\ pool \in [CPUs -> Nat]
      BY DEF IInv, TypeOK
    <2>2. CASE prev_task[c] \in Coroutines
      <3>1. CASE current[c] \in Coroutines /\ ~kstack[current[c]]
        BY <2>1, <2>2, <3>1
      <3>2. CASE ~(current[c] \in Coroutines /\ ~kstack[current[c]])
        <4>1. kstack' = [kstack EXCEPT ![prev_task[c]] = FALSE]
          BY <2>2, <3>2
        <4>2. pool' = [pool EXCEPT ![c] = @ + 1]
          BY <2>2, <3>2
        <4>3. kstack' \in [Tasks -> BOOLEAN]
          BY <2>1, <4>1
        <4>4. pool' \in [CPUs -> Nat]
          BY <2>1, <4>2
        <4> QED BY <4>3, <4>4
      <3> QED BY <3>1, <3>2
    <2>3. CASE prev_task[c] \notin Coroutines
      BY <2>1, <2>3
    <2> QED BY <2>2, <2>3
  <1>2. TypeOK'
    BY <1>1 DEF IInv, TypeOK, Labels
  <1>3. FrameFits(c, "resume", frame[current[c]])
    BY CurrentFacts DEF FrameFits, Own, OwnAt
  <1>4. CpuInv' /\ FrameInv' /\ ReadyInv' /\ QueueInv' /\ IdleInv'
    BY <1>3, LocalMove, SameFrame DEF Labels
  <1> QED BY <1>2, <1>4, SameQueues DEF IInv

\* A resume point clears on_cpu.
LEMMA ResumeKeeps ==
    ASSUME IInv, NEW c \in CPUs, Resume(c)
    PROVE  IInv'
  <1> USE DEF Resume, At, Goto, cpuVars, queueVars
  <1>1. TypeOK'
    BY DEF IInv, TypeOK, Labels
  <1>2. FrameFits(c, "reap", frame[current[c]])
    BY CurrentFacts DEF FrameFits, Own, OwnAt
  <1>3. CpuInv' /\ FrameInv' /\ ReadyInv' /\ QueueInv' /\ IdleInv'
    BY <1>2, LocalMove, SameFrame DEF Labels
  <1> QED BY <1>1, <1>3, SameQueues DEF IInv

\* The call a task is in after its resume point.
GoOnFrame(c) ==
    IF Continue(frame[current[c]]) = "run" THEN NoFrame ELSE frame[current[c]]

\* Where a task goes on after its resume point.
LEMMA GoOnFacts ==
    ASSUME IInv, NEW c \in CPUs, GoOn(c)
    PROVE  /\ pc' = [pc EXCEPT ![c] = Continue(frame[current[c]])]
           /\ frame' = [frame EXCEPT ![current[c]] = GoOnFrame(c)]
           /\ GoOnFrame(c) \in Frames
           /\ Continue(frame[current[c]]) \in {"run", "cond", "cancel"}
           /\ Continue(frame[current[c]]) = "run" => GoOnFrame(c).op = "none"
           /\ Continue(frame[current[c]]) = "cond" =>
                 GoOnFrame(c) = frame[current[c]] /\ GoOnFrame(c).op \in {"join", "wait_until"}
           /\ Continue(frame[current[c]]) = "cancel" =>
                 GoOnFrame(c) = frame[current[c]] /\ GoOnFrame(c).op = "wait"
  <1>1. NoFrame \in Frames /\ NoFrame.op = "none"
    BY DEF NoFrame, Frames, Ops
  <1>2. /\ pc' = [pc EXCEPT ![c] = Continue(frame[current[c]])]
        /\ frame' = [frame EXCEPT ![current[c]] = GoOnFrame(c)]
    BY SameFrame DEF GoOn, Goto, GoOnFrame
  <1>3. GoOnFrame(c) \in Frames
    BY <1>1, SameFrame DEF GoOnFrame
  <1>4. CASE frame[current[c]].op = "wait"
    BY <1>2, <1>3, <1>4 DEF Continue, GoOnFrame
  <1>5. CASE frame[current[c]].op \in {"join", "wait_until"}
    BY <1>2, <1>3, <1>5 DEF Continue, GoOnFrame
  <1>6. CASE frame[current[c]].op \notin {"wait", "join", "wait_until"}
    BY <1>1, <1>2, <1>3, <1>6 DEF Continue, GoOnFrame
  <1> QED BY <1>4, <1>5, <1>6

\* A resume point drops the Arc of an exited task.
LEMMA ReapKeeps ==
    ASSUME IInv, NEW c \in CPUs, Reap(c)
    PROVE  IInv'
  <1> USE DEF Reap, At, cpuVars, queueVars
  <1>1. released' \in [Tasks -> 0..MaxReleases]
    <2>1. released \in [Tasks -> 0..2] /\ prev_task[c] \in Tasks
      BY DEF IInv, TypeOK, MaxReleases
    <2>2. CASE state[prev_task[c]] = "Exited" /\ released[prev_task[c]] < MaxReleases
      <3>1. released[prev_task[c]] + 1 \in 0..2
        BY <2>1, <2>2 DEF MaxReleases
      <3> QED BY <2>1, <2>2, <3>1 DEF MaxReleases
    <2>3. CASE ~(state[prev_task[c]] = "Exited" /\ released[prev_task[c]] < MaxReleases)
      BY <2>1, <2>3 DEF MaxReleases
    <2> QED BY <2>2, <2>3
  <1>2. Continue(frame[current[c]]) \in Labels
    BY GoOnFacts DEF Labels
  <1>3. TypeOK'
    <2>1. pc \in [CPUs -> Labels] /\ frame \in [Tasks -> Frames]
      BY DEF IInv, TypeOK
    <2>2. pc' = [pc EXCEPT ![c] = Continue(frame[current[c]])]
      BY GoOnFacts
    <2>3. pc' \in [CPUs -> Labels]
      BY <1>2, <2>1, <2>2
    <2>4. frame' = [frame EXCEPT ![current[c]] = GoOnFrame(c)] /\ GoOnFrame(c) \in Frames
      BY GoOnFacts
    <2>5. frame' \in [Tasks -> Frames]
      BY <2>1, <2>4
    <2> QED BY <1>1, <2>3, <2>5 DEF IInv, TypeOK
  <1>4. FrameFits(c, Continue(frame[current[c]]), GoOnFrame(c))
    BY GoOnFacts, CurrentFacts DEF FrameFits, TargetFits, Own, OwnAt
  <1>5. CpuInv' /\ FrameInv' /\ ReadyInv' /\ QueueInv' /\ IdleInv'
    BY <1>2, <1>4, GoOnFacts, LocalMove
  <1> QED BY <1>3, <1>5, SameQueues DEF IInv

-----------------------------------------------------------------------------
(* Steps by which a task gives up its CPU, or enters a queue.              *)

\* The current task of a CPU outside the wake-up and exit paths is in no ready queue.
LEMMA CurrentNotQueued ==
    ASSUME IInv, NEW c \in CPUs, Own(c)
    PROVE  /\ \A d \in CPUs : \A i \in 1..Len(rq[d]) : rq[d][i] # current[c]
           /\ \A d \in CPUs : waking[d] # current[c]
  <1>1. state[current[c]] = "Running" /\ current[c] \in Tasks
    BY CurrentFacts
  <1>2. \A d \in CPUs : waking[d] # current[c]
    BY <1>1, TaskAssumption DEF IInv, ReadyInv
  <1> QED BY <1>1, <1>2 DEF IInv, ReadyInv

\* What a ready queue holds after an enqueue.
LEMMA EnqueueRq ==
    ASSUME IInv, NEW c \in CPUs, NEW t \in Tasks,
           rq' = [rq EXCEPT ![c] = Enqueue(@, t)],
           \A d \in CPUs : \A i \in 1..Len(rq[d]) : rq[d][i] # t
    PROVE  /\ rq' \in [CPUs -> Seq(Tasks)]
           /\ \A d \in CPUs : \A i \in 1..Len(rq'[d]) :
                 \/ i \in 1..Len(rq[d]) /\ rq'[d][i] = rq[d][i] /\ rq[d][i] # t
                 \/ d = c /\ i = Len(rq[c]) + 1 /\ rq'[d][i] = t
           /\ \A d, e \in CPUs : \A i \in 1..Len(rq'[d]), j \in 1..Len(rq'[e]) :
                 rq'[d][i] = rq'[e][j] => d = e /\ i = j
  <1>1. /\ rq \in [CPUs -> Seq(Tasks)]
        /\ rq'[c] = Enqueue(rq[c], t)
        /\ \A d \in CPUs : d # c => rq'[d] = rq[d]
    BY DEF IInv, TypeOK
  <1>2. /\ Enqueue(rq[c], t) \in Seq(Tasks)
        /\ \A i \in 1..Len(rq[c]) : Enqueue(rq[c], t)[i] = rq[c][i]
        /\ \A i \in 1..Len(Enqueue(rq[c], t)) :
              i \in 1..Len(rq[c]) \/ (i = Len(rq[c]) + 1 /\ Enqueue(rq[c], t)[i] = t)
    BY <1>1, EnqueueFacts
  <1>3. rq' \in [CPUs -> Seq(Tasks)]
    BY <1>1, <1>2
  <1>4. \A d \in CPUs : \A i \in 1..Len(rq'[d]) :
            \/ i \in 1..Len(rq[d]) /\ rq'[d][i] = rq[d][i] /\ rq[d][i] # t
            \/ d = c /\ i = Len(rq[c]) + 1 /\ rq'[d][i] = t
    BY <1>1, <1>2
  <1>5. \A d, e \in CPUs : \A i \in 1..Len(rq[d]), j \in 1..Len(rq[e]) :
            rq[d][i] = rq[e][j] => d = e /\ i = j
    BY DEF IInv, ReadyInv
  <1>6. \A d, e \in CPUs : \A i \in 1..Len(rq'[d]), j \in 1..Len(rq'[e]) :
            rq'[d][i] = rq'[e][j] => d = e /\ i = j
    BY <1>4, <1>5
  <1> QED BY <1>3, <1>4, <1>6

\* A task that is Ready now and was in no ready queue may be put into one.
LEMMA EnqueueReady ==
    ASSUME IInv, NEW c \in CPUs, NEW t \in Tasks,
           rq' = [rq EXCEPT ![c] = Enqueue(@, t)],
           t \in spawned' \ IdleTasks,
           \A d \in CPUs : \A i \in 1..Len(rq[d]) : rq[d][i] # t,
           spawned \subseteq spawned',
           \A x \in Tasks : state'[x] = "Ready" <=> x = t \/ state[x] = "Ready",
           \A d \in CPUs : waking'[d] # t /\ waking'[d] \in {waking[d], None},
           \A d \in CPUs : waking'[d] # None <=> pc'[d] = "spin"
    PROVE  rq' \in [CPUs -> Seq(Tasks)] /\ ReadyInv'
  <1>1. /\ rq' \in [CPUs -> Seq(Tasks)]
        /\ \A d \in CPUs : \A i \in 1..Len(rq'[d]) :
              \/ i \in 1..Len(rq[d]) /\ rq'[d][i] = rq[d][i] /\ rq[d][i] # t
              \/ d = c /\ i = Len(rq[c]) + 1 /\ rq'[d][i] = t
        /\ \A d, e \in CPUs : \A i \in 1..Len(rq'[d]), j \in 1..Len(rq'[e]) :
              rq'[d][i] = rq'[e][j] => d = e /\ i = j
    BY EnqueueRq
  <1>2. /\ \A d \in CPUs : \A i \in 1..Len(rq[d]) :
              rq[d][i] \in spawned \ IdleTasks /\ state[rq[d][i]] = "Ready"
        /\ \A d \in CPUs : waking[d] # None =>
              waking[d] \in spawned \ IdleTasks /\ state[waking[d]] = "Ready"
        /\ \A d, e \in CPUs : waking[d] # None /\ waking[d] = waking[e] => d = e
        /\ \A d, e \in CPUs : \A i \in 1..Len(rq[e]) : waking[d] # rq[e][i]
        /\ spawned \subseteq Tasks
    BY DEF IInv, ReadyInv, TypeOK
  <1>3. \A d \in CPUs : \A i \in 1..Len(rq'[d]) :
           rq'[d][i] \in Tasks /\ rq'[d][i] \in spawned' \ IdleTasks /\ state'[rq'[d][i]] = "Ready"
    BY <1>1, <1>2
  <1>4. \A d, e \in CPUs : \A i \in 1..Len(rq'[e]) : waking'[d] # rq'[e][i]
    <2> SUFFICES ASSUME NEW d \in CPUs, NEW e \in CPUs, NEW i \in 1..Len(rq'[e])
                 PROVE  waking'[d] # rq'[e][i]
      OBVIOUS
    <2>1. rq'[e][i] = t \/ (i \in 1..Len(rq[e]) /\ rq'[e][i] = rq[e][i])
      BY <1>1
    <2>2. rq'[e][i] # None
      BY <1>3, TaskAssumption
    <2> QED BY <1>2, <2>1, <2>2
  <1>5. \A d \in CPUs : waking'[d] # None =>
           waking'[d] \in spawned' \ IdleTasks /\ state'[waking'[d]] = "Ready"
    BY <1>2
  <1>6. \A d, e \in CPUs : waking'[d] # None /\ waking'[d] = waking'[e] => d = e
    BY <1>2
  <1> QED BY <1>1, <1>3, <1>4, <1>5, <1>6 DEF ReadyInv

\* A task yields: it gives up its CPU and enters the ready queue, unless it is an idle task.
LEMMA YieldKeeps ==
    ASSUME IInv, NEW c \in CPUs, Yield(c)
    PROVE  IInv'
  <1> DEFINE f == [op |-> "yield", q |-> None, resched |-> FALSE]
  <1>1. /\ pc[c] = "run"
        /\ pc' = [pc EXCEPT ![c] = "resched"]
        /\ state' = [state EXCEPT ![current[c]] = "Ready"]
        /\ frame' = [frame EXCEPT ![current[c]] = f]
        /\ rq' = IF current[c] \in IdleTasks THEN rq ELSE [rq EXCEPT ![c] = Enqueue(@, current[c])]
        /\ UNCHANGED <<on_cpu, in_wait_queue, need_resched, kstack, exit_code, spawned, released,
                       current, prev_task, pool, waking, queue, lock, mode>>
    BY DEF Yield, MayCall, At, Goto, queueVars
  <1>2. f \in Frames
    BY DEF Frames, Ops
  <1>3. CpuInv' /\ FrameInv' /\ IdleInv' /\ QueueInv' /\ (UNCHANGED rq => ReadyInv')
    BY <1>1, <1>2, GiveUp DEF TargetFits
  <1>4. current[c] \in Tasks /\ state[current[c]] = "Running" /\ Own(c)
    BY <1>1, CurrentFacts DEF Own, OwnAt
  <1>5. /\ \A d \in CPUs : \A i \in 1..Len(rq[d]) : rq[d][i] # current[c]
        /\ \A d \in CPUs : waking[d] # current[c]
    BY <1>4, CurrentNotQueued
  <1>6. rq' \in [CPUs -> Seq(Tasks)] /\ ReadyInv'
    <2>1. CASE current[c] \in IdleTasks
      BY <1>1, <1>3, <2>1 DEF IInv, TypeOK
    <2>2. CASE current[c] \notin IdleTasks
      <3>1. \A t \in Tasks : state'[t] = "Ready" <=> t = current[c] \/ state[t] = "Ready"
        BY <1>1, <1>4 DEF IInv, TypeOK
      <3>2. current[c] \in spawned' \ IdleTasks
        BY <1>1, <2>2 DEF IInv, CpuInv
      <3>3. \A d \in CPUs : waking[d] # None <=> pc'[d] = "spin"
        BY <1>1 DEF IInv, TypeOK, ReadyInv
      <3>4. rq' = [rq EXCEPT ![c] = Enqueue(@, current[c])] /\ UNCHANGED <<waking, spawned>>
        BY <1>1, <2>2
      <3>5. \A d \in CPUs : waking'[d] # current[c] /\ waking'[d] \in {waking[d], None}
        BY <1>5, <3>4
      <3>6. \A d \in CPUs : waking'[d] # None <=> pc'[d] = "spin"
        BY <3>3, <3>4
      <3>7. spawned \subseteq spawned'
        BY <3>4
      <3> HIDE DEF f
      <3> QED BY <1>4, <1>5, <3>1, <3>2, <3>4, <3>5, <3>6, <3>7, EnqueueReady
    <2> QED BY <2>1, <2>2
  <1>7. TypeOK'
    BY <1>1, <1>2, <1>6 DEF IInv, TypeOK, States, Labels
  <1> QED BY <1>1, <1>3, <1>6, <1>7, SameQueues DEF IInv

\* A task becomes Blocked and enters a WaitQueue.
LEMMA BlockOnKeeps ==
    ASSUME IInv, NEW c \in CPUs, NEW q \in Queues \ WakerQueues, NEW f \in Frames,
           BlockOn(c, q),
           pc[c] \in {"run", "cond", "block"},
           current[c] \notin IdleTasks,
           frame' = [frame EXCEPT ![current[c]] = f],
           f.op # "exit",
           TargetFits(current[c], f)
    PROVE  IInv'
  <1> DEFINE t == current[c]
  <1>1. /\ state' = [state EXCEPT ![t] = "Blocked"]
        /\ in_wait_queue' = [in_wait_queue EXCEPT ![t] = TRUE]
        /\ queue' = [queue EXCEPT ![q] = Append(@, t)]
        /\ pc' = [pc EXCEPT ![c] = "resched"]
        /\ UNCHANGED <<on_cpu, need_resched, kstack, exit_code, spawned, released,
                       current, prev_task, rq, pool, waking, lock, mode>>
    BY DEF BlockOn, Goto, cpuVars
  <1>0. q \in Places /\ q \in TaskPlaces /\ q \notin Hands
    BY PlaceFacts
  <1>2. CpuInv' /\ FrameInv' /\ IdleInv' /\ ReadyInv' /\ state[t] = "Running"
    BY <1>1, GiveUp
  <1>3. /\ queue' \in [Places -> Seq(Tasks)]
        /\ \A p \in Places : \A i \in 1..Len(queue[p]) :
              queue[p][i] # t /\ i \in 1..Len(queue'[p]) /\ queue'[p][i] = queue[p][i]
        /\ \A p \in Places : \A i \in 1..Len(queue'[p]) :
              \/ i \in 1..Len(queue[p]) /\ queue'[p][i] = queue[p][i]
              \/ p = q /\ i = Len(queue[q]) + 1 /\ queue'[p][i] = t
        /\ Len(queue[q]) + 1 \in 1..Len(queue'[q]) /\ queue'[q][Len(queue[q]) + 1] = t
    BY <1>0, <1>1, AppendQueue
  <1>4. /\ t \in Tasks /\ t \in spawned
        /\ \A x \in Tasks : state'[x] = IF x = t THEN "Blocked" ELSE state[x]
        /\ \A x \in Tasks : in_wait_queue'[x] = IF x = t THEN TRUE ELSE in_wait_queue[x]
        /\ \A d \in CPUs : pc'[d] = IF d = c THEN "resched" ELSE pc[d]
    BY <1>1 DEF IInv, TypeOK, CpuInv
  <1>5. TypeOK'
    BY <1>1, <1>3 DEF IInv, TypeOK, States, Labels
  <1> HIDE DEF t
  <1>6. QueueInv'
    <2>1. ASSUME NEW p \in Places, NEW i \in 1..Len(queue'[p])
          PROVE  /\ queue'[p][i] \in spawned \ IdleTasks
                 /\ \/ state'[queue'[p][i]] = "Blocked"
                    \/ p \in WakerPlaces /\ \E d \in CPUs : current[d] = queue'[p][i] /\ pc'[d] = "pended"
      <3>1. CASE i \in 1..Len(queue[p]) /\ queue'[p][i] = queue[p][i]
        <4>1. queue[p][i] \in Tasks /\ queue[p][i] # t
          BY <1>3, <3>1 DEF IInv, TypeOK
        <4>2. /\ queue[p][i] \in spawned \ IdleTasks
              /\ \/ state[queue[p][i]] = "Blocked"
                 \/ p \in WakerPlaces /\ \E d \in CPUs : current[d] = queue[p][i] /\ pc[d] = "pended"
          BY <3>1 DEF IInv, QueueInv
        <4>3. pc[c] # "pended"
          OBVIOUS
        <4> QED BY <1>4, <3>1, <4>1, <4>2, <4>3
      <3>2. CASE queue'[p][i] = t
        BY <1>4, <3>2 DEF t
      <3> QED BY <1>3, <3>1, <3>2
    <2>2. \A p, r \in Places : \A i \in 1..Len(queue[p]), j \in 1..Len(queue[r]) :
             queue[p][i] = queue[r][j] => p = r /\ i = j
      BY DEF IInv, QueueInv
    <2>3. \A p, r \in Places : \A i \in 1..Len(queue'[p]), j \in 1..Len(queue'[r]) :
             queue'[p][i] = queue'[r][j] => p = r /\ i = j
      <3> SUFFICES ASSUME NEW p \in Places, NEW r \in Places, NEW i \in 1..Len(queue'[p]),
                          NEW j \in 1..Len(queue'[r]), queue'[p][i] = queue'[r][j]
                   PROVE  p = r /\ i = j
        OBVIOUS
      <3>1. \/ i \in 1..Len(queue[p]) /\ queue'[p][i] = queue[p][i] /\ queue[p][i] # t
            \/ p = q /\ i = Len(queue[q]) + 1 /\ queue'[p][i] = t
        BY <1>3
      <3>2. \/ j \in 1..Len(queue[r]) /\ queue'[r][j] = queue[r][j] /\ queue[r][j] # t
            \/ r = q /\ j = Len(queue[q]) + 1 /\ queue'[r][j] = t
        BY <1>3
      <3> QED BY <3>1, <3>2, <2>2
    <2>4. HandInv'
      <3>1. \A h \in Hands : queue'[h] = queue[h]
        BY <1>0, <1>1, PlaceFacts DEF IInv, TypeOK
      <3>2. \A x \in Tasks \ {current[c]} : frame'[x] = frame[x]
        BY DEF IInv, TypeOK
      <3> QED BY <1>1, <1>4, <3>1, <3>2, HandsKept
    <2> QED BY <1>1, <2>1, <2>3, <2>4 DEF QueueInv
  <1>7. InWaitQueueExact'
    <2>1. ASSUME NEW x \in Tasks
          PROVE  in_wait_queue'[x] <=> \E p \in TaskPlaces : \E i \in 1..Len(queue'[p]) : queue'[p][i] = x
      <3>1. CASE x = t
        BY <1>0, <1>3, <1>4, <3>1
      <3>2. CASE x # t
        <4>1. in_wait_queue[x] <=> \E p \in TaskPlaces : \E i \in 1..Len(queue[p]) : queue[p][i] = x
          BY DEF IInv, InWaitQueueExact, InQueue
        <4>2. in_wait_queue'[x] = in_wait_queue[x]
          BY <1>4, <3>2
        <4>3. ASSUME NEW p \in TaskPlaces, NEW i \in 1..Len(queue[p]), queue[p][i] = x
              PROVE  i \in 1..Len(queue'[p]) /\ queue'[p][i] = x
          BY <1>3, <4>3, PlaceFacts
        <4>4. ASSUME NEW p \in TaskPlaces, NEW i \in 1..Len(queue'[p]), queue'[p][i] = x
              PROVE  i \in 1..Len(queue[p]) /\ queue[p][i] = x
          BY <1>3, <3>2, <4>4, PlaceFacts
        <4> QED BY <4>1, <4>2, <4>3, <4>4
      <3> QED BY <3>1, <3>2
    <2> QED BY <2>1 DEF InWaitQueueExact, InQueue
  <1> QED BY <1>2, <1>5, <1>6, <1>7 DEF IInv

\* wait and wait_f.
LEMMA WaitKeeps ==
    ASSUME IInv, NEW c \in CPUs, NEW q \in WaitQueues, Wait(c, q)
    PROVE  IInv'
  <1> DEFINE f == [op |-> "wait", q |-> q, resched |-> FALSE]
  <1>1. f \in Frames
    BY DEF Frames, Ops, Queues
  <1>2. q \in Queues \ WakerQueues
    BY QueueAssumption DEF Queues
  <1>3. /\ BlockOn(c, q) /\ pc[c] = "run" /\ current[c] \notin IdleTasks
        /\ frame' = [frame EXCEPT ![current[c]] = f]
    BY DEF Wait, MayCall, At
  <1> QED BY <1>1, <1>2, <1>3, BlockOnKeeps DEF TargetFits

\* A Running coroutine leaves its waker in a WakerQueue.
LEMMA LeaveWakerKeeps ==
    ASSUME IInv, NEW c \in CPUs, NEW q \in WakerQueues, NEW f \in Frames,
           LeaveWaker(c, q),
           pc[c] \in {"run", "block"},
           current[c] \notin IdleTasks,
           frame' = [frame EXCEPT ![current[c]] = f],
           f.op # "exit",
           TargetFits(current[c], f)
    PROVE  IInv'
  <1> DEFINE t == current[c]
  <1>1. /\ queue' = [queue EXCEPT ![q] = Append(@, t)]
        /\ pc' = [pc EXCEPT ![c] = "pended"]
        /\ UNCHANGED <<state, on_cpu, in_wait_queue, need_resched, kstack, exit_code, spawned,
                       released, current, prev_task, rq, pool, waking, lock, mode>>
    BY DEF LeaveWaker, Goto, cpuVars
  <1>2. q \in Places /\ q \in WakerPlaces /\ q \notin Hands
    BY PlaceFacts DEF Queues
  <1>3. t \in Tasks /\ t \in spawned /\ t \notin IdleTasks
    BY DEF IInv, TypeOK, CpuInv
  <1>4. FrameFits(c, "pended", f)
    BY <1>1, <1>3 DEF FrameFits, Own, OwnAt
  <1>5. CpuInv' /\ FrameInv' /\ IdleInv' /\ ReadyInv'
    BY <1>1, <1>2, <1>4, LocalMove DEF Labels
  <1>6. /\ queue' \in [Places -> Seq(Tasks)]
        /\ \A p \in Places : \A i \in 1..Len(queue[p]) :
              queue[p][i] # t /\ i \in 1..Len(queue'[p]) /\ queue'[p][i] = queue[p][i]
        /\ \A p \in Places : \A i \in 1..Len(queue'[p]) :
              \/ i \in 1..Len(queue[p]) /\ queue'[p][i] = queue[p][i]
              \/ p = q /\ i = Len(queue[q]) + 1 /\ queue'[p][i] = t
        /\ Len(queue[q]) + 1 \in 1..Len(queue'[q]) /\ queue'[q][Len(queue[q]) + 1] = t
    BY <1>1, <1>2, AppendQueue
  <1>7. TypeOK'
    BY <1>1, <1>2, <1>6 DEF IInv, TypeOK, Labels
  <1> HIDE DEF t
  <1>8. QueueInv'
    <2>1. /\ \A d \in CPUs : pc'[d] = IF d = c THEN "pended" ELSE pc[d]
          /\ current[c] = t /\ pc[c] # "pended"
      BY <1>1 DEF IInv, TypeOK, t
    <2>2. ASSUME NEW p \in Places, NEW i \in 1..Len(queue'[p])
          PROVE  /\ queue'[p][i] \in spawned \ IdleTasks
                 /\ \/ state[queue'[p][i]] = "Blocked"
                    \/ p \in WakerPlaces /\ \E d \in CPUs : current[d] = queue'[p][i] /\ pc'[d] = "pended"
      <3>1. CASE i \in 1..Len(queue[p]) /\ queue'[p][i] = queue[p][i]
        <4>1. /\ queue[p][i] \in spawned \ IdleTasks
              /\ \/ state[queue[p][i]] = "Blocked"
                 \/ p \in WakerPlaces /\ \E d \in CPUs : current[d] = queue[p][i] /\ pc[d] = "pended"
          BY <3>1 DEF IInv, QueueInv
        <4> QED BY <2>1, <3>1, <4>1
      <3>2. CASE p = q /\ queue'[p][i] = t
        BY <1>2, <1>3, <2>1, <3>2
      <3> QED BY <1>6, <3>1, <3>2
    <2>3. \A p, r \in Places : \A i \in 1..Len(queue[p]), j \in 1..Len(queue[r]) :
             queue[p][i] = queue[r][j] => p = r /\ i = j
      BY DEF IInv, QueueInv
    <2>4. \A p, r \in Places : \A i \in 1..Len(queue'[p]), j \in 1..Len(queue'[r]) :
             queue'[p][i] = queue'[r][j] => p = r /\ i = j
      <3> SUFFICES ASSUME NEW p \in Places, NEW r \in Places, NEW i \in 1..Len(queue'[p]),
                          NEW j \in 1..Len(queue'[r]), queue'[p][i] = queue'[r][j]
                   PROVE  p = r /\ i = j
        OBVIOUS
      <3>1. \/ i \in 1..Len(queue[p]) /\ queue'[p][i] = queue[p][i] /\ queue[p][i] # t
            \/ p = q /\ i = Len(queue[q]) + 1 /\ queue'[p][i] = t
        BY <1>6
      <3>2. \/ j \in 1..Len(queue[r]) /\ queue'[r][j] = queue[r][j] /\ queue[r][j] # t
            \/ r = q /\ j = Len(queue[q]) + 1 /\ queue'[r][j] = t
        BY <1>6
      <3> QED BY <3>1, <3>2, <2>3
    <2>5. HandInv'
      <3>1. \A h \in Hands : queue'[h] = queue[h]
        BY <1>1, <1>2, PlaceFacts DEF IInv, TypeOK
      <3>2. \A x \in Tasks \ {current[c]} : frame'[x] = frame[x]
        BY DEF IInv, TypeOK
      <3> QED BY <1>1, <2>1, <3>1, <3>2, HandsKept
    <2> QED BY <1>1, <2>2, <2>4, <2>5 DEF QueueInv
  <1>9. InWaitQueueExact'
    <2>1. \A p \in TaskPlaces : queue'[p] = queue[p]
      BY <1>1, <1>2, PlaceFacts DEF IInv, TypeOK
    <2>2. ASSUME NEW x \in Tasks
          PROVE  in_wait_queue'[x] <=> \E p \in TaskPlaces : \E i \in 1..Len(queue'[p]) : queue'[p][i] = x
      <3>1. in_wait_queue[x] <=> \E p \in TaskPlaces : \E i \in 1..Len(queue[p]) : queue[p][i] = x
        BY DEF IInv, InWaitQueueExact, InQueue
      <3>2. in_wait_queue'[x] = in_wait_queue[x]
        BY <1>1
      <3>3. (\E p \in TaskPlaces : \E i \in 1..Len(queue'[p]) : queue'[p][i] = x) <=>
               \E p \in TaskPlaces : \E i \in 1..Len(queue[p]) : queue[p][i] = x
        BY <2>1
      <3> QED BY <3>1, <3>2, <3>3
    <2> QED BY <2>2 DEF InWaitQueueExact, InQueue
  <1> QED BY <1>5, <1>7, <1>8, <1>9 DEF IInv

\* WakerQueue::wait_f.
LEMMA WakerWaitKeeps ==
    ASSUME IInv, NEW c \in CPUs, NEW q \in WakerQueues, WakerWait(c, q)
    PROVE  IInv'
  <1> DEFINE f == [op |-> "waker_wait", q |-> q, resched |-> FALSE]
  <1>1. f \in Frames
    BY DEF Frames, Ops, Queues
  <1>2. /\ LeaveWaker(c, q) /\ pc[c] = "run" /\ current[c] \notin IdleTasks
        /\ frame' = [frame EXCEPT ![current[c]] = f]
    BY DEF WakerWait, MayCall, At
  <1> QED BY <1>1, <1>2, LeaveWakerKeeps DEF TargetFits

\* A task that checks the condition of a join or a wait_until is in that call.
LEMMA CondFacts ==
    ASSUME IInv, NEW c \in CPUs, pc[c] \in {"cond", "block"}
    PROVE  /\ frame[current[c]].op \in {"join", "wait_until"}
           /\ TargetFits(current[c], frame[current[c]])
           /\ frame[current[c]].q \in Queues
           /\ frame[current[c]] \in Frames
           /\ current[c] \notin IdleTasks
  <1>1. /\ frame[current[c]].op \in {"join", "wait_until"}
        /\ TargetFits(current[c], frame[current[c]])
        /\ current[c] \notin IdleTasks
    BY CurrentFacts
  <1>2. frame[current[c]].q \in Queues
    BY <1>1 DEF TargetFits, Queues, UserTasks
  <1> QED BY <1>1, <1>2, SameFrame

\* The poll that follows the check of wait_until_f.
LEMMA BlockKeeps ==
    ASSUME IInv, NEW c \in CPUs, Block(c)
    PROVE  IInv'
  <1> DEFINE u == frame[current[c]].q
             f == frame[current[c]]
  <1>1. pc[c] = "block" /\ UNCHANGED frame
    BY DEF Block, At
  <1>2. /\ f \in Frames /\ f.op # "exit" /\ TargetFits(current[c], f) /\ u \in Queues
        /\ current[c] \notin IdleTasks
    BY <1>1, CondFacts
  <1>3. frame' = [frame EXCEPT ![current[c]] = f]
    BY <1>1, SameFrame
  <1>4. IF u \in WakerQueues THEN LeaveWaker(c, u) ELSE BlockOn(c, u)
    BY DEF Block
  <1> HIDE DEF u, f
  <1>5. CASE u \in WakerQueues
    BY <1>1, <1>2, <1>3, <1>4, <1>5, LeaveWakerKeeps
  <1>6. CASE u \notin WakerQueues
    BY <1>1, <1>2, <1>3, <1>4, <1>6, BlockOnKeeps
  <1> QED BY <1>5, <1>6

\* A thread checks the condition of wait_until, and blocks.
LEMMA CondThreadKeeps ==
    ASSUME IInv, NEW c \in CPUs, CondThread(c)
    PROVE  IInv'
  <1> DEFINE u == frame[current[c]].q
             f == frame[current[c]]
  <1>1. pc[c] = "cond"
    BY DEF CondThread, At
  <1>2. /\ f \in Frames /\ f.op # "exit" /\ TargetFits(current[c], f) /\ u \in Queues
        /\ current[c] \notin IdleTasks
    BY <1>1, CondFacts
  <1>3. CASE Goto(c, "cancel") /\ UNCHANGED <<taskVars, cpuVars, queueVars, mode>>
    <2>1. TypeOK'
      BY <1>3 DEF IInv, TypeOK, Goto, Labels, taskVars, cpuVars, queueVars
    <2>2. FrameFits(c, "cancel", f)
      BY <1>1, <1>2, CurrentFacts DEF FrameFits, Own, OwnAt
    <2>3. CpuInv' /\ FrameInv' /\ ReadyInv' /\ QueueInv' /\ IdleInv'
      BY <1>1, <1>3, <2>2, LocalMove, SameFrame DEF Goto, Labels, taskVars, cpuVars, queueVars
    <2> QED BY <1>3, <2>1, <2>3, SameQueues DEF IInv, taskVars, queueVars
  <1>4. CASE BlockOn(c, u) /\ UNCHANGED frame
    <2>1. frame' = [frame EXCEPT ![current[c]] = f]
      BY <1>4, SameFrame
    <2>2. u \in Queues \ WakerQueues
      BY <1>1, <1>2, CondFacts, QueueAssumption DEF TargetFits, UserTasks, CondThread
    <2> HIDE DEF u, f
    <2> QED BY <1>1, <1>2, <1>4, <2>1, <2>2, BlockOnKeeps DEF u
  <1> QED BY <1>3, <1>4 DEF CondThread

\* A task is handed to the scheduler.
LEMMA SpawnKeeps ==
    ASSUME IInv, NEW c \in CPUs, NEW t \in UserTasks, Spawn(c, t)
    PROVE  IInv'
  <1>1. /\ pc[c] = "run" /\ t \notin spawned /\ t \in Tasks \ IdleTasks
        /\ spawned' = spawned \cup {t}
        /\ rq' = [rq EXCEPT ![c] = Enqueue(@, t)]
        /\ UNCHANGED <<state, on_cpu, in_wait_queue, need_resched, kstack, exit_code, frame,
                       released, current, prev_task, pool, waking, queue, lock, pc, mode>>
    BY DEF Spawn, MayCall, At, queueVars, UserTasks
  <1>2. state[t] = "Ready"
    BY <1>1 DEF IInv, IdleInv
  <1>3. rq' \in [CPUs -> Seq(Tasks)] /\ ReadyInv'
    <2>1. \A d \in CPUs : \A i \in 1..Len(rq[d]) : rq[d][i] # t
      BY <1>1 DEF IInv, ReadyInv
    <2>2. \A d \in CPUs : waking'[d] # t /\ waking'[d] \in {waking[d], None}
      BY <1>1, TaskAssumption DEF IInv, ReadyInv
    <2>3. \A d \in CPUs : waking'[d] # None <=> pc'[d] = "spin"
      BY <1>1 DEF IInv, ReadyInv
    <2>4. \A x \in Tasks : state'[x] = "Ready" <=> x = t \/ state[x] = "Ready"
      BY <1>1, <1>2
    <2> QED BY <1>1, <2>1, <2>2, <2>3, <2>4, EnqueueReady
  <1>4. CpuInv' /\ FrameInv' /\ QueueInv' /\ IdleInv'
    BY <1>1 DEF IInv, CpuInv, FrameInv, QueueInv, HandInv, HandOf, IdleInv, Own
  <1>5. TypeOK'
    BY <1>1, <1>3 DEF IInv, TypeOK
  <1> QED BY <1>1, <1>3, <1>4, <1>5, SameQueues DEF IInv

\* The coroutine that left its waker becomes Blocked.
LEMMA PendedKeeps ==
    ASSUME IInv, NEW c \in CPUs, Pended(c)
    PROVE  IInv'
  <1>1. /\ pc[c] = "pended"
        /\ pc' = [pc EXCEPT ![c] = "resched"]
        /\ state' = [state EXCEPT ![current[c]] = "Blocked"]
        /\ UNCHANGED <<on_cpu, in_wait_queue, need_resched, kstack, exit_code, frame, spawned,
                       released, current, prev_task, rq, pool, waking, queue, lock, mode>>
    BY DEF Pended, At, Goto, cpuVars, queueVars
  <1>2. /\ frame[current[c]] \in Frames
        /\ frame' = [frame EXCEPT ![current[c]] = frame[current[c]]]
    BY <1>1, SameFrame
  <1>3. /\ state[current[c]] = "Running" /\ current[c] \notin IdleTasks
        /\ TargetFits(current[c], frame[current[c]])
        /\ frame[current[c]].op # "exit"
    BY <1>1, CurrentFacts DEF Own, OwnAt
  <1>4. CpuInv' /\ FrameInv' /\ IdleInv' /\ ReadyInv' /\ QueueInv'
    BY <1>1, <1>2, <1>3, GiveUp
  <1>5. TypeOK'
    BY <1>1 DEF IInv, TypeOK, States, Labels
  <1> QED BY <1>1, <1>4, <1>5, SameQueues DEF IInv

\* A task exits, or Main ends the program.
LEMMA ExitKeeps ==
    ASSUME IInv, NEW c \in CPUs, Exit(c)
    PROVE  IInv'
  <1>1. pc[c] = "run" /\ current[c] \notin IdleTasks /\ current[c] \in Tasks
    BY CurrentFacts DEF Exit, MayCall, At
  <1>2. CASE current[c] = Main
    BY <1>2, NothingMoves DEF Exit, taskVars
  <1>3. CASE current[c] # Main
    <2> DEFINE f == [op |-> "exit", q |-> current[c], resched |-> FALSE]
    <2>1. /\ pc' = [pc EXCEPT ![c] = "store"]
          /\ state' = [state EXCEPT ![current[c]] = "Exited"]
          /\ frame' = [frame EXCEPT ![current[c]] = f]
          /\ UNCHANGED <<on_cpu, in_wait_queue, need_resched, kstack, exit_code, spawned,
                         released, current, prev_task, rq, pool, waking, queue, lock, mode>>
      BY <1>3 DEF Exit, Goto, cpuVars, queueVars
    <2>2. f \in Frames /\ f.q \in Queues
      BY <1>1 DEF Frames, Ops, Queues
    <2>3. CpuInv' /\ FrameInv' /\ IdleInv' /\ ReadyInv' /\ QueueInv'
      BY <1>1, <2>1, <2>2, GiveUp DEF TargetFits
    <2>4. TypeOK'
      BY <2>1, <2>2 DEF IInv, TypeOK, States, Labels
    <2> QED BY <2>1, <2>3, <2>4, SameQueues DEF IInv
  <1> QED BY <1>2, <1>3

-----------------------------------------------------------------------------
(* The reschedule.                                                         *)

\* The types of what Pick changes.
LEMMA PickTypes ==
    ASSUME IInv, NEW c \in CPUs, Pick(c), NextTask(c) \in Tasks
    PROVE  /\ rq' \in [CPUs -> Seq(Tasks)]
           /\ need_resched' \in [Tasks -> BOOLEAN]
           /\ state' \in [Tasks -> States]
  <1>1. CASE rq[c] = <<>>
    BY <1>1 DEF Pick, IInv, TypeOK, States
  <1>2. CASE rq[c] # <<>>
    <2>1. rq \in [CPUs -> Seq(Tasks)] /\ Tail(rq[c]) \in Seq(Tasks)
      BY <1>2, TailFacts DEF IInv, TypeOK
    <2>2. rq' = [rq EXCEPT ![c] = Tail(@)]
      BY <1>2 DEF Pick
    <2> QED BY <2>1, <2>2 DEF Pick, IInv, TypeOK, States
  <1> QED BY <1>1, <1>2

\* A task that yields is picked again.
LEMMA PickSelfKeeps ==
    ASSUME IInv, NEW c \in CPUs, PickSelf(c)
    PROVE  IInv'
  <1>1. /\ pc[c] = "resched" /\ NextTask(c) = current[c] /\ Pick(c)
        /\ UNCHANGED <<on_cpu, in_wait_queue, kstack, exit_code, spawned, released,
                       current, prev_task, pool, waking, queue, lock, mode>>
    BY DEF PickSelf, At, queueVars
  <1>2. /\ current[c] \in Tasks
        /\ current' = [current EXCEPT ![c] = NextTask(c)]
        /\ \A d \in CPUs \ {c} : current[d] # NextTask(c)
        /\ state[current[c]] = "Ready"
    BY <1>1, NextTaskFacts DEF IInv, TypeOK, CpuInv
  <1>3. frame[current[c]].op # "exit"
    BY <1>2, CurrentFacts
  <1>4. rq' \in [CPUs -> Seq(Tasks)] /\ need_resched' \in [Tasks -> BOOLEAN] /\ state' \in [Tasks -> States]
    BY <1>1, <1>2, PickTypes
  <1>5. CASE current[c] \in Coroutines
    <2>1. GoOn(c)
      BY <1>5 DEF PickSelf
    <2>2. /\ pc' = [pc EXCEPT ![c] = Continue(frame[current[c]])]
          /\ frame' = [frame EXCEPT ![current[c]] = GoOnFrame(c)]
          /\ GoOnFrame(c) \in Frames
          /\ Continue(frame[current[c]]) \in {"run", "cond", "cancel"}
          /\ Continue(frame[current[c]]) = "run" => GoOnFrame(c).op = "none"
          /\ Continue(frame[current[c]]) = "cond" =>
                GoOnFrame(c) = frame[current[c]] /\ GoOnFrame(c).op \in {"join", "wait_until"}
          /\ Continue(frame[current[c]]) = "cancel" =>
                GoOnFrame(c) = frame[current[c]] /\ GoOnFrame(c).op = "wait"
      BY <2>1, GoOnFacts
    <2>3. GoOnFrame(c).op # "exit" /\ TargetFits(current[c], GoOnFrame(c))
      BY <1>3, <2>2, CurrentFacts DEF TargetFits
    <2>4. NextTask(c) \notin IdleTasks
      BY <1>1, <1>5, TaskAssumption DEF UserTasks
    <2>5. CpuInv' /\ FrameInv' /\ ReadyInv' /\ QueueInv' /\ IdleInv'
      BY <1>1, <1>2, <2>2, <2>3, <2>4, Dispatch
    <2>6. pc' \in [CPUs -> Labels] /\ frame' \in [Tasks -> Frames]
      BY <1>2, <2>2 DEF IInv, TypeOK, Labels
    <2>7. TypeOK'
      BY <1>1, <1>4, <2>6 DEF IInv, TypeOK
    <2> QED BY <1>1, <2>5, <2>7, SameQueues DEF IInv
  <1>6. CASE current[c] \notin Coroutines
    <2>1. pc' = [pc EXCEPT ![c] = "resume"] /\ UNCHANGED frame
      BY <1>6 DEF PickSelf, Goto
    <2>2. /\ frame[NextTask(c)] \in Frames
          /\ frame' = [frame EXCEPT ![NextTask(c)] = frame[NextTask(c)]]
      BY <1>1, <2>1, SameFrame
    <2>3. /\ frame[NextTask(c)].op # "exit"
          /\ TargetFits(NextTask(c), frame[NextTask(c)])
          /\ NextTask(c) \in IdleTasks => frame[NextTask(c)].op \in {"none", "yield"}
      BY <1>1, <1>3, CurrentFacts
    <2>4. CpuInv' /\ FrameInv' /\ ReadyInv' /\ QueueInv' /\ IdleInv'
      BY <1>1, <1>2, <2>1, <2>2, <2>3, Dispatch
    <2>5. TypeOK'
      BY <1>1, <1>4, <2>1 DEF IInv, TypeOK, Labels
    <2> QED BY <1>1, <2>4, <2>5, SameQueues DEF IInv
  <1> QED BY <1>5, <1>6

\* A task that no other CPU executes is no other CPU's current task either.
LEMMA PickOtherFree ==
    ASSUME IInv, NEW c \in CPUs, PickOther(c)
    PROVE  \A d \in CPUs \ {c} : current[d] # NextTask(c)
  <1> SUFFICES ASSUME NEW d \in CPUs \ {c}, current[d] = NextTask(c) PROVE FALSE
    OBVIOUS
  <1>1. pc[d] = "switch"
    BY DEF PickOther, Executing
  <1>2. Own(d)
    BY <1>1 DEF Own, OwnAt
  <1>3. state[NextTask(c)] = "Ready"
    BY NextTaskFacts DEF PickOther, At
  <1> QED BY <1>2, <1>3 DEF IInv, CpuInv

\* Another task is picked.
LEMMA PickOtherKeeps ==
    ASSUME IInv, NEW c \in CPUs, PickOther(c)
    PROVE  IInv'
  <1> DEFINE next == NextTask(c)
  <1>1. /\ pc[c] = "resched" /\ next # current[c] /\ Pick(c)
        /\ \A d \in CPUs \ {c} : Executing(d) # next
        /\ on_cpu' = [on_cpu EXCEPT ![next] = TRUE]
        /\ prev_task' = [prev_task EXCEPT ![c] = current[c]]
        /\ current' = [current EXCEPT ![c] = next]
        /\ pc' = [pc EXCEPT ![c] = "switch"]
        /\ UNCHANGED <<in_wait_queue, exit_code, frame, spawned, released, waking, queue, lock, mode>>
    BY DEF PickOther, At, Goto, queueVars
  <1>2. next \in Tasks /\ state[next] = "Ready" /\ current[c] \in Tasks
    BY <1>1, NextTaskFacts, CurrentFacts
  <1>3. \A d \in CPUs \ {c} : current[d] # next
    BY PickOtherFree
  <1>4. kstack' \in [Tasks -> BOOLEAN] /\ pool' \in [CPUs -> Nat]
    <2> DEFINE needsStack == current[c] \notin Coroutines /\ next \in Coroutines /\ ~kstack[next]
    <2>1. /\ kstack' = IF needsStack THEN [kstack EXCEPT ![next] = TRUE] ELSE kstack
          /\ pool' = IF needsStack /\ pool[c] > 0 THEN [pool EXCEPT ![c] = @ - 1] ELSE pool
      BY DEF PickOther, PoolTake
    <2>2. kstack \in [Tasks -> BOOLEAN] /\ pool \in [CPUs -> Nat]
      BY DEF IInv, TypeOK
    <2> HIDE DEF needsStack
    <2>3. CASE needsStack /\ pool[c] > 0
      <3>1. pool[c] - 1 \in Nat
        BY <2>2, <2>3
      <3> QED BY <1>2, <2>1, <2>2, <2>3, <3>1
    <2>4. CASE ~(needsStack /\ pool[c] > 0)
      BY <1>2, <2>1, <2>2, <2>4
    <2> QED BY <2>3, <2>4
  <1>5. rq' \in [CPUs -> Seq(Tasks)] /\ need_resched' \in [Tasks -> BOOLEAN] /\ state' \in [Tasks -> States]
    BY <1>1, <1>2, PickTypes
  <1>6. TypeOK'
    BY <1>1, <1>2, <1>4, <1>5 DEF IInv, TypeOK, Labels
  <1>7. /\ frame[next] \in Frames
        /\ frame' = [frame EXCEPT ![next] = frame[next]]
        /\ frame[next].op # "exit"
        /\ TargetFits(next, frame[next])
        /\ next \in IdleTasks => frame[next].op \in {"none", "yield"}
    BY <1>1, <1>2 DEF IInv, TypeOK, FrameInv, IdleInv, TargetFits
  <1>8. CpuInv' /\ FrameInv' /\ ReadyInv' /\ QueueInv' /\ IdleInv'
    BY <1>1, <1>3, <1>7, Dispatch
  <1> QED BY <1>1, <1>6, <1>8, SameQueues DEF IInv

\* The step at which the model stops.
LEMMA PickWildKeeps ==
    ASSUME IInv, NEW c \in CPUs, PickWild(c)
    PROVE  IInv'
  BY NothingMoves DEF PickWild

-----------------------------------------------------------------------------
(* Waking.                                                                 *)

\* What the queues and the flags are after unblock_one_task has got the n-th waiter.
LEMMA TakeOutFacts ==
    ASSUME IInv, NEW q \in Queues, NEW n \in 1..Len(queue[q]), TakeOut(q, n)
    PROVE  /\ queue' \in [Places -> Seq(Tasks)]
           /\ in_wait_queue' \in [Tasks -> BOOLEAN]
           /\ \A h \in Hands : queue'[h] = queue[h]
           /\ queue[q][n] \in spawned \ IdleTasks
           /\ \A p \in Places : \A i \in 1..Len(queue'[p]) :
                 /\ queue'[p][i] # queue[q][n]
                 /\ queue'[p][i] \in spawned \ IdleTasks
                 /\ \/ state[queue'[p][i]] = "Blocked"
                    \/ p \in WakerPlaces /\ \E d \in CPUs : current[d] = queue'[p][i] /\ pc[d] = "pended"
           /\ \A p, r \in Places : \A i \in 1..Len(queue'[p]), j \in 1..Len(queue'[r]) :
                 queue'[p][i] = queue'[r][j] => p = r /\ i = j
           /\ InWaitQueueExact'
  <1> DEFINE t == queue[q][n]
  <1>0. q \in Places /\ q \notin Hands /\ (q \in WakerPlaces <=> q \in WakerQueues)
    BY PlaceFacts
  <1>1. queue' = [queue EXCEPT ![q] = Without(@, n)]
    BY DEF TakeOut
  <1>2. /\ queue' \in [Places -> Seq(Tasks)]
        /\ t = queue[q][n]
        /\ \A p \in Places : \A i \in 1..Len(queue'[p]) :
              \E k \in 1..Len(queue[p]) :
                 /\ queue'[p][i] = queue[p][k] /\ queue'[p][i] # t /\ k = After(p, q, i, n)
        /\ \A p \in Places : \A k \in 1..Len(queue[p]) :
              queue[p][k] # t => \E i \in 1..Len(queue'[p]) : queue'[p][i] = queue[p][k]
    BY DropOne
  <1> HIDE DEF t
  <1>3. /\ \A p \in Places : \A i \in 1..Len(queue[p]) :
             /\ queue[p][i] \in spawned \ IdleTasks
             /\ \/ state[queue[p][i]] = "Blocked"
                \/ p \in WakerPlaces /\ \E d \in CPUs : current[d] = queue[p][i] /\ pc[d] = "pended"
        /\ \A p, r \in Places : \A i \in 1..Len(queue[p]), j \in 1..Len(queue[r]) :
             queue[p][i] = queue[r][j] => p = r /\ i = j
    BY DEF IInv, QueueInv
  <1>4. t \in spawned \ IdleTasks /\ t \in Tasks
    BY <1>0, <1>2, <1>3 DEF IInv, TypeOK
  <1>5. in_wait_queue' \in [Tasks -> BOOLEAN]
    BY <1>4 DEF TakeOut, IInv, TypeOK, t
  <1>6. ASSUME NEW p \in Places, NEW i \in 1..Len(queue'[p])
        PROVE  /\ queue'[p][i] # t
               /\ queue'[p][i] \in spawned \ IdleTasks
               /\ \/ state[queue'[p][i]] = "Blocked"
                  \/ p \in WakerPlaces /\ \E d \in CPUs : current[d] = queue'[p][i] /\ pc[d] = "pended"
    <2>1. PICK k \in 1..Len(queue[p]) : queue'[p][i] = queue[p][k] /\ queue'[p][i] # t
      BY <1>2
    <2> QED BY <1>3, <2>1
  <1>7. \A p, r \in Places : \A i \in 1..Len(queue'[p]), j \in 1..Len(queue'[r]) :
           queue'[p][i] = queue'[r][j] => p = r /\ i = j
    <2> SUFFICES ASSUME NEW p \in Places, NEW r \in Places, NEW i \in 1..Len(queue'[p]),
                        NEW j \in 1..Len(queue'[r]), queue'[p][i] = queue'[r][j]
                 PROVE  p = r /\ i = j
      OBVIOUS
    <2>1. PICK k \in 1..Len(queue[p]) : queue'[p][i] = queue[p][k] /\ k = After(p, q, i, n)
      BY <1>2
    <2>2. PICK m \in 1..Len(queue[r]) : queue'[r][j] = queue[r][m] /\ m = After(r, q, j, n)
      BY <1>2
    <2>3. p = r /\ k = m
      <3>1. queue[p][k] = queue[r][m]
        BY <2>1, <2>2
      <3>2. \A x, y \in Places : \A a \in 1..Len(queue[x]), b \in 1..Len(queue[y]) :
               queue[x][a] = queue[y][b] => x = y /\ a = b
        BY <1>3
      <3> QED BY <3>1, <3>2
    <2>4. Len(queue'[p]) \in Nat /\ Len(queue'[r]) \in Nat
      <3>1. queue' \in [Places -> Seq(Tasks)]
        BY <1>2
      <3> QED BY ONLY <3>1, p \in Places, r \in Places
    <2>5. n \in Nat /\ i \in Nat /\ j \in Nat
      BY <1>0, <2>4 DEF IInv, TypeOK
    <2> QED BY <2>1, <2>2, <2>3, <2>5 DEF After
  <1>8. InWaitQueueExact'
    <2>1. \A x \in Tasks : in_wait_queue'[x] =
             IF x = t /\ q \notin WakerQueues THEN FALSE ELSE in_wait_queue[x]
      BY <1>4 DEF TakeOut, IInv, TypeOK, t
    <2>2. ASSUME NEW x \in Tasks
          PROVE  in_wait_queue'[x] <=> \E p \in TaskPlaces : \E i \in 1..Len(queue'[p]) : queue'[p][i] = x
      <3>1. in_wait_queue[x] <=> \E p \in TaskPlaces : \E i \in 1..Len(queue[p]) : queue[p][i] = x
        BY DEF IInv, InWaitQueueExact, InQueue
      <3>2. CASE x = t
        <4>1. ~ \E p \in TaskPlaces : \E i \in 1..Len(queue'[p]) : queue'[p][i] = x
          BY <1>2, <3>2, PlaceFacts
        <4>2. q \in WakerQueues => ~ \E p \in TaskPlaces : \E i \in 1..Len(queue[p]) : queue[p][i] = x
          BY <1>0, <1>2, <1>3, <3>2, PlaceFacts
        <4> QED BY <2>1, <3>1, <3>2, <4>1, <4>2
      <3>3. CASE x # t
        <4>1. in_wait_queue'[x] = in_wait_queue[x]
          BY <2>1, <3>3
        <4>2. ASSUME NEW p \in TaskPlaces, NEW i \in 1..Len(queue[p]), queue[p][i] = x
              PROVE  \E j \in 1..Len(queue'[p]) : queue'[p][j] = x
          <5>1. \A k \in 1..Len(queue[p]) :
                   queue[p][k] # t => \E j \in 1..Len(queue'[p]) : queue'[p][j] = queue[p][k]
            BY <1>2, PlaceFacts
          <5> QED BY <3>3, <4>2, <5>1
        <4>3. ASSUME NEW p \in TaskPlaces, NEW i \in 1..Len(queue'[p]), queue'[p][i] = x
              PROVE  \E j \in 1..Len(queue[p]) : queue[p][j] = x
          BY <1>2, <4>3, PlaceFacts
        <4> QED BY <3>1, <4>1, <4>2, <4>3
      <3> QED BY <3>2, <3>3
    <2> QED BY <2>2 DEF InWaitQueueExact, InQueue
  <1>9. \A h \in Hands : queue'[h] = queue[h]
    BY <1>0, <1>1, PlaceFacts DEF IInv, TypeOK
  <1> QED BY <1>2, <1>4, <1>5, <1>6, <1>7, <1>8, <1>9 DEF t

\* A Blocked waiter is woken by a CPU, which holds the lock of its queue from then on.
LEMMA WakeUpKeeps ==
    ASSUME IInv, NEW c \in CPUs, NEW q \in Queues, NEW n \in 1..Len(queue[q]), NEW f \in Frames,
           WakeUp(c, q, n), state[queue[q][n]] = "Blocked",
           frame' = [frame EXCEPT ![current[c]] = f],
           FrameFits(c, "spin", f),
           pc[c] \in {"run", "notify"}
    PROVE  IInv'
  <1> DEFINE t == queue[q][n]
  <1>1. /\ state[t] = "Blocked" /\ TakeOut(q, n)
        /\ state' = [state EXCEPT ![t] = "Ready"]
        /\ waking' = [waking EXCEPT ![c] = t]
        /\ lock' = [lock EXCEPT ![q] = c]
        /\ pc' = [pc EXCEPT ![c] = "spin"]
        /\ UNCHANGED <<on_cpu, need_resched, kstack, exit_code, spawned, released,
                       current, prev_task, rq, pool, mode>>
    BY DEF WakeUp, Goto
  <1>2. /\ f.q \in Queues /\ f.op \in {"exit", "notify_one", "notify_all"}
        /\ current[c] \notin IdleTasks
        /\ OwnAt("spin", f) <=> Own(c)
    BY DEF FrameFits
  <1>3. /\ queue' \in [Places -> Seq(Tasks)]
        /\ in_wait_queue' \in [Tasks -> BOOLEAN]
        /\ t \in spawned \ IdleTasks
        /\ \A h \in Hands : queue'[h] = queue[h]
        /\ \A p \in Places : \A i \in 1..Len(queue'[p]) :
              /\ queue'[p][i] # t
              /\ queue'[p][i] \in spawned \ IdleTasks
              /\ \/ state[queue'[p][i]] = "Blocked"
                 \/ p \in WakerPlaces /\ \E d \in CPUs : current[d] = queue'[p][i] /\ pc[d] = "pended"
        /\ \A p, r \in Places : \A i \in 1..Len(queue'[p]), j \in 1..Len(queue'[r]) :
              queue'[p][i] = queue'[r][j] => p = r /\ i = j
        /\ InWaitQueueExact'
    BY <1>1, TakeOutFacts
  <1> HIDE DEF t
  <1>4. /\ t \in Tasks /\ spawned \subseteq Tasks
        /\ \A x \in Tasks : state'[x] = IF x = t THEN "Ready" ELSE state[x]
        /\ \A d \in CPUs : pc'[d] = IF d = c THEN "spin" ELSE pc[d]
        /\ \A d \in CPUs : waking'[d] = IF d = c THEN t ELSE waking[d]
        /\ \A x \in Tasks : frame'[x] = IF x = current[c] THEN f ELSE frame[x]
        /\ frame' \in [Tasks -> Frames]
        /\ current \in [CPUs -> Tasks]
        /\ \A d \in CPUs : current[d] = current[c] => d = c
    BY <1>1, <1>3 DEF IInv, TypeOK, CpuInv
  <1>5. TypeOK'
    BY <1>1, <1>2, <1>3, <1>4 DEF IInv, TypeOK, States, Labels
  <1>6. CpuInv'
    <2>1. \A d \in CPUs : Own(d)' <=> Own(d)
      BY <1>1, <1>2, <1>4 DEF Own
    <2> QED BY <1>1, <1>4, <2>1 DEF IInv, CpuInv
  <1>7. FrameInv'
    BY <1>1, <1>2, <1>4 DEF IInv, FrameInv, FrameFits, TargetFits
  <1>8. ReadyInv'
    <2>1. /\ \A d \in CPUs : \A i \in 1..Len(rq[d]) :
                rq[d][i] \in spawned \ IdleTasks /\ state[rq[d][i]] = "Ready"
          /\ \A d, e \in CPUs : \A i \in 1..Len(rq[d]), j \in 1..Len(rq[e]) :
                rq[d][i] = rq[e][j] => d = e /\ i = j
          /\ \A d \in CPUs : waking[d] # None <=> pc[d] = "spin"
          /\ \A d \in CPUs : waking[d] # None =>
                waking[d] \in spawned \ IdleTasks /\ state[waking[d]] = "Ready"
          /\ \A d, e \in CPUs : waking[d] # None /\ waking[d] = waking[e] => d = e
          /\ \A d, e \in CPUs : \A i \in 1..Len(rq[e]) : waking[d] # rq[e][i]
      BY DEF IInv, ReadyInv
    <2>2. \A d \in CPUs : waking'[d] # None <=> pc'[d] = "spin"
      BY <1>4, <2>1, TaskAssumption
    <2>3. \A d \in CPUs : \A i \in 1..Len(rq[d]) :
             rq[d][i] # t /\ rq[d][i] \in spawned \ IdleTasks /\ state'[rq[d][i]] = "Ready"
      BY <1>1, <1>4, <2>1
    <2>4. \A d \in CPUs : waking'[d] # None =>
             waking'[d] \in spawned \ IdleTasks /\ state'[waking'[d]] = "Ready"
      BY <1>3, <1>4, <2>1
    <2>5. \A d \in CPUs : waking[d] # t
      BY <1>1, <1>4, <2>1, TaskAssumption
    <2>6. \A d, e \in CPUs : waking'[d] # None /\ waking'[d] = waking'[e] => d = e
      BY <1>4, <2>1, <2>5
    <2>7. \A d, e \in CPUs : \A i \in 1..Len(rq[e]) : waking'[d] # rq[e][i]
      BY <1>4, <2>1, <2>3
    <2>8. rq' = rq /\ spawned' = spawned
      BY <1>1
    <2>9. \A d, e \in CPUs : \A i \in 1..Len(rq[d]), j \in 1..Len(rq[e]) :
             rq[d][i] = rq[e][j] => d = e /\ i = j
      BY <2>1
    <2> QED BY ONLY <2>2, <2>3, <2>4, <2>6, <2>7, <2>8, <2>9 DEF ReadyInv
  <1>9. QueueInv'
    <2>1. \A p \in Places : \A i \in 1..Len(queue'[p]) :
             \/ state'[queue'[p][i]] = "Blocked"
             \/ p \in WakerPlaces /\ \E d \in CPUs : current[d] = queue'[p][i] /\ pc'[d] = "pended"
      <3> SUFFICES ASSUME NEW p \in Places, NEW i \in 1..Len(queue'[p])
                   PROVE  \/ state'[queue'[p][i]] = "Blocked"
                          \/ p \in WakerPlaces /\ \E d \in CPUs : current[d] = queue'[p][i] /\ pc'[d] = "pended"
        OBVIOUS
      <3>1. queue'[p][i] \in Tasks /\ queue'[p][i] # t
        BY <1>3, <1>4
      <3>2. \/ state[queue'[p][i]] = "Blocked"
            \/ p \in WakerPlaces /\ \E d \in CPUs : current[d] = queue'[p][i] /\ pc[d] = "pended"
        BY <1>3
      <3> QED BY <1>1, <1>4, <3>1, <3>2
    <2>2. HandInv'
      BY <1>1, <1>3, <1>4, HandsKept
    <2> QED BY <1>1, <1>3, <2>1, <2>2 DEF QueueInv
  <1>10. IdleInv'
    <2>1. \A d \in CPUs : idle_task[d] # t /\ idle_task[d] \in Tasks
      BY <1>3, TaskAssumption DEF IdleTasks
    <2> QED BY <1>1, <1>2, <1>3, <1>4, <2>1 DEF IInv, IdleInv
  <1> QED BY <1>3, <1>5, <1>6, <1>7, <1>8, <1>9, <1>10 DEF IInv

\* The first waiter of the queue is woken by a notify, or by the exit of the queue's task.
LEMMA NotifyWakeKeeps ==
    ASSUME IInv, NEW c \in CPUs, NotifyWake(c)
    PROVE  IInv'
  <1> DEFINE f == frame[current[c]]
  <1>1. /\ pc[c] = "notify" /\ queue[f.q] # <<>> /\ state[queue[f.q][1]] = "Blocked"
        /\ WakeUp(c, f.q, 1) /\ frame' = frame
    BY DEF NotifyWake, At, Wakeable
  <1>2. /\ f.q \in Queues /\ f.op \in {"exit", "notify_one", "notify_all"}
        /\ current[c] \notin IdleTasks
    BY <1>1, CurrentFacts
  <1>3. f \in Frames /\ frame' = [frame EXCEPT ![current[c]] = f]
    BY <1>1, SameFrame
  <1>4. FrameFits(c, "spin", f)
    BY <1>1, <1>2, CurrentFacts DEF FrameFits, Own, OwnAt
  <1>5. 1 \in 1..Len(queue[f.q])
    BY <1>1, <1>2, PlaceFacts, TailFacts DEF IInv, TypeOK
  <1> HIDE DEF f
  <1> QED BY <1>1, <1>2, <1>3, <1>4, <1>5, WakeUpKeeps

\* notify_task finds the task Blocked and wakes it.
LEMMA NotifyTaskKeeps ==
    ASSUME IInv, NEW c \in CPUs, NEW q \in WaitQueues, NEW n, NEW r \in ReschedFlags,
           NotifyTask(c, q, n, r)
    PROVE  IInv'
  <1> DEFINE f == [op |-> "notify_one", q |-> q, resched |-> r]
  <1>1. pc[c] = "run" /\ n \in 1..Len(queue[q]) /\ current[c] \notin IdleTasks
    BY DEF NotifyTask, MayCall, At
  <1>2. q \in Queues /\ q \in Places /\ q \notin WakerPlaces
    BY PlaceFacts, QueueAssumption DEF Queues
  <1>3. state[queue[q][n]] = "Blocked"
    BY <1>1, <1>2 DEF IInv, QueueInv
  <1>4. f \in Frames
    BY <1>2, ParameterAssumption DEF Frames, Ops
  <1>5. FrameFits(c, "spin", f)
    BY <1>1, <1>2 DEF FrameFits, TargetFits, Own, OwnAt
  <1>6. WakeUp(c, q, n) /\ frame' = [frame EXCEPT ![current[c]] = f]
    BY <1>3 DEF NotifyTask, Wakeable
  <1> HIDE DEF f
  <1> QED BY <1>1, <1>2, <1>3, <1>4, <1>5, <1>6, WakeUpKeeps

\* Where a CPU is after one turn of notify, and the call its task is in.
AfterLabel(c) == IF frame[current[c]].op = "notify_one" THEN "run" ELSE "notify"

AfterFrame(c) == IF frame[current[c]].op = "notify_one" THEN NoFrame ELSE frame[current[c]]

\* Where a notifier is after one turn.
LEMMA AfterWakeFacts ==
    ASSUME IInv, NEW c \in CPUs, pc[c] \in {"notify", "spin"}, AfterWake(c)
    PROVE  /\ pc' = [pc EXCEPT ![c] = AfterLabel(c)]
           /\ frame' = [frame EXCEPT ![current[c]] = AfterFrame(c)]
           /\ AfterLabel(c) \in {"run", "notify"}
           /\ AfterFrame(c) \in Frames
           /\ FrameFits(c, AfterLabel(c), AfterFrame(c))
           /\ pc' \in [CPUs -> Labels]
           /\ frame' \in [Tasks -> Frames]
  <1>1. /\ frame[current[c]].q \in Queues
        /\ frame[current[c]].op \in {"exit", "notify_one", "notify_all"}
        /\ current[c] \notin IdleTasks
    BY CurrentFacts
  <1>2. NoFrame \in Frames /\ NoFrame.op = "none"
    BY DEF NoFrame, Frames, Ops
  <1>3. /\ pc' = [pc EXCEPT ![c] = AfterLabel(c)]
        /\ frame' = [frame EXCEPT ![current[c]] = AfterFrame(c)]
    BY SameFrame DEF AfterWake, Goto, AfterLabel, AfterFrame
  <1>4. AfterLabel(c) \in {"run", "notify"} /\ AfterFrame(c) \in Frames
    BY <1>2, SameFrame DEF AfterLabel, AfterFrame
  <1>5. FrameFits(c, AfterLabel(c), AfterFrame(c))
    <2>1. CASE frame[current[c]].op = "notify_one"
      <3>1. AfterLabel(c) = "run" /\ AfterFrame(c).op = "none"
        BY <1>2, <2>1 DEF AfterLabel, AfterFrame
      <3> QED BY <1>1, <2>1, <3>1 DEF FrameFits, TargetFits, Own, OwnAt
    <2>2. CASE frame[current[c]].op # "notify_one"
      <3>1. AfterLabel(c) = "notify" /\ AfterFrame(c) = frame[current[c]]
        BY <2>2 DEF AfterLabel, AfterFrame
      <3> QED BY <1>1, <3>1, CurrentFacts DEF FrameFits, Own, OwnAt
    <2> QED BY <2>1, <2>2
  <1>6. pc' \in [CPUs -> Labels] /\ frame' \in [Tasks -> Frames]
    BY <1>3, <1>4 DEF IInv, TypeOK, Labels
  <1> QED BY <1>3, <1>4, <1>5, <1>6

\* The taken task was not Blocked.
LEMMA NotifyLostKeeps ==
    ASSUME IInv, NEW c \in CPUs, NotifyLost(c)
    PROVE  IInv'
  <1> DEFINE q == frame[current[c]].q
  <1>1. /\ pc[c] = "notify" /\ queue[q] # <<>> /\ TakeOut(q, 1) /\ AfterWake(c)
        /\ UNCHANGED <<state, on_cpu, need_resched, kstack, exit_code, spawned, released,
                       current, prev_task, rq, pool, waking, lock, mode>>
    BY DEF NotifyLost, At, cpuVars
  <1>2. q \in Queues
    BY <1>1, CurrentFacts
  <1>0. 1 \in 1..Len(queue[q])
    BY <1>1, <1>2, PlaceFacts, TailFacts DEF IInv, TypeOK
  <1> HIDE DEF q
  <1>3. /\ queue' \in [Places -> Seq(Tasks)]
        /\ in_wait_queue' \in [Tasks -> BOOLEAN]
        /\ \A h \in Hands : queue'[h] = queue[h]
        /\ \A p \in Places : \A i \in 1..Len(queue'[p]) :
              /\ queue'[p][i] \in spawned \ IdleTasks
              /\ \/ state[queue'[p][i]] = "Blocked"
                 \/ p \in WakerPlaces /\ \E d \in CPUs : current[d] = queue'[p][i] /\ pc[d] = "pended"
        /\ \A p, r \in Places : \A i \in 1..Len(queue'[p]), j \in 1..Len(queue'[r]) :
              queue'[p][i] = queue'[r][j] => p = r /\ i = j
        /\ InWaitQueueExact'
    BY <1>0, <1>1, <1>2, TakeOutFacts
  <1>4. /\ pc' = [pc EXCEPT ![c] = AfterLabel(c)]
        /\ frame' = [frame EXCEPT ![current[c]] = AfterFrame(c)]
        /\ AfterLabel(c) \in {"run", "notify"}
        /\ AfterFrame(c) \in Frames
        /\ FrameFits(c, AfterLabel(c), AfterFrame(c))
        /\ pc' \in [CPUs -> Labels]
        /\ frame' \in [Tasks -> Frames]
    BY <1>1, AfterWakeFacts
  <1>5. AfterLabel(c) \in Labels
    BY <1>4 DEF Labels
  <1>6. CpuInv' /\ FrameInv' /\ IdleInv' /\ ReadyInv'
    BY <1>1, <1>4, <1>5, LocalMove
  <1>7. QueueInv'
    <2>1. \A d \in CPUs : pc[d] = "pended" => pc'[d] = "pended"
      BY <1>1, <1>4
    <2>2. HandInv'
      <3>1. \A x \in Tasks \ {current[c]} : frame'[x] = frame[x]
        BY <1>4 DEF IInv, TypeOK
      <3> QED BY <1>1, <1>3, <1>4, <3>1, HandsKept
    <2> QED BY <1>1, <1>3, <2>1, <2>2 DEF QueueInv
  <1>8. TypeOK'
    BY <1>1, <1>3, <1>4 DEF IInv, TypeOK
  <1> QED BY <1>3, <1>6, <1>7, <1>8 DEF IInv

\* The woken task enters the ready queue of the waking CPU.
LEMMA SpinKeeps ==
    ASSUME IInv, NEW c \in CPUs, Spin(c)
    PROVE  IInv'
  <1> DEFINE q == frame[current[c]].q
             t == waking[c]
  <1>1. /\ pc[c] = "spin" /\ AfterWake(c)
        /\ rq' = [rq EXCEPT ![c] = Enqueue(@, t)]
        /\ waking' = [waking EXCEPT ![c] = None]
        /\ lock' = [lock EXCEPT ![q] = None]
        /\ need_resched' = IF frame[current[c]].resched \/ q \in WakerQueues
                           THEN [need_resched EXCEPT ![current[c]] = TRUE] ELSE need_resched
        /\ UNCHANGED <<state, on_cpu, in_wait_queue, kstack, exit_code, spawned, released,
                       current, prev_task, pool, queue, mode>>
    BY DEF Spin, At
  <1>2. /\ pc' = [pc EXCEPT ![c] = AfterLabel(c)]
        /\ frame' = [frame EXCEPT ![current[c]] = AfterFrame(c)]
        /\ AfterLabel(c) \in {"run", "notify"}
        /\ AfterFrame(c) \in Frames
        /\ FrameFits(c, AfterLabel(c), AfterFrame(c))
        /\ pc' \in [CPUs -> Labels]
        /\ frame' \in [Tasks -> Frames]
    BY <1>1, AfterWakeFacts
  <1>3. AfterLabel(c) \in Labels
    BY <1>2 DEF Labels
  <1>4. CpuInv' /\ FrameInv' /\ IdleInv' /\ QueueInv'
    BY <1>1, <1>2, <1>3, LocalMove
  <1>5. /\ t \in spawned \ IdleTasks /\ state[t] = "Ready" /\ t \in Tasks
        /\ \A d \in CPUs : waking[d] = t => d = c
        /\ \A d \in CPUs : \A i \in 1..Len(rq[d]) : rq[d][i] # t
        /\ \A d \in CPUs : waking[d] # None <=> pc[d] = "spin"
    BY <1>1 DEF IInv, ReadyInv, TypeOK
  <1>6. \A d \in CPUs : waking'[d] = IF d = c THEN None ELSE waking[d]
    BY <1>1 DEF IInv, TypeOK
  <1>7. \A d \in CPUs : pc'[d] = IF d = c THEN AfterLabel(c) ELSE pc[d]
    BY <1>2 DEF IInv, TypeOK
  <1> HIDE DEF t, q
  <1>8. rq' \in [CPUs -> Seq(Tasks)] /\ ReadyInv'
    <2>1. \A d \in CPUs : waking'[d] # t /\ waking'[d] \in {waking[d], None}
      BY <1>5, <1>6, TaskAssumption
    <2>2. \A d \in CPUs : waking'[d] # None <=> pc'[d] = "spin"
      BY <1>2, <1>5, <1>6, <1>7
    <2>3. \A x \in Tasks : state'[x] = "Ready" <=> x = t \/ state[x] = "Ready"
      BY <1>1, <1>5
    <2>4. spawned \subseteq spawned' /\ t \in spawned' \ IdleTasks
      BY <1>1, <1>5
    <2> QED BY <1>1, <1>5, <2>1, <2>2, <2>3, <2>4, EnqueueReady
  <1>9. TypeOK'
    <2>1. need_resched' \in [Tasks -> BOOLEAN]
      BY <1>1 DEF IInv, TypeOK
    <2>2. lock' \in [Queues -> CPUs \cup {None}]
      BY <1>1 DEF IInv, TypeOK
    <2>3. waking' \in [CPUs -> Tasks \cup {None}]
      BY <1>1 DEF IInv, TypeOK
    <2> QED BY <1>1, <1>2, <1>8, <2>1, <2>2, <2>3 DEF IInv, TypeOK
  <1> QED BY <1>1, <1>4, <1>8, <1>9, SameQueues DEF IInv

-----------------------------------------------------------------------------
(* Moving waiters to another queue.                                        *)

\* The hand a requeue uses is of the kind of its queue.
LEMMA HandOfFacts ==
    ASSUME NEW c \in CPUs, NEW q \in Queues
    PROVE  /\ HandOf(c, q) \in Hands /\ HandOf(c, q)[1] = c /\ HandOf(c, q) \in Places
           /\ HandOf(c, q) \in WakerPlaces <=> q \in WakerPlaces
           /\ HandOf(c, q) # q
  <1>1. HandOf(c, q) \in Hands /\ HandOf(c, q)[1] = c
    BY DEF HandOf, Hands
  <1>2. HandOf(c, q) \in Places /\ HandOf(c, q) # q
    BY <1>1, PlaceFacts
  <1>3. HandOf(c, q) \in WakerPlaces <=> q \in WakerQueues
    <2>1. HandOf(c, q) \notin WakerQueues
      BY <1>1, QueueAssumption DEF Queues
    <2>2. HandOf(c, q) \in CPUs \X {"wakers"} <=> q \in WakerQueues
      BY DEF HandOf
    <2> QED BY <2>1, <2>2 DEF WakerPlaces
  <1> QED BY <1>1, <1>2, <1>3, PlaceFacts

\* Waiters that move between places of one kind, none lost, none twice, keep the invariant.
LEMMA MoveKeeps ==
    ASSUME IInv, UNCHANGED <<state, in_wait_queue, spawned, current>>, HandInv',
           \A d \in CPUs : pc[d] = "pended" => pc'[d] = "pended",
           \A p \in Places : \A i \in 1..Len(queue'[p]) :
              \E r \in Places : \E k \in 1..Len(queue[r]) :
                 queue'[p][i] = queue[r][k] /\ (r \in WakerPlaces <=> p \in WakerPlaces),
           \A r \in Places : \A k \in 1..Len(queue[r]) :
              \E p \in Places : \E i \in 1..Len(queue'[p]) :
                 queue'[p][i] = queue[r][k] /\ (r \in WakerPlaces <=> p \in WakerPlaces),
           \A p \in Places : \A i \in 1..Len(queue'[p]) :
              \A r \in Places : \A j \in 1..Len(queue'[r]) :
                 queue'[p][i] = queue'[r][j] => p = r /\ i = j
    PROVE  QueueInv' /\ InWaitQueueExact'
  <1>1. QueueInv'
    <2>1. ASSUME NEW p \in Places, NEW i \in 1..Len(queue'[p])
          PROVE  /\ queue'[p][i] \in spawned \ IdleTasks
                 /\ \/ state[queue'[p][i]] = "Blocked"
                    \/ p \in WakerPlaces /\ \E d \in CPUs : current[d] = queue'[p][i] /\ pc'[d] = "pended"
      <3>1. PICK r \in Places : \E k \in 1..Len(queue[r]) :
               queue'[p][i] = queue[r][k] /\ (r \in WakerPlaces <=> p \in WakerPlaces)
        OBVIOUS
      <3>2. PICK k \in 1..Len(queue[r]) :
               queue'[p][i] = queue[r][k] /\ (r \in WakerPlaces <=> p \in WakerPlaces)
        BY <3>1
      <3>3. /\ queue[r][k] \in spawned \ IdleTasks
            /\ \/ state[queue[r][k]] = "Blocked"
               \/ r \in WakerPlaces /\ \E d \in CPUs : current[d] = queue[r][k] /\ pc[d] = "pended"
        BY DEF IInv, QueueInv
      <3> QED BY <3>2, <3>3
    <2>2. \A p \in Places : \A i \in 1..Len(queue'[p]) :
             \A r \in Places : \A j \in 1..Len(queue'[r]) :
                queue'[p][i] = queue'[r][j] => p = r /\ i = j
      OBVIOUS
    <2>3. UNCHANGED <<state, spawned, current>> /\ HandInv'
      OBVIOUS
    <2> QED BY ONLY <2>1, <2>2, <2>3 DEF QueueInv
  <1>2. InWaitQueueExact'
    <2>1. ASSUME NEW x \in Tasks
          PROVE  in_wait_queue[x] <=> \E p \in TaskPlaces : \E i \in 1..Len(queue'[p]) : queue'[p][i] = x
      <3>1. in_wait_queue[x] <=> \E p \in TaskPlaces : \E i \in 1..Len(queue[p]) : queue[p][i] = x
        BY DEF IInv, InWaitQueueExact, InQueue
      <3>2. ASSUME NEW p \in TaskPlaces, NEW i \in 1..Len(queue[p]), queue[p][i] = x
            PROVE  \E r \in TaskPlaces : \E j \in 1..Len(queue'[r]) : queue'[r][j] = x
        BY <3>2, PlaceFacts
      <3>3. ASSUME NEW p \in TaskPlaces, NEW i \in 1..Len(queue'[p]), queue'[p][i] = x
            PROVE  \E r \in TaskPlaces : \E j \in 1..Len(queue[r]) : queue[r][j] = x
        BY <3>3, PlaceFacts
      <3> QED BY <3>1, <3>2, <3>3
    <2> QED BY <2>1 DEF InWaitQueueExact, InQueue
  <1> QED BY <1>1, <1>2

\* The first waiters of a queue go to the hand of the CPU, which was empty.
LEMMA RequeueKeeps ==
    ASSUME IInv, NEW c \in CPUs, NEW q \in WaitQueues \cup WakerQueues,
           NEW target \in WaitQueues \cup WakerQueues, NEW n, Requeue(c, q, target, n)
    PROVE  IInv'
  <1> DEFINE h == HandOf(c, q)
             f == [op |-> "requeue", q |-> target, resched |-> FALSE]
  <1>1. /\ pc[c] = "run" /\ current[c] \notin IdleTasks
        /\ q \in WakerQueues <=> target \in WakerQueues
        /\ n \in 1..Len(queue[q])
        /\ queue' = [queue EXCEPT ![q] = SubSeq(queue[q], n + 1, Len(queue[q])),
                                  ![h] = SubSeq(queue[q], 1, n)]
        /\ frame' = [frame EXCEPT ![current[c]] = f]
        /\ pc' = [pc EXCEPT ![c] = "requeue"]
        /\ UNCHANGED <<state, on_cpu, in_wait_queue, need_resched, kstack, exit_code, spawned,
                       released, current, prev_task, rq, pool, waking, lock, mode>>
    BY DEF Requeue, MayCall, At, Goto, cpuVars
  <1>2. /\ q \in Queues /\ q \in Places /\ f \in Frames
        /\ h \in Hands /\ h[1] = c /\ h \in Places /\ h # q
        /\ h \in WakerPlaces <=> q \in WakerPlaces
        /\ h = HandOf(c, target)
        /\ queue \in [Places -> Seq(Tasks)] /\ queue[h] = <<>>
    <2>1. q \in Queues /\ q \in Places /\ f \in Frames
      BY PlaceFacts DEF Queues, Frames, Ops
    <2>2. h \in Hands /\ h[1] = c /\ h \in Places /\ h # q /\ (h \in WakerPlaces <=> q \in WakerPlaces)
      BY <2>1, HandOfFacts
    <2>3. h = HandOf(c, target)
      BY <1>1 DEF HandOf
    <2>4. queue[h] = <<>>
      BY <1>1, <2>2 DEF IInv, QueueInv, HandInv
    <2> QED BY <2>1, <2>2, <2>3, <2>4 DEF IInv, TypeOK
  <1>3. CpuInv' /\ FrameInv' /\ IdleInv' /\ ReadyInv'
    <2>1. FrameFits(c, "requeue", f)
      BY <1>1 DEF FrameFits, TargetFits, Own, OwnAt
    <2> QED BY <1>1, <1>2, <2>1, LocalMove DEF Labels
  <1> HIDE DEF f
  <1>4. HandInv'
    <2> SUFFICES ASSUME NEW d \in CPUs, NEW k \in Hands, k[1] = d, queue'[k] # <<>>
                 PROVE  pc'[d] = "requeue" /\ k = HandOf(d, frame'[current'[d]].q)
      BY DEF HandInv, HandOf
    <2>1. CASE k = h
      <3>1. pc'[c] = "requeue" /\ frame'[current'[c]].q = target
        BY <1>1 DEF IInv, TypeOK, f
      <3> QED BY <1>2, <2>1, <3>1
    <2>2. CASE k # h
      <3>1. k # q /\ k \in Places
        BY <1>2, PlaceFacts
      <3>2. queue[k] # <<>>
        BY <1>1, <1>2, <2>2, <3>1
      <3>3. pc[d] = "requeue" /\ k = HandOf(d, frame[current[d]].q)
        BY <3>2 DEF IInv, QueueInv, HandInv
      <3>4. d # c /\ current[d] # current[c] /\ current[d] \in Tasks
        BY <1>1, <3>3 DEF IInv, CpuInv, TypeOK
      <3> QED BY <1>1, <3>3, <3>4 DEF IInv, TypeOK
    <2> QED BY <2>1, <2>2
  <1> HIDE DEF h
  <1>5. /\ SubSeq(queue[q], 1, n) \in Seq(Tasks) /\ SubSeq(queue[q], n + 1, Len(queue[q])) \in Seq(Tasks)
        /\ Len(queue[q]) \in Nat /\ n \in Nat
        /\ Len(SubSeq(queue[q], 1, n)) = n
        /\ Len(SubSeq(queue[q], n + 1, Len(queue[q]))) = Len(queue[q]) - n
        /\ \A i \in 1..n : SubSeq(queue[q], 1, n)[i] = queue[q][i]
        /\ \A i \in 1..(Len(queue[q]) - n) : SubSeq(queue[q], n + 1, Len(queue[q]))[i] = queue[q][i + n]
    <2>1. queue[q] \in Seq(Tasks)
      BY <1>2
    <2> QED BY <1>1, <2>1, CutFacts
  <1>6. /\ queue' \in [Places -> Seq(Tasks)]
        /\ Len(queue'[h]) = n /\ \A i \in 1..n : queue'[h][i] = queue[q][i]
        /\ Len(queue'[q]) = Len(queue[q]) - n
        /\ \A i \in 1..(Len(queue[q]) - n) : queue'[q][i] = queue[q][i + n]
        /\ \A p \in Places : p # q /\ p # h => queue'[p] = queue[p]
    <2>1. queue'[h] = SubSeq(queue[q], 1, n)
      BY <1>1, <1>2
    <2>2. queue'[q] = SubSeq(queue[q], n + 1, Len(queue[q]))
      BY <1>1, <1>2
    <2>3. \A p \in Places : p # q /\ p # h => queue'[p] = queue[p]
      BY <1>1, <1>2
    <2>4. queue' \in [Places -> Seq(Tasks)]
      BY <1>1, <1>2, <1>5
    <2> QED BY <1>5, <2>1, <2>2, <2>3, <2>4
  <1>7. ASSUME NEW p \in Places, NEW i \in 1..Len(queue'[p])
        PROVE  LET r == IF p = h THEN q ELSE p
                   k == IF p = q THEN i + n ELSE i
               IN  r \in Places /\ k \in 1..Len(queue[r]) /\ queue'[p][i] = queue[r][k]
                   /\ (r \in WakerPlaces <=> p \in WakerPlaces)
    <2>1. CASE p = h
      <3>1. i \in 1..n /\ queue'[h][i] = queue[q][i] /\ i \in 1..Len(queue[q])
        BY <1>1, <1>5, <1>6, <2>1
      <3> QED BY <1>2, <2>1, <3>1
    <2>2. CASE p = q
      <3>1. i \in 1..(Len(queue[q]) - n) /\ i + n \in 1..Len(queue[q])
        BY <1>1, <1>5, <1>6, <2>2
      <3> QED BY <1>2, <1>6, <2>2, <3>1
    <2>3. CASE p # h /\ p # q
      BY <1>6, <2>3
    <2> QED BY <2>1, <2>2, <2>3
  <1>8. ASSUME NEW r \in Places, NEW k \in 1..Len(queue[r])
        PROVE  \E p \in Places : \E i \in 1..Len(queue'[p]) :
                  queue'[p][i] = queue[r][k] /\ (r \in WakerPlaces <=> p \in WakerPlaces)
    <2>1. CASE r = q /\ k \in 1..n
      BY <1>2, <1>6, <2>1
    <2>2. CASE r = q /\ k \notin 1..n
      <3>1. k - n \in 1..(Len(queue[q]) - n) /\ (k - n) + n = k
        BY <1>1, <1>5, <2>2
      <3> QED BY <1>2, <1>6, <2>2, <3>1
    <2>3. CASE r # q
      <3>1. r # h
        BY <1>2
      <3> QED BY <1>6, <2>3, <3>1
    <2> QED BY <2>1, <2>2, <2>3
  <1>9. ASSUME NEW p \in Places, NEW i \in 1..Len(queue'[p]),
               NEW r \in Places, NEW j \in 1..Len(queue'[r]), queue'[p][i] = queue'[r][j]
        PROVE  p = r /\ i = j
    <2> DEFINE pp == IF p = h THEN q ELSE p
               rr == IF r = h THEN q ELSE r
               ii == IF p = q THEN i + n ELSE i
               jj == IF r = q THEN j + n ELSE j
    <2>1. /\ pp \in Places /\ ii \in 1..Len(queue[pp]) /\ queue'[p][i] = queue[pp][ii]
          /\ rr \in Places /\ jj \in 1..Len(queue[rr]) /\ queue'[r][j] = queue[rr][jj]
      BY <1>7
    <2> HIDE DEF pp, rr, ii, jj
    <2>2. pp = rr /\ ii = jj
      <3>1. queue[pp][ii] = queue[rr][jj]
        BY <1>9, <2>1
      <3> QED BY <2>1, <3>1 DEF IInv, QueueInv
    <2>3. p = h => i \in 1..n
      BY <1>6
    <2>4. r = h => j \in 1..n
      BY <1>6
    <2>5. i \in Nat \ {0} /\ j \in Nat \ {0}
      BY <1>6
    <2> QED BY <1>2, <1>5, <2>2, <2>3, <2>4, <2>5 DEF pp, rr, ii, jj
  <1>10. QueueInv' /\ InWaitQueueExact'
    <2>1. \A p \in Places : \A i \in 1..Len(queue'[p]) :
             \E r \in Places : \E k \in 1..Len(queue[r]) :
                queue'[p][i] = queue[r][k] /\ (r \in WakerPlaces <=> p \in WakerPlaces)
      BY <1>7
    <2>2. \A d \in CPUs : pc[d] = "pended" => pc'[d] = "pended"
      BY <1>1
    <2> QED BY <1>1, <1>4, <1>8, <1>9, <2>1, <2>2, MoveKeeps
  <1>11. TypeOK'
    BY <1>1, <1>2, <1>6 DEF IInv, TypeOK, Labels
  <1> QED BY <1>3, <1>10, <1>11 DEF IInv

\* The waiters in the hand join the target.
LEMMA FinishRequeueKeeps ==
    ASSUME IInv, NEW c \in CPUs, FinishRequeue(c)
    PROVE  IInv'
  <1> DEFINE q == frame[current[c]].q
             h == HandOf(c, q)
             n == Len(queue[q])
  <1>1. /\ pc[c] = "requeue"
        /\ queue' = [queue EXCEPT ![q] = queue[q] \o queue[h], ![h] = <<>>]
        /\ frame' = [frame EXCEPT ![current[c]] = NoFrame]
        /\ pc' = [pc EXCEPT ![c] = "run"]
        /\ UNCHANGED <<state, on_cpu, in_wait_queue, need_resched, kstack, exit_code, spawned,
                       released, current, prev_task, rq, pool, waking, lock, mode>>
    BY DEF FinishRequeue, At, Goto, cpuVars
  <1>2. /\ q \in Queues /\ q \in Places /\ NoFrame \in Frames
        /\ h \in Hands /\ h[1] = c /\ h \in Places /\ h # q
        /\ h \in WakerPlaces <=> q \in WakerPlaces
        /\ queue \in [Places -> Seq(Tasks)]
    <2>1. q \in Queues
      BY <1>1, CurrentFacts DEF TargetFits, Queues
    <2>2. q \in Places /\ NoFrame \in Frames
      BY <2>1, PlaceFacts DEF NoFrame, Frames, Ops
    <2> HIDE DEF q
    <2>3. h \in Hands /\ h[1] = c /\ h \in Places /\ h # q /\ (h \in WakerPlaces <=> q \in WakerPlaces)
      BY <2>1, HandOfFacts
    <2> QED BY <2>1, <2>2, <2>3 DEF IInv, TypeOK
  <1>3. CpuInv' /\ FrameInv' /\ IdleInv' /\ ReadyInv'
    <2>1. FrameFits(c, "run", NoFrame)
      BY <1>1 DEF FrameFits, TargetFits, Own, OwnAt, NoFrame
    <2> QED BY <1>1, <1>2, <2>1, LocalMove DEF Labels
  <1>4. HandInv'
    <2> SUFFICES ASSUME NEW d \in CPUs, NEW k \in Hands, k[1] = d, queue'[k] # <<>>
                 PROVE  pc'[d] = "requeue" /\ k = HandOf(d, frame'[current'[d]].q)
      BY DEF HandInv, HandOf
    <2>1. k # q /\ k \in Places
      BY <1>2, PlaceFacts
    <2>2. k # h
      BY <1>1, <1>2
    <2>3. queue[k] # <<>>
      BY <1>1, <1>2, <2>1, <2>2
    <2>4. pc[d] = "requeue" /\ k = HandOf(d, frame[current[d]].q)
      BY <2>3 DEF IInv, QueueInv, HandInv
    <2>5. d # c /\ current[d] # current[c] /\ current[d] \in Tasks
      BY <2>2, <2>4 DEF IInv, CpuInv, TypeOK
    <2> QED BY <1>1, <2>4, <2>5 DEF IInv, TypeOK
  <1> HIDE DEF q, h, n
  <1>5. /\ queue' \in [Places -> Seq(Tasks)]
        /\ n \in Nat /\ Len(queue[h]) \in Nat /\ n = Len(queue[q])
        /\ Len(queue'[h]) = 0
        /\ Len(queue'[q]) = n + Len(queue[h])
        /\ \A i \in 1..n : queue'[q][i] = queue[q][i]
        /\ \A i \in 1..Len(queue[h]) : queue'[q][i + n] = queue[h][i]
        /\ \A i \in 1..Len(queue'[q]) :
              (i \in 1..n /\ queue'[q][i] = queue[q][i])
              \/ (i - n \in 1..Len(queue[h]) /\ queue'[q][i] = queue[h][i - n])
        /\ \A p \in Places : p # q /\ p # h => queue'[p] = queue[p]
    <2>1. queue'[h] = <<>> /\ queue'[q] = queue[q] \o queue[h]
      BY <1>1, <1>2
    <2>2. queue[q] \in Seq(Tasks) /\ queue[h] \in Seq(Tasks)
      BY <1>2
    <2>3. \A p \in Places : p # q /\ p # h => queue'[p] = queue[p]
      BY <1>1, <1>2
    <2>4. queue[q] \o queue[h] \in Seq(Tasks)
      BY <2>2, ConcatFacts
    <2>5. queue' \in [Places -> Seq(Tasks)]
      <3>1. <<>> \in Seq(Tasks)
        OBVIOUS
      <3> QED BY <1>1, <1>2, <2>4, <3>1
    <2>6. /\ queue[q] \o queue[h] \in Seq(Tasks)
          /\ Len(queue[q]) \in Nat /\ Len(queue[h]) \in Nat
          /\ Len(queue[q] \o queue[h]) = Len(queue[q]) + Len(queue[h])
          /\ \A i \in 1..Len(queue[q]) : (queue[q] \o queue[h])[i] = queue[q][i]
          /\ \A i \in 1..Len(queue[h]) : (queue[q] \o queue[h])[i + Len(queue[q])] = queue[h][i]
          /\ \A i \in 1..Len(queue[q] \o queue[h]) :
                (i \in 1..Len(queue[q]) /\ (queue[q] \o queue[h])[i] = queue[q][i])
                \/ (i - Len(queue[q]) \in 1..Len(queue[h])
                    /\ (queue[q] \o queue[h])[i] = queue[h][i - Len(queue[q])])
      <3>1. ASSUME NEW s \in Seq(Tasks), NEW t \in Seq(Tasks)
            PROVE  /\ s \o t \in Seq(Tasks)
                   /\ Len(s) \in Nat /\ Len(t) \in Nat
                   /\ Len(s \o t) = Len(s) + Len(t)
                   /\ \A i \in 1..Len(s) : (s \o t)[i] = s[i]
                   /\ \A i \in 1..Len(t) : (s \o t)[i + Len(s)] = t[i]
                   /\ \A i \in 1..Len(s \o t) :
                         (i \in 1..Len(s) /\ (s \o t)[i] = s[i])
                         \/ (i - Len(s) \in 1..Len(t) /\ (s \o t)[i] = t[i - Len(s)])
        BY ConcatFacts
      <3> QED BY <2>2, <3>1, Zenon
    <2>7. n = Len(queue[q]) /\ Len(queue'[h]) = 0
      BY <2>1 DEF n
    <2> QED BY <2>1, <2>3, <2>5, <2>6, <2>7
  <1>6. ASSUME NEW p \in Places, NEW i \in 1..Len(queue'[p])
        PROVE  LET moved == p = q /\ i \notin 1..n
                   r == IF moved THEN h ELSE p
                   k == IF moved THEN i - n ELSE i
               IN  p # h /\ r \in Places /\ k \in 1..Len(queue[r]) /\ queue'[p][i] = queue[r][k]
                   /\ (r \in WakerPlaces <=> p \in WakerPlaces)
    <2>1. p # h
      BY <1>5
    <2>2. CASE p = q
      BY <1>2, <1>5, <2>1, <2>2
    <2>3. CASE p # q
      BY <1>5, <2>1, <2>3
    <2> QED BY <2>2, <2>3
  <1>7. ASSUME NEW r \in Places, NEW k \in 1..Len(queue[r])
        PROVE  \E p \in Places : \E i \in 1..Len(queue'[p]) :
                  queue'[p][i] = queue[r][k] /\ (r \in WakerPlaces <=> p \in WakerPlaces)
    <2>1. CASE r = q
      <3>1. k \in 1..n
        BY <1>5, <2>1
      <3>2. k \in 1..Len(queue'[q])
        <4>1. Len(queue'[q]) = n + Len(queue[h]) /\ n \in Nat /\ Len(queue[h]) \in Nat
          BY <1>5
        <4> QED BY <3>1, <4>1
      <3> QED BY <1>2, <1>5, <2>1, <3>1, <3>2
    <2>2. CASE r = h
      <3>1. k + n \in 1..Len(queue'[q]) /\ queue'[q][k + n] = queue[h][k]
        <4>1. Len(queue'[q]) = n + Len(queue[h]) /\ n \in Nat /\ Len(queue[h]) \in Nat
          BY <1>5
        <4>2. k \in 1..Len(queue[h])
          BY <2>2
        <4>3. queue'[q][k + n] = queue[h][k]
          BY <1>5, <4>2
        <4> QED BY <4>1, <4>2, <4>3
      <3> QED BY <1>2, <2>2, <3>1
    <2>3. CASE r # q /\ r # h
      BY <1>5, <2>3
    <2> QED BY <2>1, <2>2, <2>3
  <1>8. ASSUME NEW p \in Places, NEW i \in 1..Len(queue'[p]),
               NEW r \in Places, NEW j \in 1..Len(queue'[r]), queue'[p][i] = queue'[r][j]
        PROVE  p = r /\ i = j
    <2> DEFINE pm == p = q /\ i \notin 1..n
               rm == r = q /\ j \notin 1..n
               pp == IF pm THEN h ELSE p
               rr == IF rm THEN h ELSE r
               ii == IF pm THEN i - n ELSE i
               jj == IF rm THEN j - n ELSE j
    <2>1. /\ p # h /\ pp \in Places /\ ii \in 1..Len(queue[pp]) /\ queue'[p][i] = queue[pp][ii]
          /\ r # h /\ rr \in Places /\ jj \in 1..Len(queue[rr]) /\ queue'[r][j] = queue[rr][jj]
      BY <1>6
    <2> HIDE DEF pp, rr, ii, jj
    <2>2. pp = rr /\ ii = jj
      <3>1. queue[pp][ii] = queue[rr][jj]
        BY <1>8, <2>1
      <3> QED BY <2>1, <3>1 DEF IInv, QueueInv
    <2>3. i \in Nat /\ j \in Nat
      BY <1>5
    <2> QED BY <1>2, <1>5, <2>1, <2>2, <2>3 DEF pp, rr, ii, jj
  <1>9. QueueInv' /\ InWaitQueueExact'
    <2>1. \A p \in Places : \A i \in 1..Len(queue'[p]) :
             \E r \in Places : \E k \in 1..Len(queue[r]) :
                queue'[p][i] = queue[r][k] /\ (r \in WakerPlaces <=> p \in WakerPlaces)
      BY <1>6
    <2>2. \A d \in CPUs : pc[d] = "pended" => pc'[d] = "pended"
      BY <1>1
    <2> QED BY <1>1, <1>4, <1>7, <1>8, <2>1, <2>2, MoveKeeps
  <1>10. TypeOK'
    BY <1>1, <1>2, <1>5 DEF IInv, TypeOK, Labels
  <1> QED BY <1>3, <1>9, <1>10 DEF IInv

-----------------------------------------------------------------------------
(* The invariant, and what follows from it.                                *)

\* Every step inside the library keeps the invariant.
LEMMA LibStepKeeps ==
    ASSUME IInv, NEW c \in CPUs, LibStep(c)
    PROVE  IInv'
  BY CondThreadKeeps, CondCoroutineKeeps, BlockKeeps, CancelKeeps, PendedKeeps, NotifyEmptyKeeps,
     NotifyWakeKeeps, NotifyLostKeeps, SpinKeeps, StoreExitCodeKeeps, PickSelfKeeps,
     PickOtherKeeps, PickWildKeeps, SwitchKeeps, ResumeKeeps, ReapKeeps, FinishRequeueKeeps
     DEF LibStep

\* Every call by user code keeps it.
LEMMA UserStepKeeps ==
    ASSUME IInv, NEW c \in CPUs, UserStep(c)
    PROVE  IInv'
  BY SpawnKeeps, YieldKeeps, ExitKeeps, WaitKeeps, JoinKeeps, WaitUntilKeeps, WakerWaitKeeps,
     StartNotifyKeeps, NotifyTaskKeeps, RequeueKeeps DEF UserStep

\* Every step keeps it.
LEMMA NextKeepsIInv == IInv /\ [Next]_vars => IInv'
  <1> SUFFICES ASSUME IInv, [Next]_vars PROVE IInv'
    OBVIOUS
  <1>1. CASE \E c \in CPUs : LibStep(c) \/ UserStep(c)
    BY <1>1, LibStepKeeps, UserStepKeeps
  <1>2. CASE UNCHANGED vars
    <2>1. mode' \in {"up", "exited", "wild"}
      BY <1>2 DEF vars, IInv, TypeOK
    <2> QED BY <1>2, <2>1, NothingMoves DEF vars
  <1> QED BY <1>1, <1>2 DEF Next, Stopped

\* IInv holds in every state that any number of CPUs, tasks and queues can reach.
THEOREM Invariance == Spec => []IInv
  BY InitIInv, NextKeepsIInv, PTL DEF Spec

\* Every variable has its type, whatever the constants are.
THEOREM TypeCorrectness == Spec => []TypeOK
  <1>1. IInv => TypeOK
    BY DEF IInv
  <1> QED BY <1>1, Invariance, PTL

\* At most one CPU has a task as its current task and has not given it up, and exactly
\* the Running tasks have such a CPU: resched, switch_to and the wake-ups agree on it.
THEOREM OneCpuPerTask == Spec => []RunningIsCurrent
  <1>1. IInv => RunningIsCurrent
    BY DEF IInv, CpuInv, RunningIsCurrent
  <1> QED BY <1>1, Invariance, PTL

\* No task is in two ready queues, twice in one, or in a ready queue while it waits or
\* is being woken: no race between notifiers duplicates a task.
THEOREM NoDuplicates == Spec => []OnePlace
  <1>1. ASSUME IInv PROVE OnePlace
    <2>1. /\ \A c, d \in CPUs : \A i \in 1..Len(rq[c]), j \in 1..Len(rq[d]) :
                rq[c][i] = rq[d][j] => c = d /\ i = j
          /\ \A c, d \in CPUs : waking[c] # None /\ waking[c] = waking[d] => c = d
          /\ \A p \in Places : \A i \in 1..Len(queue[p]) :
             \A q \in Places : \A j \in 1..Len(queue[q]) :
                queue[p][i] = queue[q][j] => p = q /\ i = j
      BY <1>1 DEF IInv, ReadyInv, QueueInv
    <2>2. \A t \in Tasks : InRq(t) => state[t] = "Ready" /\ ~Waking(t)
      BY <1>1 DEF IInv, ReadyInv, InRq, Waking
    <2>3. \A t \in Tasks : Waking(t) => state[t] = "Ready"
      BY <1>1, TaskAssumption DEF IInv, ReadyInv, Waking
    <2>4. ASSUME NEW t \in Tasks, NEW q \in Places, InQueue(t, q)
          PROVE  state[t] = "Blocked" \/ (q \in WakerPlaces /\ state[t] = "Running")
      <3>1. \A c \in CPUs : pc[c] = "pended" => state[current[c]] = "Running"
        BY <1>1 DEF IInv, CpuInv, Own, OwnAt
      <3> QED BY <1>1, <2>4, <3>1 DEF IInv, QueueInv, InQueue
    <2> QED BY <2>1, <2>2, <2>3, <2>4 DEF OnePlace
  <1> QED BY <1>1, Invariance, PTL

\* The assertions of the scheduler and of the blocking and exit calls never fail.
THEOREM AssertionsNeverFail == Spec => []AssertionsHold
  <1>1. ASSUME IInv PROVE AssertionsHold
    <2> SUFFICES ASSUME NEW c \in CPUs
                 PROVE  /\ pc[c] \in {"run", "cond", "block", "pended"} => state[current[c]] = "Running"
                        /\ pc[c] = "resched" =>
                              /\ state[NextTask(c)] = "Ready"
                              /\ frame[current[c]].op = "exit" => NextTask(c) # current[c]
      BY DEF AssertionsHold
    <2>1. pc[c] \in {"run", "cond", "block", "pended"} => state[current[c]] = "Running"
      BY <1>1 DEF IInv, CpuInv, Own, OwnAt
    <2>2. pc[c] = "resched" => state[NextTask(c)] = "Ready"
      BY <1>1, NextTaskFacts
    <2>3. frame[current[c]].op = "exit" => state[current[c]] = "Exited"
      BY <1>1, CurrentFacts
    <2> QED BY <2>1, <2>2, <2>3
  <1> QED BY <1>1, Invariance, PTL

\* in_wait_queue says exactly whether a WaitQueue holds the task, so cancel_events never
\* has a queue to clean up after a wait that was notified.
THEOREM FlagMatchesQueues == Spec => []InWaitQueueExact
  <1>1. IInv => InWaitQueueExact
    BY DEF IInv
  <1> QED BY <1>1, Invariance, PTL

=============================================================================

----------------------- MODULE LockFreeBTreeMap_proofs -----------------------
(***************************************************************************)
(* Proofs about LockFreeBTreeMap, for every set of callers and keys, every *)
(* capacity and number of rounds.  A step of a caller does one of six      *)
(* things to the slots (nothing, lock, fill, release, claim, empty); what  *)
(* the invariants need of a step is which of the six, and what the caller  *)
(* knows of the slots after it.  The last part shows that the map is an    *)
(* implementation of EntryMap.                                             *)
(***************************************************************************)
EXTENDS LockFreeBTreeMap, FiniteSetTheorems, TLAPS

-----------------------------------------------------------------------------
(* The inductive invariants                                                *)

StepsOf(o) ==
  CASE o = "insert" -> Inserting \cup {"count"}
    [] o = "pop_first" -> {"scan", "confirm", "choose", "restore", "take", "discount"}
    [] o = "first_key_value" -> {"scan", "confirm", "choose"}
    [] o = "clear" -> {"visit", "seize", "restore", "take", "discount"}
    [] OTHER -> {"idle"}

\* The variables of a caller at each of its steps.
LocalOK(p) ==
  /\ pc[p] \in StepsOf(op[p])
  /\ pc[p] \in {"idle", "choose"} \/ (op[p] = "pop_first" /\ pc[p] \notin {"scan", "confirm"})
       => at[p] = 0
  /\ op[p] \in {None, "insert"} => cand[p] = None
  /\ pc[p] \in {"restore", "take", "discount"} => cand[p] # None
  /\ pc[p] \in Inserting => key[p] \in Keys
  /\ pc[p] \in {"read", "lock", "confirm", "seize"} => old[p] > 0
LocalInv == \A p \in Procs : LocalOK(p)

\* A version is given to one insertion, and to one slot: the version of an insert that has not
\* stored its entry is in no other slot and in no one's hands.
Pending == {p \in Procs : pc[p] \in Inserting}
VersionInv ==
  /\ \A i \in Slots : IF word[i].st = "EMPTY" THEN word[i] = EMPTY
                      ELSE word[i].ver \in 1..global_version - 1
  /\ \A i, j \in Slots : word[i] # EMPTY /\ word[i].ver = word[j].ver => i = j
  /\ \A q \in Pending :
       /\ ver[q] \in 1..global_version - 1
       /\ \A i \in Slots : word[i].ver = ver[q] => pc[q] = "write" /\ at[q] = i
       /\ \A p \in Pending : ver[p] = ver[q] => p = q
       /\ \A p \in Procs : old[p] # ver[q] /\ (cand[p] # None => cand[p].ver # ver[q])
  /\ \A p \in Procs : /\ old[p] < global_version
                      /\ cand[p] # None => cand[p].ver < global_version

\* Slots that are locked, and who has locked them.
Holds(p, i) == \/ pc[p] \in {"update", "unlock", "write"} /\ at[p] = i
               \/ pc[p] \in {"take", "restore"} /\ cand[p].at = i
HolderInv ==
  /\ \A p \in Procs, i \in Slots : Holds(p, i) =>
       IF pc[p] = "write" THEN word[i] = [st |-> "WRITING", ver |-> ver[p]]
       ELSE word[i].st = "DELETING"
  /\ \A p, q \in Procs, i \in Slots : Holds(p, i) /\ Holds(q, i) => p = q
  /\ \A i \in Slots : word[i].st \in {"WRITING", "DELETING"} => \E p \in Procs : Holds(p, i)

\* The entry of an occupied slot has the slot's version; so a caller that finds the version it
\* has seen knows the entry too.
EntryInv ==
  /\ \A i \in Slots : Occupied(i) => entry[i].ver = word[i].ver /\ entry[i].key \in Keys
  /\ \A p \in Procs :
       /\ pc[p] = "lock" => word[at[p]].ver # old[p] \/ Matches(p) \/ Torn(at[p])
       /\ pc[p] = "update" => entry[at[p]].key = key[p]
       /\ pc[p] = "take" => word[cand[p].at].ver = cand[p].ver
       /\ cand[p] # None /\ Occupied(cand[p].at) /\ word[cand[p].at].ver = cand[p].ver
            => entry[cand[p].at].key = cand[p].key

SlotInv == TypeOK /\ LocalInv /\ VersionInv /\ HolderInv /\ EntryInv

\* An entry is outside, in one slot, on its way in with one insert, or with one pop.
OnePlace(k) ==
  \/ SlotsOf(k) = {} /\ Inserters(k) = {} /\ Poppers(k) = {} /\ k \in out
  \/ (\E i \in Slots : SlotsOf(k) = {i}) /\ Inserters(k) = {} /\ Poppers(k) = {} /\ k \notin out
  \/ SlotsOf(k) = {} /\ (\E p \in Procs : Inserters(k) = {p}) /\ Poppers(k) = {} /\ k \notin out
  \/ SlotsOf(k) = {} /\ Inserters(k) = {} /\ (\E p \in Procs : Poppers(k) = {p}) /\ k \notin out
PlaceInv == \A k \in Keys \ Shared : OnePlace(k)

\* What a scan has established of the slots it has passed, and of the one it is at.  Passed is
\* all slots when the scan has ended.
Passed(p) == IF pc[p] = "choose" THEN Slots ELSE 0..at[p] - 1
Stands(p, i) == ValidNow(i) /\ word[i].ver \in stood[p]
ScanOK(p) ==
  /\ stood[p] \subseteq Versions
  /\ pc[p] \in Scanning => \A i \in Passed(p) :
       Stands(p, i) => cand[p] # None /\ ~Less(entry[i], cand[p])
  /\ pc[p] \in Looking => \A i \in Passed(p) : ~(Stands(p, i) /\ entry[i].key = key[p])
  /\ pc[p] \in {"confirm", "read", "lock"} /\ Stands(p, at[p]) => word[at[p]].ver = old[p]
ScanInv == \A p \in Procs : ScanOK(p)

\* The candidate of a pop is where the scan found it, or another caller has locked its slot.
RoundOK(p) ==
  op[p] = "pop_first" /\ cand[p] # None /\ ~beaten[p] =>
    /\ pc[p] \in Scanning => word[cand[p].at] = VALID(cand[p].ver)
    /\ pc[p] # "restore"
RoundInv == \A p \in Procs : RoundOK(p)

-----------------------------------------------------------------------------
(* What a step does                                                        *)

Busy == {"update", "unlock", "write", "take", "restore"}

\* The step is p's: the others stay where they are.
Mine(p) == \A q \in Procs \ {p} :
  /\ op'[q] = op[q] /\ pc'[q] = pc[q] /\ key'[q] = key[q] /\ ver'[q] = ver[q]
  /\ at'[q] = at[q] /\ round'[q] = round[q] /\ old'[q] = old[q] /\ cand'[q] = cand[q]

\* What p knows afterwards: what it knew, the version of a valid slot, or its entry.
Knows(p) ==
  /\ pc'[p] \in Inserting => pc[p] \in Inserting /\ key'[p] = key[p] /\ ver'[p] = ver[p]
  /\ old'[p] \in {0, old[p]} \/ \E i \in Slots : word[i] = VALID(old'[p])
  /\ \/ cand'[p] \in {None, cand[p]}
     \/ \E i \in Slots : /\ ValidNow(i)
                         /\ cand'[p] = [key |-> entry[i].key, ver |-> old[p], at |-> i]

Same == entry' = entry /\ global_version' = global_version
Becomes(i, w) == \A j \in Slots : word'[j] = IF j = i THEN w ELSE word[j]

Quiet(p) ==
  /\ word' = word /\ Same /\ Knows(p)
  /\ pc[p] \notin Busy /\ pc'[p] \notin Busy
  /\ pc'[p] = "lock" => /\ pc[p] = "read" /\ at'[p] = at[p] /\ old'[p] = old[p]
                        /\ Matches(p) \/ Torn(at[p])

Locking(p, i) ==
  /\ ValidNow(i) /\ Becomes(i, [st |-> "DELETING", ver |-> word[i].ver]) /\ Same /\ Knows(p)
  /\ pc[p] \in {"lock", "choose", "seize"}
  /\ \/ pc'[p] \in {"update", "unlock"} /\ at'[p] = i
     \/ pc'[p] \in {"take", "restore"} /\ cand'[p].at = i
  /\ pc'[p] = "update" => pc[p] = "lock" /\ at[p] = i /\ word[i].ver = old[p]
  /\ pc'[p] = "take" => word[i].ver = cand'[p].ver

Filling(p) ==
  /\ pc[p] \in {"update", "write"} /\ pc'[p] \in {"idle", "count"}
  /\ Becomes(at[p], VALID(ver[p])) /\ global_version' = global_version
  /\ \A j \in Slots : entry'[j] = IF j = at[p] THEN [key |-> key[p], ver |-> ver[p]] ELSE entry[j]
  /\ old'[p] \in {0, old[p]} /\ cand'[p] \in {None, cand[p]}

Releasing(p, i) ==
  /\ Holds(p, i) /\ pc[p] \in {"unlock", "restore"}
  /\ Becomes(i, VALID(word[i].ver)) /\ Same /\ Knows(p)
  /\ pc'[p] \notin Busy \cup {"lock"}

Placing(p) ==
  /\ pc[p] = "place" /\ pc'[p] = "write" /\ at'[p] = at[p] /\ word[at[p]] = EMPTY
  /\ Becomes(at[p], [st |-> "WRITING", ver |-> ver[p]]) /\ Same /\ Knows(p)

Taking(p) ==
  /\ pc[p] = "take" /\ pc'[p] = "discount"
  /\ Becomes(cand[p].at, EMPTY) /\ Same /\ Knows(p)

Beginning(p) ==
  /\ word' = word /\ entry' = entry /\ global_version' = global_version + 1
  /\ pc[p] = "idle" /\ pc'[p] = "look" /\ ver'[p] = global_version
  /\ old'[p] = old[p] /\ cand'[p] = cand[p]

Effect(p) == \/ Quiet(p) \/ Filling(p) \/ Placing(p) \/ Taking(p) \/ Beginning(p)
             \/ \E i \in Slots : Locking(p, i) \/ Releasing(p, i)

\* The types of the history variables are Remember's doing.
LEMMA Histories ==
  ASSUME TypeOK, Remember,
         word' \in [Slots -> [st : {"EMPTY", "WRITING", "VALID", "DELETING"}, ver : Nat]]
  PROVE  stood' \in [Procs -> SUBSET Nat] /\ beaten' \in [Procs -> BOOLEAN]
<1> DEFINE S(p) == IF Starts(p) THEN Versions'
                   ELSE IF pc'[p] \in Scanning \cup Looking THEN stood[p] \cap Versions' ELSE {}
           B(p) == IF Starts(p) \/ op'[p] # "pop_first" THEN FALSE
                   ELSE beaten[p] \/ \E q \in Procs \ {p} : LockedBy(q)
<1>1. Versions' \subseteq Nat
  BY DEF Versions
<1>2. \A p \in Procs : S(p) \in SUBSET Nat
  BY <1>1
<1>3. \A p \in Procs : B(p) \in BOOLEAN
  BY DEF TypeOK
<1>4. stood' = [p \in Procs |-> S(p)] /\ beaten' = [p \in Procs |-> B(p)]
  BY DEF Remember
<1> HIDE DEF S, B
<1> QED BY <1>2, <1>3, <1>4

LEMMA Steps ==
  /\ StepsOf("insert") = Inserting \cup {"count"}
  /\ StepsOf("pop_first") = {"scan", "confirm", "choose", "restore", "take", "discount"}
  /\ StepsOf("first_key_value") = {"scan", "confirm", "choose"}
  /\ StepsOf("clear") = {"visit", "seize", "restore", "take", "discount"}
  /\ StepsOf(None) = {"idle"}
  /\ None \notin Operations
BY MapAssumption DEF StepsOf, Operations

\* The step a caller is at tells much of the call it is in.
LEMMA WhichCall ==
  ASSUME TypeOK, LocalInv, NEW p \in Procs
  PROVE  /\ pc[p] \in Inserting \cup {"count"} => op[p] = "insert"
         /\ pc[p] = "idle" => op[p] = None
         /\ pc[p] \in {"visit", "seize"} => op[p] = "clear"
         /\ pc[p] \in {"scan", "confirm", "choose"} => op[p] \in {"pop_first", "first_key_value"}
         /\ pc[p] \in {"restore", "take", "discount"} => op[p] \in {"pop_first", "clear"}
BY Steps DEF TypeOK, LocalInv, LocalOK, Operations, Inserting

LEMMA LocalKept ==
  ASSUME LocalInv, NEW p \in Procs, Mine(p), LocalOK(p)'
  PROVE  LocalInv'
BY DEF Mine, LocalInv, LocalOK

\* The word of a slot in use.
LEMMA InUse ==
  ASSUME TypeOK, VersionInv, NEW i \in Slots
  PROVE  /\ word[i].st \in {"EMPTY", "WRITING", "VALID", "DELETING"} /\ word[i].ver \in Nat
         /\ word[i] = [st |-> word[i].st, ver |-> word[i].ver]
         /\ word[i].st = "EMPTY" => word[i] = EMPTY /\ word[i].ver = 0
         /\ word[i].st # "EMPTY" => /\ word[i] # EMPTY /\ word[i].ver \in 1..global_version - 1
                                    /\ word[i].ver > 0 /\ word[i].ver < global_version
         /\ ValidNow(i) <=> word[i] = VALID(word[i].ver)
<1>1. word[i] \in [st : {"EMPTY", "WRITING", "VALID", "DELETING"}, ver : Nat]
  BY DEF TypeOK
<1>2. word[i].st = "EMPTY" => word[i] = EMPTY /\ word[i].ver = 0
  BY DEF VersionInv, EMPTY
<1>3. word[i].st # "EMPTY" => /\ word[i].ver \in 1..global_version - 1
                              /\ word[i].ver > 0 /\ word[i].ver < global_version
  BY DEF VersionInv, TypeOK
<1> QED BY <1>1, <1>2, <1>3 DEF EMPTY, VALID, ValidNow

\* The ways a step moves its caller on.
LEMMA Goes ==
  ASSUME TypeOK, NEW p \in Procs
  PROVE  /\ \A l : Goto(p, l) => pc'[p] = l
         /\ \A l, m : NextSlot(p, l, m) => pc'[p] \in {l, m}
<1>1. pc \in [Procs -> Labels]
  BY DEF TypeOK
<1>2. \A l : Goto(p, l) => pc'[p] = l
  BY <1>1 DEF Goto
<1> QED BY <1>2 DEF NextSlot

LEMMA NextSlotDoes ==
  ASSUME TypeOK, NEW p \in Procs, NEW here \in Labels, NEW last \in Labels,
         NextSlot(p, here, last)
  PROVE  /\ pc' \in [Procs -> Labels] /\ at' \in [Procs -> Slots]
         /\ \A q \in Procs \ {p} : pc'[q] = pc[q] /\ at'[q] = at[q]
         /\ \/ pc'[p] = here /\ at'[p] = at[p] + 1
            \/ pc'[p] = last /\ at'[p] = 0 /\ at[p] = CAPACITY - 1
<1> USE DEF NextSlot, Goto
<1>0. pc \in [Procs -> Labels] /\ at \in [Procs -> Slots]
  BY DEF TypeOK
<1>1. CAPACITY \in Nat \ {0} /\ at[p] \in 0..CAPACITY-1
  BY <1>0, MapAssumption DEF Slots
<1>2. CASE at[p] + 1 < CAPACITY
  <2>1. at[p] + 1 \in Slots
    BY <1>1, <1>2 DEF Slots
  <2> QED BY <1>0, <1>2, <2>1
<1>3. CASE ~(at[p] + 1 < CAPACITY)
  <2>1. 0 \in Slots /\ at[p] = CAPACITY - 1
    BY <1>1, <1>3 DEF Slots
  <2> QED BY <1>0, <1>3, <2>1
<1> QED BY <1>2, <1>3

LEMMA LeaveDoes ==
  ASSUME TypeOK, NEW p \in Procs, Leave(p)
  PROVE  /\ op' \in [Procs -> Operations \cup {None}] /\ pc' \in [Procs -> Labels]
         /\ key' \in [Procs -> Keys \cup {None}] /\ ver' \in [Procs -> Nat]
         /\ at' \in [Procs -> Slots] /\ round' \in [Procs -> Nat]
         /\ old' \in [Procs -> Nat] /\ cand' \in [Procs -> Candidates \cup {None}]
         /\ Mine(p) /\ LocalOK(p)'
         /\ pc'[p] = "idle" /\ op'[p] = None /\ old'[p] = 0 /\ cand'[p] = None
<1> USE MapAssumption DEF Leave, Goto
<1>1. 0 \in Slots /\ "idle" \in Labels
  BY DEF Slots, Labels
<1>2. Mine(p)
  BY DEF TypeOK, Mine
<1>3. /\ pc'[p] = "idle" /\ op'[p] = None /\ at'[p] = 0 /\ old'[p] = 0 /\ cand'[p] = None
  BY DEF TypeOK
<1>4. LocalOK(p)'
  BY <1>3, Steps DEF LocalOK, Inserting
<1> QED BY <1>1, <1>2, <1>3, <1>4 DEF TypeOK

-----------------------------------------------------------------------------
(* insert                                                                  *)

LEMMA InsertDoes ==
  ASSUME SlotInv, NEW p \in Procs, Insert(p), Remember
  PROVE  TypeOK' /\ LocalInv' /\ Mine(p) /\ Effect(p)
<1> USE MapAssumption DEF SlotInv, Insert, Call, Goto
<1>1. PICK k \in Keys : key' = [key EXCEPT ![p] = k] /\ out' \subseteq Keys
  BY DEF TypeOK
<1>2. op' = [op EXCEPT ![p] = "insert"]
  OBVIOUS
<1>3. TypeOK'
  BY <1>1, <1>2, Histories DEF TypeOK, Operations, Labels
<1>4. Mine(p)
  BY <1>1 DEF TypeOK, Mine
<1>5. LocalOK(p)'
  BY <1>1, <1>2, Steps, WhichCall DEF TypeOK, LocalInv, LocalOK, Inserting
<1>6. Beginning(p)
  BY DEF TypeOK, Beginning
<1> QED BY <1>3, <1>4, <1>5, <1>6, LocalKept DEF Effect

LEMMA LookDoes ==
  ASSUME SlotInv, NEW p \in Procs, Look(p), Remember
  PROVE  TypeOK' /\ LocalInv' /\ Mine(p) /\ Effect(p)
<1> USE DEF SlotInv, Look, Goto, shared
<1>1. CASE ValidNow(at[p])
  <2>1. pc' = [pc EXCEPT ![p] = "read"] /\ old' = [old EXCEPT ![p] = word[at[p]].ver] /\ at' = at
    BY <1>1
  <2>2. TypeOK'
    BY <2>1, Histories DEF TypeOK, Labels
  <2>3. Mine(p)
    BY <2>1 DEF TypeOK, Mine
  <2>4. word[at[p]].ver > 0
    BY <1>1, InUse DEF TypeOK, ValidNow
  <2>5. LocalOK(p)'
    BY <2>1, <2>4, WhichCall, Steps DEF TypeOK, LocalInv, LocalOK, Inserting
  <2>6. Quiet(p)
    <3>1. at[p] \in Slots /\ word[at[p]] = VALID(old'[p])
      BY <1>1, <2>1 DEF TypeOK, VALID, ValidNow
    <3> QED BY <2>1, <3>1 DEF TypeOK, Quiet, Same, Knows, Busy, Inserting
  <2> QED BY <2>2, <2>3, <2>5, <2>6, LocalKept DEF Effect
<1>2. CASE ~ValidNow(at[p])
  <2>1. NextSlot(p, "look", "place") /\ old' = old
    BY <1>2
  <2>2. /\ pc' \in [Procs -> Labels] /\ at' \in [Procs -> Slots]
        /\ \A q \in Procs \ {p} : pc'[q] = pc[q] /\ at'[q] = at[q]
        /\ pc'[p] \in {"look", "place"}
    BY <2>1, NextSlotDoes DEF Labels
  <2>3. TypeOK'
    BY <2>1, <2>2, Histories DEF TypeOK
  <2>4. Mine(p)
    BY <2>1, <2>2 DEF Mine
  <2>5. LocalOK(p)'
    BY <2>2, WhichCall, Steps DEF LocalInv, LocalOK, Inserting
  <2>6. Quiet(p)
    BY <2>1, <2>2 DEF Quiet, Same, Knows, Busy, Inserting
  <2> QED BY <2>3, <2>4, <2>5, <2>6, LocalKept DEF Effect
<1> QED BY <1>1, <1>2

LEMMA ReadDoes ==
  ASSUME SlotInv, NEW p \in Procs, Read(p), Remember
  PROVE  TypeOK' /\ LocalInv' /\ Mine(p) /\ Effect(p)
<1> USE DEF SlotInv
<1>1. pc[p] = "read" /\ UNCHANGED <<shared, op, key, ver, round, old, cand>>
  BY DEF Read
<1> USE <1>1 DEF shared
<1>2. CASE (Matches(p) \/ Torn(at[p])) /\ Goto(p, "lock") /\ UNCHANGED at
  <2>1. pc' = [pc EXCEPT ![p] = "lock"] /\ at' = at
    BY <1>2 DEF Goto
  <2>2. TypeOK'
    BY <2>1, Histories DEF TypeOK, Labels
  <2>3. Mine(p)
    BY <2>1 DEF TypeOK, Mine
  <2>4. LocalOK(p)'
    BY <2>1, WhichCall, Steps DEF TypeOK, LocalInv, LocalOK, Inserting
  <2>5. Quiet(p)
    BY <1>2, <2>1 DEF TypeOK, Quiet, Same, Knows, Busy, Inserting
  <2> QED BY <2>2, <2>3, <2>4, <2>5, LocalKept DEF Effect
<1>3. CASE NextSlot(p, "look", "place")
  <2>1. /\ pc' \in [Procs -> Labels] /\ at' \in [Procs -> Slots]
        /\ \A q \in Procs \ {p} : pc'[q] = pc[q] /\ at'[q] = at[q]
        /\ pc'[p] \in {"look", "place"}
    BY <1>3, NextSlotDoes DEF Labels
  <2>2. TypeOK'
    BY <2>1, Histories DEF TypeOK
  <2>3. Mine(p)
    BY <2>1 DEF Mine
  <2>4. LocalOK(p)'
    BY <2>1, WhichCall, Steps DEF LocalInv, LocalOK, Inserting
  <2>5. Quiet(p)
    BY <2>1 DEF Quiet, Same, Knows, Busy, Inserting
  <2> QED BY <2>2, <2>3, <2>4, <2>5, LocalKept DEF Effect
<1> QED BY <1>2, <1>3 DEF Read

\* try_lock_for_delete.
LEMMA LocksDoes ==
  ASSUME TypeOK, NEW i \in Slots, Locks(i)
  PROVE  /\ word' \in [Slots -> [st : {"EMPTY", "WRITING", "VALID", "DELETING"}, ver : Nat]]
         /\ ValidNow(i) /\ Becomes(i, [st |-> "DELETING", ver |-> word[i].ver])
BY DEF TypeOK, Locks, Becomes

LEMMA LockDoes ==
  ASSUME SlotInv, NEW p \in Procs, Lock(p), Remember
  PROVE  TypeOK' /\ LocalInv' /\ Mine(p) /\ Effect(p)
<1> USE DEF SlotInv
<1>1. /\ pc[p] = "lock" /\ at[p] \in Slots
      /\ UNCHANGED <<entry, len, global_version, out, op, key, ver, round, old, cand>>
  BY DEF Lock, TypeOK
<1> USE <1>1
<1>2. CASE /\ Locks(at[p]) /\ UNCHANGED at
           /\ Goto(p, IF word[at[p]].ver = old[p] THEN "update" ELSE "unlock")
  <2> DEFINE l == IF word[at[p]].ver = old[p] THEN "update" ELSE "unlock"
  <2>1. pc' = [pc EXCEPT ![p] = l] /\ at' = at /\ l \in {"update", "unlock"}
    BY <1>2 DEF Goto
  <2>2. l = "update" => word[at[p]].ver = old[p]
    OBVIOUS
  <2> HIDE DEF l
  <2>3. TypeOK'
    BY <1>2, <2>1, LocksDoes, Histories DEF TypeOK, Labels
  <2>4. Mine(p)
    BY <2>1 DEF TypeOK, Mine
  <2>5. LocalOK(p)'
    BY <2>1, WhichCall, Steps DEF TypeOK, LocalInv, LocalOK, Inserting
  <2>6. Locking(p, at[p])
    BY <1>2, <2>1, <2>2, LocksDoes DEF TypeOK, Locking, Same, Knows, Inserting
  <2> QED BY <2>3, <2>4, <2>5, <2>6, LocalKept DEF Effect
<1>3. CASE LockFails(at[p], old[p]) /\ NextSlot(p, "look", "place")
  <2>1. /\ pc' \in [Procs -> Labels] /\ at' \in [Procs -> Slots]
        /\ \A q \in Procs \ {p} : pc'[q] = pc[q] /\ at'[q] = at[q]
        /\ pc'[p] \in {"look", "place"} /\ word' = word
    BY <1>3, NextSlotDoes DEF Labels, LockFails
  <2>2. TypeOK'
    BY <2>1, Histories DEF TypeOK
  <2>3. Mine(p)
    BY <2>1 DEF Mine
  <2>4. LocalOK(p)'
    BY <2>1, WhichCall, Steps DEF LocalInv, LocalOK, Inserting
  <2>5. Quiet(p)
    BY <2>1 DEF Quiet, Same, Knows, Busy, Inserting
  <2> QED BY <2>2, <2>3, <2>4, <2>5, LocalKept DEF Effect
<1> QED BY <1>2, <1>3 DEF Lock

\* The new entry and mark_valid.
LEMMA FillDoes ==
  ASSUME TypeOK, NEW p \in Procs, Fill(p), key[p] \in Keys
  PROVE  /\ word' \in [Slots -> [st : {"EMPTY", "WRITING", "VALID", "DELETING"}, ver : Nat]]
         /\ entry' \in [Slots -> [key : Keys \cup {None}, ver : Nat]]
         /\ Becomes(at[p], VALID(ver[p]))
         /\ \A j \in Slots : entry'[j] = IF j = at[p] THEN [key |-> key[p], ver |-> ver[p]]
                                         ELSE entry[j]
<1>1. at[p] \in Slots /\ VALID(ver[p]) \in [st : {"EMPTY", "WRITING", "VALID", "DELETING"}, ver : Nat]
      /\ [key |-> key[p], ver |-> ver[p]] \in [key : Keys \cup {None}, ver : Nat]
  BY DEF TypeOK, VALID
<1>2. /\ word' = [word EXCEPT ![at[p]] = VALID(ver[p])]
      /\ entry' = [entry EXCEPT ![at[p]] = [key |-> key[p], ver |-> ver[p]]]
  BY DEF Fill
<1> QED BY <1>1, <1>2 DEF TypeOK, Becomes

LEMMA UpdateDoes ==
  ASSUME SlotInv, NEW p \in Procs, Update(p), Remember
  PROVE  TypeOK' /\ LocalInv' /\ Mine(p) /\ Effect(p)
<1> USE DEF SlotInv
<1>1. pc[p] = "update" /\ Fill(p) /\ Leave(p) /\ UNCHANGED <<len, global_version, out>>
  BY DEF Update
<1>2. key[p] \in Keys
  BY <1>1 DEF LocalInv, LocalOK, Inserting
<1>3. TypeOK'
  BY <1>1, <1>2, FillDoes, LeaveDoes, Histories DEF TypeOK
<1>4. Filling(p)
  BY <1>1, <1>2, FillDoes, LeaveDoes DEF Filling
<1> QED BY <1>1, <1>3, <1>4, LeaveDoes, LocalKept DEF Effect

LEMMA UnlockDoes ==
  ASSUME SlotInv, NEW p \in Procs, Unlock(p), Remember
  PROVE  TypeOK' /\ LocalInv' /\ Mine(p) /\ Effect(p)
<1> USE DEF SlotInv
<1>1. /\ pc[p] = "unlock" /\ at[p] \in Slots /\ 0 \in Slots
      /\ word' = [word EXCEPT ![at[p]].st = "VALID"]
      /\ pc' = [pc EXCEPT ![p] = "place"] /\ at' = [at EXCEPT ![p] = 0]
      /\ UNCHANGED <<entry, len, global_version, out, op, key, ver, round, old, cand>>
  BY MapAssumption DEF Unlock, Goto, TypeOK, Slots
<1>2. /\ word' \in [Slots -> [st : {"EMPTY", "WRITING", "VALID", "DELETING"}, ver : Nat]]
      /\ Becomes(at[p], VALID(word[at[p]].ver))
  BY <1>1 DEF TypeOK, Becomes, VALID
<1>3. TypeOK'
  BY <1>1, <1>2, Histories DEF TypeOK, Labels
<1>4. Mine(p)
  BY <1>1 DEF TypeOK, Mine
<1>5. LocalOK(p)'
  BY <1>1, WhichCall, Steps DEF TypeOK, LocalInv, LocalOK, Inserting
<1>6. Releasing(p, at[p])
  BY <1>1, <1>2 DEF TypeOK, Releasing, Holds, Same, Knows, Busy, Inserting
<1> QED BY <1>1, <1>3, <1>4, <1>5, <1>6, LocalKept DEF Effect

LEMMA PlaceDoes ==
  ASSUME SlotInv, NEW p \in Procs, Place(p), Remember
  PROVE  TypeOK' /\ LocalInv' /\ Mine(p) /\ Effect(p)
<1> USE DEF SlotInv
<1>1. /\ pc[p] = "place" /\ at[p] \in Slots /\ word[at[p]] = EMPTY
      /\ word' = [word EXCEPT ![at[p]] = [st |-> "WRITING", ver |-> ver[p]]]
      /\ pc' = [pc EXCEPT ![p] = "write"]
      /\ UNCHANGED <<entry, len, global_version, out, op, key, ver, at, round, old, cand>>
  BY DEF Place, Goto, TypeOK
<1>2. /\ word' \in [Slots -> [st : {"EMPTY", "WRITING", "VALID", "DELETING"}, ver : Nat]]
      /\ Becomes(at[p], [st |-> "WRITING", ver |-> ver[p]])
  BY <1>1 DEF TypeOK, Becomes
<1>3. TypeOK'
  BY <1>1, <1>2, Histories DEF TypeOK, Labels
<1>4. Mine(p)
  BY <1>1 DEF TypeOK, Mine
<1>5. LocalOK(p)'
  BY <1>1, WhichCall, Steps DEF TypeOK, LocalInv, LocalOK, Inserting
<1>6. Placing(p)
  BY <1>1, <1>2 DEF TypeOK, Placing, Same, Knows, Inserting
<1> QED BY <1>3, <1>4, <1>5, <1>6, LocalKept DEF Effect

LEMMA PlaceFailsDoes ==
  ASSUME SlotInv, NEW p \in Procs, PlaceFails(p), Remember
  PROVE  TypeOK' /\ LocalInv' /\ Mine(p) /\ Effect(p)
<1> USE DEF SlotInv
<1>1. pc[p] = "place" /\ UNCHANGED <<word, entry, len, global_version>>
  BY DEF PlaceFails
<1> USE <1>1
<1>2. CASE /\ NextSlot(p, "place", "look") /\ UNCHANGED <<op, key, ver, old, cand, out>>
           /\ round' = [round EXCEPT ![p] = @ + (IF at[p] + 1 < CAPACITY THEN 0 ELSE 1)]
  <2>1. /\ pc' \in [Procs -> Labels] /\ at' \in [Procs -> Slots]
        /\ \A q \in Procs \ {p} : pc'[q] = pc[q] /\ at'[q] = at[q]
        /\ pc'[p] \in {"look", "place"}
    BY <1>2, NextSlotDoes DEF Labels
  <2>2. round' \in [Procs -> Nat] /\ \A q \in Procs \ {p} : round'[q] = round[q]
    BY <1>2 DEF TypeOK
  <2>3. TypeOK'
    BY <1>2, <2>1, <2>2, Histories DEF TypeOK
  <2>4. Mine(p)
    BY <1>2, <2>1, <2>2 DEF Mine
  <2>5. LocalOK(p)'
    BY <1>2, <2>1, WhichCall, Steps DEF LocalInv, LocalOK, Inserting
  <2>6. Quiet(p)
    BY <1>2, <2>1 DEF Quiet, Same, Knows, Busy, Inserting
  <2> QED BY <2>3, <2>4, <2>5, <2>6, LocalKept DEF Effect
<1>3. CASE Leave(p) /\ out' = out \cup {key[p]}
  <2>1. key[p] \in Keys
    BY DEF LocalInv, LocalOK, Inserting
  <2>2. TypeOK'
    BY <1>3, <2>1, LeaveDoes, Histories DEF TypeOK
  <2>3. Quiet(p)
    BY <1>3, LeaveDoes DEF Quiet, Same, Knows, Busy, Inserting
  <2> QED BY <1>3, <2>2, <2>3, LeaveDoes, LocalKept DEF Effect
<1> QED BY <1>2, <1>3 DEF PlaceFails

LEMMA WriteDoes ==
  ASSUME SlotInv, NEW p \in Procs, Write(p), Remember
  PROVE  TypeOK' /\ LocalInv' /\ Mine(p) /\ Effect(p)
<1> USE DEF SlotInv
<1>1. /\ pc[p] = "write" /\ Fill(p) /\ pc' = [pc EXCEPT ![p] = "count"]
      /\ UNCHANGED <<len, global_version, out, op, key, ver, at, round, old, cand>>
  BY DEF Write, Goto
<1>2. key[p] \in Keys
  BY <1>1 DEF LocalInv, LocalOK, Inserting
<1>3. TypeOK'
  BY <1>1, <1>2, FillDoes, Histories DEF TypeOK, Labels
<1>4. Mine(p)
  BY <1>1 DEF TypeOK, Mine
<1>5. LocalOK(p)'
  BY <1>1, WhichCall, Steps DEF TypeOK, LocalInv, LocalOK, Inserting
<1>6. Filling(p)
  BY <1>1, <1>2, FillDoes DEF TypeOK, Filling
<1> QED BY <1>3, <1>4, <1>5, <1>6, LocalKept DEF Effect

LEMMA CountDoes ==
  ASSUME SlotInv, NEW p \in Procs, Count(p), Remember
  PROVE  TypeOK' /\ LocalInv' /\ Mine(p) /\ Effect(p)
<1> USE DEF SlotInv
<1>1. pc[p] = "count" /\ Leave(p) /\ len' = len + 1 /\ UNCHANGED <<word, entry, global_version, out>>
  BY DEF Count
<1>2. TypeOK'
  BY <1>1, LeaveDoes, Histories DEF TypeOK
<1>3. Quiet(p)
  BY <1>1, LeaveDoes DEF Quiet, Same, Knows, Busy, Inserting
<1> QED BY <1>1, <1>2, <1>3, LeaveDoes, LocalKept DEF Effect

-----------------------------------------------------------------------------
(* pop_first and first_key_value                                           *)

\* The call of an operation that changes nothing yet.
LEMMA CallDoes ==
  ASSUME SlotInv, NEW p \in Procs, Remember, NEW o \in Operations, NEW l \in StepsOf(o),
         l \in {"scan", "visit"}, Call(p, o, l),
         UNCHANGED <<shared, key, ver, at, round, old, cand>>
  PROVE  TypeOK' /\ LocalInv' /\ Mine(p) /\ Effect(p)
<1> USE DEF SlotInv
<1>1. pc[p] = "idle" /\ op' = [op EXCEPT ![p] = o] /\ pc' = [pc EXCEPT ![p] = l]
  BY DEF Call, Goto
<1>2. TypeOK'
  BY <1>1, Histories DEF TypeOK, Labels, shared
<1>3. Mine(p)
  BY <1>1 DEF TypeOK, Mine
<1>4. LocalOK(p)'
  BY <1>1, WhichCall, Steps DEF TypeOK, LocalInv, LocalOK, Inserting, shared
<1>5. Quiet(p)
  BY <1>1 DEF TypeOK, Quiet, Same, Knows, Busy, Inserting, shared
<1> QED BY <1>2, <1>3, <1>4, <1>5, LocalKept DEF Effect

LEMMA PopDoes ==
  ASSUME SlotInv, NEW p \in Procs, Pop(p) \/ FirstKeyValue(p) \/ Clear(p), Remember
  PROVE  TypeOK' /\ LocalInv' /\ Mine(p) /\ Effect(p)
<1>1. "scan" \in StepsOf("pop_first") /\ "scan" \in StepsOf("first_key_value")
      /\ "visit" \in StepsOf("clear") /\ {"pop_first", "first_key_value", "clear"} \subseteq Operations
  BY Steps DEF Operations
<1> QED BY <1>1, CallDoes DEF Pop, FirstKeyValue, Clear

LEMMA ScanDoes ==
  ASSUME SlotInv, NEW p \in Procs, Scan(p), Remember
  PROVE  TypeOK' /\ LocalInv' /\ Mine(p) /\ Effect(p)
<1> USE DEF SlotInv
<1>1. pc[p] = "scan" /\ at[p] \in Slots /\ UNCHANGED <<shared, op, key, ver, round, cand>>
  BY DEF Scan, TypeOK
<1> USE <1>1 DEF shared
<1>2. CASE /\ ValidNow(at[p]) /\ Goto(p, "confirm")
           /\ old' = [old EXCEPT ![p] = word[at[p]].ver] /\ UNCHANGED at
  <2>1. /\ pc' = [pc EXCEPT ![p] = "confirm"] /\ old' = [old EXCEPT ![p] = word[at[p]].ver]
        /\ at' = at /\ word[at[p]] = VALID(word[at[p]].ver) /\ word[at[p]].ver \in Nat \ {0}
    <3>1. /\ word[at[p]] = VALID(word[at[p]].ver) /\ word[at[p]].ver \in Nat
          /\ word[at[p]].st # "EMPTY" /\ word[at[p]].ver > 0
      BY <1>2, InUse DEF ValidNow
    <3> QED BY <1>2, <3>1 DEF Goto
  <2>2. /\ pc \in [Procs -> Labels] /\ old \in [Procs -> Nat]
        /\ pc'[p] = "confirm" /\ old'[p] = word[at[p]].ver
        /\ \A q \in Procs \ {p} : pc'[q] = pc[q] /\ old'[q] = old[q]
    BY <2>1 DEF TypeOK
  <2>3. TypeOK'
    BY <2>1, Histories DEF TypeOK, Labels
  <2>4. Mine(p)
    BY <2>1, <2>2 DEF Mine
  <2>5. LocalOK(p)'
    BY <2>1, <2>2, WhichCall, Steps DEF LocalInv, LocalOK, Inserting
  <2>6. Quiet(p)
    BY <2>1, <2>2 DEF Quiet, Same, Knows, Busy, Inserting
  <2> QED BY <2>3, <2>4, <2>5, <2>6, LocalKept DEF Effect
<1>3. CASE NextSlot(p, "scan", "choose") /\ old' = old
  <2>1. /\ pc' \in [Procs -> Labels] /\ at' \in [Procs -> Slots]
        /\ \A q \in Procs \ {p} : pc'[q] = pc[q] /\ at'[q] = at[q]
        /\ pc'[p] = "scan" \/ (pc'[p] = "choose" /\ at'[p] = 0)
    BY <1>3, NextSlotDoes DEF Labels
  <2>2. TypeOK'
    BY <1>3, <2>1, Histories DEF TypeOK
  <2>3. Mine(p)
    BY <1>3, <2>1 DEF Mine
  <2>4. LocalOK(p)'
    BY <1>3, <2>1, WhichCall, Steps DEF LocalInv, LocalOK, Inserting
  <2>5. Quiet(p)
    BY <1>3, <2>1 DEF Quiet, Same, Knows, Busy, Inserting
  <2> QED BY <2>2, <2>3, <2>4, <2>5, LocalKept DEF Effect
<1> QED BY <1>2, <1>3 DEF Scan

LEMMA ConfirmDoes ==
  ASSUME SlotInv, NEW p \in Procs, Confirm(p), Remember
  PROVE  TypeOK' /\ LocalInv' /\ Mine(p) /\ Effect(p)
<1> USE DEF SlotInv
<1>1. /\ pc[p] = "confirm" /\ at[p] \in Slots /\ UNCHANGED <<shared, op, key, ver, round, old>>
      /\ NextSlot(p, "scan", "choose")
  BY DEF Confirm, TypeOK
<1> USE <1>1 DEF shared
<1> DEFINE c == [key |-> entry[at[p]].key, ver |-> old[p], at |-> at[p]]
<1>2. /\ cand' \in [Procs -> Candidates \cup {None}]
      /\ cand'[p] = cand[p] \/ (ValidNow(at[p]) /\ cand'[p] = c)
      /\ \A q \in Procs \ {p} : cand'[q] = cand[q]
  <2>1. CASE word[at[p]] = VALID(old[p])
    <3>1. ValidNow(at[p])
      BY <2>1 DEF ValidNow, VALID
    <3>2. c \in Candidates
      BY <3>1 DEF EntryInv, Occupied, ValidNow, TypeOK, Candidates
    <3>3. cand' = [cand EXCEPT ![p] = Smallest(@, c)]
      BY <2>1 DEF Confirm
    <3> QED BY <3>1, <3>2, <3>3 DEF Smallest, TypeOK
  <2>2. CASE word[at[p]] # VALID(old[p])
    BY <2>2 DEF Confirm, TypeOK
  <2> QED BY <2>1, <2>2
<1> HIDE DEF c
<1>3. /\ pc' \in [Procs -> Labels] /\ at' \in [Procs -> Slots]
      /\ \A q \in Procs \ {p} : pc'[q] = pc[q] /\ at'[q] = at[q]
      /\ pc'[p] = "scan" \/ (pc'[p] = "choose" /\ at'[p] = 0)
  BY NextSlotDoes DEF Labels
<1>4. TypeOK'
  BY <1>2, <1>3, Histories DEF TypeOK
<1>5. Mine(p)
  BY <1>2, <1>3 DEF Mine
<1>6. LocalOK(p)'
  BY <1>2, <1>3, WhichCall, Steps, MapAssumption DEF LocalInv, LocalOK, Inserting, TypeOK, Operations
<1>7. Quiet(p)
  BY <1>2, <1>3 DEF Quiet, Same, Knows, Busy, Inserting, c
<1> QED BY <1>4, <1>5, <1>6, <1>7, LocalKept DEF Effect

LEMMA NextRoundDoes ==
  ASSUME TypeOK, LocalInv, NEW p \in Procs, NextRound(p), op[p] = "pop_first",
         pc[p] \in {"choose", "restore"}
  PROVE  /\ op' \in [Procs -> Operations \cup {None}] /\ pc' \in [Procs -> Labels]
         /\ key' \in [Procs -> Keys \cup {None}] /\ ver' \in [Procs -> Nat]
         /\ at' \in [Procs -> Slots] /\ round' \in [Procs -> Nat]
         /\ old' \in [Procs -> Nat] /\ cand' \in [Procs -> Candidates \cup {None}]
         /\ Mine(p) /\ LocalOK(p)'
         /\ pc'[p] \in {"scan", "idle"} /\ old'[p] \in {0, old[p]} /\ cand'[p] = None
<1>1. CASE Leave(p)
  BY <1>1, LeaveDoes
<1>2. CASE /\ Goto(p, "scan") /\ round' = [round EXCEPT ![p] = @ + 1]
           /\ cand' = [cand EXCEPT ![p] = None] /\ UNCHANGED <<op, key, ver, at, old>>
  <2>1. /\ op' \in [Procs -> Operations \cup {None}] /\ pc' \in [Procs -> Labels]
        /\ key' \in [Procs -> Keys \cup {None}] /\ ver' \in [Procs -> Nat]
        /\ at' \in [Procs -> Slots] /\ round' \in [Procs -> Nat]
        /\ old' \in [Procs -> Nat] /\ cand' \in [Procs -> Candidates \cup {None}]
    BY <1>2 DEF TypeOK, Goto, Labels
  <2>2. Mine(p) /\ pc'[p] = "scan" /\ old'[p] = old[p] /\ cand'[p] = None
    BY <1>2 DEF TypeOK, Mine, Goto
  <2>3. LocalOK(p)'
    BY <1>2, <2>2, Steps DEF LocalInv, LocalOK, Inserting
  <2> QED BY <2>1, <2>2, <2>3
<1> QED BY <1>1, <1>2 DEF NextRound

LEMMA ChooseDoes ==
  ASSUME SlotInv, NEW p \in Procs, Choose(p), Remember
  PROVE  TypeOK' /\ LocalInv' /\ Mine(p) /\ Effect(p)
<1> USE DEF SlotInv
<1>1. /\ pc[p] = "choose" /\ op[p] = "pop_first"
      /\ UNCHANGED <<entry, len, global_version, out>>
  BY DEF Choose
<1> USE <1>1
<1>2. CASE cand[p] = None /\ Leave(p) /\ UNCHANGED word
  <2>1. TypeOK'
    BY <1>2, LeaveDoes, Histories DEF TypeOK
  <2>2. Quiet(p)
    BY <1>2, LeaveDoes DEF Quiet, Same, Knows, Busy, Inserting
  <2> QED BY <1>2, <2>1, <2>2, LeaveDoes, LocalKept DEF Effect
<1>3. CASE /\ cand[p] # None /\ Locks(cand[p].at) /\ UNCHANGED <<op, key, ver, at, round, old, cand>>
           /\ Goto(p, IF word[cand[p].at].ver = cand[p].ver THEN "take" ELSE "restore")
  <2> DEFINE l == IF word[cand[p].at].ver = cand[p].ver THEN "take" ELSE "restore"
  <2>1. /\ pc' = [pc EXCEPT ![p] = l] /\ l \in {"take", "restore"}
        /\ UNCHANGED <<op, key, ver, at, round, old, cand>>
    BY <1>3 DEF Goto
  <2>2. l = "take" => word[cand[p].at].ver = cand[p].ver
    OBVIOUS
  <2>3. cand[p].at \in Slots
    BY <1>3 DEF TypeOK, Candidates
  <2> HIDE DEF l
  <2>4. TypeOK'
    BY <1>3, <2>1, <2>3, LocksDoes, Histories DEF TypeOK, Labels
  <2>5. Mine(p)
    BY <2>1 DEF TypeOK, Mine
  <2>6. LocalOK(p)'
    BY <1>3, <2>1, Steps DEF TypeOK, LocalInv, LocalOK, Inserting
  <2>7. Locking(p, cand[p].at)
    BY <1>3, <2>1, <2>2, <2>3, LocksDoes DEF TypeOK, Locking, Same, Knows, Inserting
  <2> QED BY <2>3, <2>4, <2>5, <2>6, <2>7, LocalKept DEF Effect
<1>4. CASE LockFails(cand[p].at, cand[p].ver) /\ NextRound(p)
  <2>1. TypeOK'
    BY <1>4, NextRoundDoes, Histories DEF TypeOK, LockFails
  <2>2. Quiet(p)
    BY <1>4, NextRoundDoes DEF Quiet, Same, Knows, Busy, Inserting, LockFails
  <2> QED BY <1>4, <2>1, <2>2, NextRoundDoes, LocalKept DEF Effect
<1> QED BY <1>2, <1>3, <1>4 DEF Choose

\* The compare-exchange was right but the version is another: mark_valid again.
LEMMA GiveBack ==
  ASSUME TypeOK, NEW i \in Slots, word' = [word EXCEPT ![i].st = "VALID"]
  PROVE  /\ word' \in [Slots -> [st : {"EMPTY", "WRITING", "VALID", "DELETING"}, ver : Nat]]
         /\ Becomes(i, VALID(word[i].ver))
BY DEF TypeOK, Becomes, VALID

LEMMA RestoreDoes ==
  ASSUME SlotInv, NEW p \in Procs, Restore(p), Remember
  PROVE  TypeOK' /\ LocalInv' /\ Mine(p) /\ Effect(p)
<1> USE DEF SlotInv
<1>1. /\ pc[p] = "restore" /\ op[p] = "pop_first" /\ NextRound(p)
      /\ word' = [word EXCEPT ![cand[p].at].st = "VALID"]
      /\ UNCHANGED <<entry, len, global_version, out>>
  BY DEF Restore
<1>2. cand[p].at \in Slots
  BY <1>1 DEF LocalInv, LocalOK, TypeOK, Candidates
<1>3. TypeOK'
  BY <1>1, <1>2, GiveBack, NextRoundDoes, Histories DEF TypeOK
<1>4. Releasing(p, cand[p].at)
  BY <1>1, <1>2, GiveBack, NextRoundDoes DEF Releasing, Holds, Same, Knows, Busy, Inserting
<1> QED BY <1>1, <1>2, <1>3, <1>4, NextRoundDoes, LocalKept DEF Effect

LEMMA TakeDoes ==
  ASSUME SlotInv, NEW p \in Procs, Take(p), Remember
  PROVE  TypeOK' /\ LocalInv' /\ Mine(p) /\ Effect(p)
<1> USE DEF SlotInv
<1>1. /\ pc[p] = "take" /\ word' = [word EXCEPT ![cand[p].at] = EMPTY]
      /\ pc' = [pc EXCEPT ![p] = "discount"]
      /\ UNCHANGED <<entry, len, global_version, out, op, key, ver, at, round, old, cand>>
  BY DEF Take, Goto
<1>2. cand[p].at \in Slots
  BY <1>1 DEF LocalInv, LocalOK, TypeOK, Candidates
<1>3. /\ word' \in [Slots -> [st : {"EMPTY", "WRITING", "VALID", "DELETING"}, ver : Nat]]
      /\ Becomes(cand[p].at, EMPTY)
  BY <1>1, <1>2 DEF TypeOK, Becomes, EMPTY
<1>4. TypeOK'
  BY <1>1, <1>3, Histories DEF TypeOK, Labels
<1>5. Mine(p)
  BY <1>1 DEF TypeOK, Mine
<1>6. LocalOK(p)'
  BY <1>1, WhichCall, Steps DEF TypeOK, LocalInv, LocalOK, Inserting
<1>7. Taking(p)
  BY <1>1, <1>3 DEF TypeOK, Taking, Same, Knows, Inserting
<1> QED BY <1>4, <1>5, <1>6, <1>7, LocalKept DEF Effect

\* The key of a candidate.
LEMMA CandidateKey ==
  ASSUME TypeOK, NEW p \in Procs, cand[p] # None
  PROVE  cand[p].key \in Keys /\ cand[p].ver \in Nat /\ cand[p].at \in Slots
BY DEF TypeOK, Candidates

LEMMA DiscountDoes ==
  ASSUME SlotInv, NEW p \in Procs, Discount(p), Remember
  PROVE  TypeOK' /\ LocalInv' /\ Mine(p) /\ Effect(p)
<1> USE DEF SlotInv
<1>1. /\ pc[p] = "discount" /\ op[p] = "pop_first" /\ Leave(p) /\ len' = len - 1
      /\ out' = out \cup {cand[p].key} /\ UNCHANGED <<word, entry, global_version>>
  BY DEF Discount
<1>2. cand[p].key \in Keys
  BY <1>1, CandidateKey DEF LocalInv, LocalOK
<1>3. TypeOK'
  BY <1>1, <1>2, LeaveDoes, Histories DEF TypeOK
<1>4. Quiet(p)
  BY <1>1, LeaveDoes DEF Quiet, Same, Knows, Busy, Inserting
<1> QED BY <1>1, <1>3, <1>4, LeaveDoes, LocalKept DEF Effect

LEMMA ReportDoes ==
  ASSUME SlotInv, NEW p \in Procs, Report(p), Remember
  PROVE  TypeOK' /\ LocalInv' /\ Mine(p) /\ Effect(p)
<1> USE DEF SlotInv
<1>1. pc[p] = "choose" /\ Leave(p) /\ UNCHANGED shared
  BY DEF Report
<1>2. TypeOK'
  BY <1>1, LeaveDoes, Histories DEF TypeOK, shared
<1>3. Quiet(p)
  BY <1>1, LeaveDoes DEF Quiet, Same, Knows, Busy, Inserting, shared
<1> QED BY <1>1, <1>2, <1>3, LeaveDoes, LocalKept DEF Effect

-----------------------------------------------------------------------------
(* clear                                                                   *)

LEMMA ResumeDoes ==
  ASSUME TypeOK, LocalInv, NEW p \in Procs, Resume(p), op[p] = "clear"
  PROVE  /\ op' \in [Procs -> Operations \cup {None}] /\ pc' \in [Procs -> Labels]
         /\ key' \in [Procs -> Keys \cup {None}] /\ ver' \in [Procs -> Nat]
         /\ at' \in [Procs -> Slots] /\ round' \in [Procs -> Nat]
         /\ old' \in [Procs -> Nat] /\ cand' \in [Procs -> Candidates \cup {None}]
         /\ Mine(p) /\ LocalOK(p)'
         /\ pc'[p] \in {"visit", "idle"} /\ old'[p] = 0 /\ cand'[p] = None
<1>1. CASE Leave(p)
  BY <1>1, LeaveDoes
<1>2. CASE /\ at[p] + 1 < CAPACITY
           /\ Goto(p, "visit") /\ at' = [at EXCEPT ![p] = @ + 1]
           /\ cand' = [cand EXCEPT ![p] = None] /\ old' = [old EXCEPT ![p] = 0]
           /\ UNCHANGED <<op, key, ver, round>>
  <2>1. at[p] + 1 \in Slots
    BY <1>2, MapAssumption DEF TypeOK, Slots
  <2>2. /\ op' \in [Procs -> Operations \cup {None}] /\ pc' \in [Procs -> Labels]
        /\ key' \in [Procs -> Keys \cup {None}] /\ ver' \in [Procs -> Nat]
        /\ at' \in [Procs -> Slots] /\ round' \in [Procs -> Nat]
        /\ old' \in [Procs -> Nat] /\ cand' \in [Procs -> Candidates \cup {None}]
    BY <1>2, <2>1 DEF TypeOK, Goto, Labels
  <2>3. Mine(p) /\ pc'[p] = "visit" /\ old'[p] = 0 /\ cand'[p] = None
    BY <1>2 DEF TypeOK, Mine, Goto
  <2>4. LocalOK(p)'
    BY <1>2, <2>3, Steps DEF LocalInv, LocalOK, Inserting
  <2> QED BY <2>2, <2>3, <2>4
<1> QED BY <1>1, <1>2 DEF Resume

LEMMA VisitDoes ==
  ASSUME SlotInv, NEW p \in Procs, Visit(p), Remember
  PROVE  TypeOK' /\ LocalInv' /\ Mine(p) /\ Effect(p)
<1> USE DEF SlotInv
<1>1. pc[p] = "visit" /\ op[p] = "clear" /\ at[p] \in Slots /\ UNCHANGED shared
  BY WhichCall DEF Visit, TypeOK
<1> USE <1>1 DEF shared
<1>2. CASE /\ ValidNow(at[p]) /\ Goto(p, "seize") /\ old' = [old EXCEPT ![p] = word[at[p]].ver]
           /\ UNCHANGED <<op, key, ver, at, round, cand>>
  <2>1. /\ pc' = [pc EXCEPT ![p] = "seize"] /\ old' = [old EXCEPT ![p] = word[at[p]].ver]
        /\ word[at[p]] = VALID(word[at[p]].ver) /\ word[at[p]].ver \in Nat \ {0}
        /\ UNCHANGED <<op, key, ver, at, round, cand>>
    BY <1>2, InUse DEF Goto, ValidNow, TypeOK
  <2>2. TypeOK'
    BY <2>1, Histories DEF TypeOK, Labels
  <2>3. Mine(p)
    BY <2>1 DEF TypeOK, Mine
  <2>4. LocalOK(p)'
    BY <2>1, Steps, MapAssumption DEF TypeOK, LocalInv, LocalOK, Inserting, Operations
  <2>5. Quiet(p)
    BY <2>1 DEF TypeOK, Quiet, Same, Knows, Busy, Inserting
  <2> QED BY <2>2, <2>3, <2>4, <2>5, LocalKept DEF Effect
<1>3. CASE Resume(p)
  <2>1. TypeOK'
    BY <1>3, ResumeDoes, Histories DEF TypeOK
  <2>2. Quiet(p)
    BY <1>3, ResumeDoes DEF Quiet, Same, Knows, Busy, Inserting
  <2> QED BY <1>3, <2>1, <2>2, ResumeDoes, LocalKept DEF Effect
<1> QED BY <1>2, <1>3 DEF Visit

LEMMA SeizeDoes ==
  ASSUME SlotInv, NEW p \in Procs, Seize(p), Remember
  PROVE  TypeOK' /\ LocalInv' /\ Mine(p) /\ Effect(p)
<1> USE DEF SlotInv
<1>1. /\ pc[p] = "seize" /\ op[p] = "clear" /\ at[p] \in Slots
      /\ UNCHANGED <<entry, len, global_version, out>>
  BY WhichCall DEF Seize, TypeOK
<1> USE <1>1
<1> DEFINE c == [key |-> entry[at[p]].key, ver |-> old[p], at |-> at[p]]
           l == IF word[at[p]].ver = old[p] THEN "take" ELSE "restore"
<1>2. CASE /\ Locks(at[p]) /\ cand' = [cand EXCEPT ![p] = c] /\ Goto(p, l)
           /\ UNCHANGED <<op, key, ver, at, round, old>>
  <2>1. /\ pc' = [pc EXCEPT ![p] = l] /\ l \in {"take", "restore"} /\ cand' = [cand EXCEPT ![p] = c]
        /\ UNCHANGED <<op, key, ver, at, round, old>>
    BY <1>2 DEF Goto
  <2>2. ValidNow(at[p])
    BY <1>2 DEF Locks
  <2>3. c \in Candidates
    BY <2>2 DEF EntryInv, Occupied, ValidNow, TypeOK, Candidates
  <2>4. c.at = at[p] /\ (l = "take" => word[at[p]].ver = c.ver)
    OBVIOUS
  <2>5. c # None
    BY <2>3, MapAssumption
  <2>6. c = [key |-> entry[at[p]].key, ver |-> old[p], at |-> at[p]]
    OBVIOUS
  <2> HIDE DEF c, l
  <2>7. TypeOK'
    <3>1. cand' \in [Procs -> Candidates \cup {None}] /\ pc' \in [Procs -> Labels]
      BY <2>1, <2>3 DEF TypeOK, Labels
    <3>2. word' \in [Slots -> [st : {"EMPTY", "WRITING", "VALID", "DELETING"}, ver : Nat]]
      BY <1>2, LocksDoes
    <3> QED BY <1>2, <3>1, <3>2, Histories DEF TypeOK
  <2>8. Mine(p)
    BY <2>1 DEF TypeOK, Mine
  <2>9. LocalOK(p)'
    BY <2>1, <2>5, Steps, MapAssumption DEF TypeOK, LocalInv, LocalOK, Inserting, Operations
  <2>10. Locking(p, at[p])
    <3>1. cand'[p] = c /\ old'[p] = old[p] /\ pc'[p] = l
      BY <2>1 DEF TypeOK
    <3>2. Knows(p)
      BY <2>1, <2>2, <2>6, <3>1 DEF Knows, Inserting
    <3> QED BY <1>2, <2>1, <2>2, <2>4, <3>1, <3>2, LocksDoes DEF Locking, Same
  <2> QED BY <2>7, <2>8, <2>9, <2>10, LocalKept DEF Effect
<1>3. CASE LockFails(at[p], old[p]) /\ Resume(p)
  <2>1. TypeOK'
    BY <1>3, ResumeDoes, Histories DEF TypeOK, LockFails
  <2>2. Quiet(p)
    BY <1>3, ResumeDoes DEF Quiet, Same, Knows, Busy, Inserting, LockFails
  <2> QED BY <1>3, <2>1, <2>2, ResumeDoes, LocalKept DEF Effect
<1> QED BY <1>2, <1>3 DEF Seize

LEMMA PutBackDoes ==
  ASSUME SlotInv, NEW p \in Procs, PutBack(p), Remember
  PROVE  TypeOK' /\ LocalInv' /\ Mine(p) /\ Effect(p)
<1> USE DEF SlotInv
<1>1. /\ pc[p] = "restore" /\ op[p] = "clear" /\ Resume(p)
      /\ word' = [word EXCEPT ![cand[p].at].st = "VALID"]
      /\ UNCHANGED <<entry, len, global_version, out>>
  BY DEF PutBack
<1>2. cand[p].at \in Slots
  BY <1>1, CandidateKey DEF LocalInv, LocalOK
<1>3. TypeOK'
  BY <1>1, <1>2, GiveBack, ResumeDoes, Histories DEF TypeOK
<1>4. Releasing(p, cand[p].at)
  BY <1>1, <1>2, GiveBack, ResumeDoes DEF Releasing, Holds, Same, Knows, Busy, Inserting
<1> QED BY <1>1, <1>2, <1>3, <1>4, ResumeDoes, LocalKept DEF Effect

LEMMA UncountDoes ==
  ASSUME SlotInv, NEW p \in Procs, Uncount(p), Remember
  PROVE  TypeOK' /\ LocalInv' /\ Mine(p) /\ Effect(p)
<1> USE DEF SlotInv
<1>1. /\ pc[p] = "discount" /\ op[p] = "clear" /\ Resume(p) /\ len' = len - 1
      /\ out' = out \cup {cand[p].key} /\ UNCHANGED <<word, entry, global_version>>
  BY DEF Uncount
<1>2. cand[p].key \in Keys
  BY <1>1, CandidateKey DEF LocalInv, LocalOK
<1>3. TypeOK'
  BY <1>1, <1>2, ResumeDoes, Histories DEF TypeOK
<1>4. Quiet(p)
  BY <1>1, ResumeDoes DEF Quiet, Same, Knows, Busy, Inserting
<1> QED BY <1>1, <1>3, <1>4, ResumeDoes, LocalKept DEF Effect

\* Every step is some caller's, and has one of the effects.
LEMMA StepDoes ==
  ASSUME SlotInv, Next
  PROVE  TypeOK' /\ LocalInv' /\ \E p \in Procs : Mine(p) /\ Effect(p)
<1>1. PICK p \in Procs : InsertStep(p) \/ PopStep(p) \/ FirstStep(p) \/ ClearStep(p)
  BY DEF Next
<1>2. Remember
  BY DEF Next
<1>3. CASE InsertStep(p)
  BY <1>2, <1>3, InsertDoes, LookDoes, ReadDoes, LockDoes, UpdateDoes, UnlockDoes, PlaceDoes,
     PlaceFailsDoes, WriteDoes, CountDoes DEF InsertStep
<1>4. CASE PopStep(p) \/ FirstStep(p) \/ ClearStep(p)
  BY <1>2, <1>4, PopDoes, ScanDoes, ConfirmDoes, ChooseDoes, RestoreDoes, TakeDoes, DiscountDoes,
     ReportDoes, VisitDoes, SeizeDoes, PutBackDoes, UncountDoes DEF PopStep, FirstStep, ClearStep
<1> QED BY <1>1, <1>3, <1>4

-----------------------------------------------------------------------------
(* Versions                                                                *)

\* What a step does to the versions of the slots: a slot keeps its version, or is emptied, or
\* has the version of p's insert.
Numbering(p) ==
  /\ global_version' = global_version
  /\ pc'[p] \in Inserting => pc[p] \in Inserting /\ pc[p] # "write" /\ ver'[p] = ver[p]
  /\ old'[p] \in {0, old[p]} \/ \E i \in Slots : word[i] = VALID(old'[p])
  /\ cand'[p] # None => (cand[p] # None /\ cand'[p].ver = cand[p].ver) \/ cand'[p].ver = old[p]
  /\ \A i \in Slots :
       \/ word'[i].ver = word[i].ver /\ (word'[i].st = "EMPTY" <=> word[i].st = "EMPTY")
       \/ word'[i] = EMPTY
       \/ /\ pc[p] \in Inserting /\ at[p] = i /\ word'[i].ver = ver[p] /\ word'[i].st # "EMPTY"
          /\ pc'[p] \notin Inserting \/ (pc'[p] = "write" /\ at'[p] = i)

\* The version of a pending insert is in no valid slot.
LEMMA PendingIsNew ==
  ASSUME SlotInv, NEW q \in Pending, NEW i \in Slots, ValidNow(i)
  PROVE  word[i].ver # ver[q]
<1> SUFFICES ASSUME word[i].ver = ver[q] PROVE FALSE
  OBVIOUS
<1>1. q \in Procs /\ pc[q] = "write" /\ at[q] = i
  BY DEF SlotInv, VersionInv, Pending
<1>2. word[i] = [st |-> "WRITING", ver |-> ver[q]]
  BY <1>1 DEF SlotInv, HolderInv, Holds
<1> QED BY <1>2 DEF ValidNow

LEMMA NumberingKeeps ==
  ASSUME SlotInv, TypeOK', NEW p \in Procs, Mine(p), Numbering(p)
  PROVE  VersionInv'
<1> USE DEF SlotInv
<1>1. ASSUME NEW q \in Pending'
      PROVE  /\ q \in Procs /\ q \in Pending /\ ver'[q] = ver[q]
             /\ q = p => pc[q] # "write"
             /\ q # p => pc'[q] = pc[q] /\ at'[q] = at[q]
  BY <1>1 DEF Mine, Numbering, Pending
<1>2. \A i \in Slots : word'[i] \in [st : {"EMPTY", "WRITING", "VALID", "DELETING"}, ver : Nat]
  BY DEF TypeOK
<1>3. \A i \in Slots : word[i].st = "EMPTY" => word[i].ver = 0 /\ word[i] = EMPTY
  BY InUse
<1>4. \A i \in Slots : word'[i].st = "EMPTY" => word'[i] = EMPTY
  BY <1>2, <1>3 DEF Numbering, EMPTY
<1>5. pc[p] \in Inserting => p \in Pending /\ ver[p] \in 1..global_version - 1
  BY DEF VersionInv, Pending
<1>6. \A i \in Slots : word'[i].st # "EMPTY" => word'[i].ver \in 1..global_version - 1
  <2> SUFFICES ASSUME NEW i \in Slots, word'[i].st # "EMPTY"
               PROVE  word'[i].ver \in 1..global_version - 1
    OBVIOUS
  <2>1. word[i].st # "EMPTY" => word[i].ver \in 1..global_version - 1
    BY InUse
  <2> QED BY <1>5, <2>1 DEF Numbering, EMPTY
<1>7. ASSUME NEW i \in Slots, NEW j \in Slots, word'[i] # EMPTY, word'[i].ver = word'[j].ver
      PROVE  i = j
  <2>1. word'[i].ver > 0 /\ word'[j].st # "EMPTY" /\ word'[i].st # "EMPTY"
    BY <1>2, <1>4, <1>6, <1>7 DEF EMPTY, TypeOK
  <2>2. \A s, t \in Slots : word[s] # EMPTY /\ word[s].ver = word[t].ver => s = t
    BY DEF VersionInv
  <2>3. \A s \in Slots : pc[p] \in Inserting /\ word[s].ver = ver[p] => at[p] = s
    BY <1>5 DEF VersionInv
  <2> QED BY <1>7, <2>1, <2>2, <2>3, InUse DEF Numbering, EMPTY
<1>8. ASSUME NEW q \in Pending'
      PROVE  ver'[q] \in 1..global_version - 1 /\ \A r \in Pending' : ver'[r] = ver'[q] => r = q
  BY <1>1, <1>8 DEF VersionInv
<1>9. ASSUME NEW q \in Pending', NEW i \in Slots, word'[i].ver = ver'[q]
      PROVE  pc'[q] = "write" /\ at'[q] = i
  <2>1. ver[q] > 0
    BY <1>1, <1>8, <1>9 DEF TypeOK
  <2>2. \A s \in Slots : word[s].ver = ver[q] => pc[q] = "write" /\ at[q] = s
    BY <1>1, <1>9 DEF VersionInv
  <2>3. pc[p] \in Inserting /\ ver[p] = ver[q] => p = q
    BY <1>1, <1>5, <1>9 DEF VersionInv
  <2>4. CASE word'[i].ver = word[i].ver
    BY <1>1, <1>9, <2>2, <2>4
  <2>5. CASE word'[i] = EMPTY
    BY <1>1, <1>9, <2>1, <2>5 DEF EMPTY
  <2>6. CASE /\ pc[p] \in Inserting /\ at[p] = i /\ word'[i].ver = ver[p]
             /\ pc'[p] \notin Inserting \/ (pc'[p] = "write" /\ at'[p] = i)
    BY <1>1, <1>9, <2>3, <2>6 DEF Pending
  <2> QED BY <2>4, <2>5, <2>6 DEF Numbering
<1>10. ASSUME NEW q \in Pending', NEW r \in Procs
       PROVE  old'[r] # ver'[q] /\ (cand'[r] # None => cand'[r].ver # ver'[q])
  <2>1. /\ ver[q] > 0 /\ old[r] # ver[q] /\ (cand[r] # None => cand[r].ver # ver[q])
        /\ \A i \in Slots : word[i] = VALID(ver[q]) => FALSE
    BY <1>1, <1>8, <1>10, PendingIsNew DEF VersionInv, TypeOK, VALID, ValidNow
  <2> QED BY <1>1, <1>10, <2>1 DEF Mine, Numbering
<1>11. ASSUME NEW r \in Procs
       PROVE  old'[r] < global_version /\ (cand'[r] # None => cand'[r].ver < global_version)
  <2>1. ASSUME NEW v, NEW i \in Slots, word[i] = VALID(v) PROVE v < global_version
    BY <2>1, InUse DEF VALID
  <2>2. global_version > 0
    BY DEF TypeOK
  <2> QED BY <1>11, <2>1, <2>2 DEF Mine, Numbering, VersionInv
<1> QED BY <1>4, <1>6, <1>7, <1>8, <1>9, <1>10, <1>11 DEF VersionInv, Numbering

LEMMA EffectNumbers ==
  ASSUME SlotInv, NEW p \in Procs, Effect(p), ~Beginning(p)
  PROVE  Numbering(p)
<1> USE DEF SlotInv
<1>1. ASSUME Knows(p), cand'[p] # None
      PROVE  (cand[p] # None /\ cand'[p].ver = cand[p].ver) \/ cand'[p].ver = old[p]
  <2>1. CASE cand'[p] \in {None, cand[p]}
    BY <1>1, <2>1
  <2>2. CASE \E i \in Slots : cand'[p] = [key |-> entry[i].key, ver |-> old[p], at |-> i]
    BY <2>2
  <2> QED BY <1>1, <2>1, <2>2 DEF Knows
<1>2. at[p] \in Slots
  BY DEF TypeOK
<1>3. CASE Quiet(p)
  BY <1>1, <1>3 DEF Quiet, Numbering, Knows, Same, Busy
<1>4. CASE Filling(p)
  BY <1>2, <1>4 DEF Filling, Numbering, Becomes, VALID, Inserting
<1>5. CASE Placing(p)
  BY <1>1, <1>2, <1>5 DEF Placing, Numbering, Becomes, Knows, Same, Inserting
<1>6. CASE Taking(p)
  BY <1>1, <1>6 DEF Taking, Numbering, Becomes, Knows, Same, Inserting
<1>7. ASSUME NEW i \in Slots, Locking(p, i) PROVE Numbering(p)
  BY <1>1, <1>7 DEF Locking, Numbering, Becomes, Knows, Same, ValidNow, Inserting
<1>8. ASSUME NEW i \in Slots, Releasing(p, i) PROVE Numbering(p)
  <2>1. word[i].st # "EMPTY"
    BY <1>8 DEF Releasing, HolderInv
  <2> QED BY <1>1, <1>8, <2>1 DEF Releasing, Numbering, Becomes, Knows, Same, VALID, Inserting, Busy
<1> QED BY <1>3, <1>4, <1>5, <1>6, <1>7, <1>8 DEF Effect

LEMMA BeginningNumbers ==
  ASSUME SlotInv, TypeOK', NEW p \in Procs, Mine(p), Beginning(p)
  PROVE  VersionInv'
<1> USE DEF SlotInv
<1>1. ASSUME NEW q \in Pending'
      PROVE  q \in Procs /\ (q # p => q \in Pending /\ ver'[q] = ver[q] /\ pc'[q] = pc[q] /\ at'[q] = at[q])
  BY <1>1 DEF Mine, Pending
<1>2. global_version \in Nat \ {0} /\ global_version' = global_version + 1 /\ word' = word
      /\ ver'[p] = global_version /\ \A r \in Procs : old'[r] = old[r] /\ cand'[r] = cand[r]
  BY DEF Beginning, Mine, TypeOK
<1>3. /\ \A i \in Slots : word[i].ver < global_version
      /\ \A q \in Pending : ver[q] \in 1..global_version - 1
      /\ \A r \in Procs : old[r] \in Nat /\ (cand[r] # None => cand[r].ver \in Nat)
  <2>1. \A r \in Procs : old[r] \in Nat /\ (cand[r] # None => cand[r].ver \in Nat)
    BY CandidateKey DEF TypeOK
  <2>2. ASSUME NEW i \in Slots PROVE word[i].ver < global_version
    <3>1. CASE word[i].st = "EMPTY"
      <4>1. word[i].ver = 0
        BY <3>1, InUse
      <4> QED BY <1>2, <4>1
    <3>2. CASE word[i].st # "EMPTY"
      BY <3>2, InUse
    <3> QED BY <3>1, <3>2
  <2> QED BY <2>1, <2>2 DEF VersionInv
<1>4. \A i \in Slots : IF word'[i].st = "EMPTY" THEN word'[i] = EMPTY
                       ELSE word'[i].ver \in 1..global_version' - 1
  <2> SUFFICES ASSUME NEW i \in Slots
               PROVE  IF word[i].st = "EMPTY" THEN word[i] = EMPTY
                      ELSE word[i].ver \in 1..(global_version + 1) - 1
    BY <1>2
  <2>1. word[i].st # "EMPTY" => word[i].ver \in 1..global_version - 1
    BY InUse
  <2>2. word[i].st = "EMPTY" => word[i] = EMPTY
    BY InUse
  <2> QED BY <1>2, <2>1, <2>2
<1>5. \A i, j \in Slots : word'[i] # EMPTY /\ word'[i].ver = word'[j].ver => i = j
  BY <1>2 DEF VersionInv
<1>6. ASSUME NEW q \in Pending'
      PROVE  /\ ver'[q] \in 1..global_version' - 1
             /\ \A i \in Slots : word'[i].ver = ver'[q] => pc'[q] = "write" /\ at'[q] = i
             /\ \A r \in Pending' : ver'[r] = ver'[q] => r = q
             /\ \A r \in Procs : old'[r] # ver'[q] /\ (cand'[r] # None => cand'[r].ver # ver'[q])
  <2>1. CASE q = p
    BY <1>1, <1>2, <1>3, <1>6, <2>1 DEF VersionInv
  <2>2. CASE q # p
    <3>1. /\ q \in Pending /\ ver'[q] = ver[q] /\ pc'[q] = pc[q] /\ at'[q] = at[q]
          /\ ver[q] \in 1..global_version - 1
      BY <1>1, <1>3, <1>6, <2>2
    <3>2. \A r \in Pending' : ver'[r] = ver'[q] => r = q
      BY <1>1, <1>2, <3>1 DEF VersionInv
    <3> QED BY <1>2, <3>1, <3>2 DEF VersionInv
  <2> QED BY <2>1, <2>2
<1>7. \A r \in Procs : old'[r] < global_version' /\ (cand'[r] # None => cand'[r].ver < global_version')
  BY <1>2, <1>3 DEF VersionInv
<1> QED BY <1>4, <1>5, <1>6, <1>7 DEF VersionInv

-----------------------------------------------------------------------------
(* Holders                                                                 *)

LEMMA HeldIsLocked ==
  ASSUME HolderInv, NEW q \in Procs, NEW i \in Slots, Holds(q, i)
  PROVE  word[i].st \in {"WRITING", "DELETING"}
<1>1. CASE pc[q] = "write"
  <2>1. word[i] = [st |-> "WRITING", ver |-> ver[q]]
    BY <1>1 DEF HolderInv
  <2> QED BY <2>1
<1>2. CASE pc[q] # "write"
  BY <1>2 DEF HolderInv
<1> QED BY <1>1, <1>2

LEMMA OthersHold ==
  ASSUME NEW p \in Procs, Mine(p), NEW q \in Procs \ {p}, NEW i \in Slots
  PROVE  (Holds(q, i)' <=> Holds(q, i)) /\ pc'[q] = pc[q] /\ ver'[q] = ver[q]
BY DEF Mine, Holds

\* p, which held nothing, has locked or claimed slot i, which was free or valid.
LEMMA Gains ==
  ASSUME HolderInv, NEW p \in Procs, Mine(p), NEW i \in Slots,
         word[i].st \notin {"WRITING", "DELETING"},
         \A j \in Slots : ~Holds(p, j), \A j \in Slots : Holds(p, j)' <=> j = i,
         \A j \in Slots \ {i} : word'[j] = word[j],
         IF pc'[p] = "write" THEN word'[i] = [st |-> "WRITING", ver |-> ver'[p]]
         ELSE word'[i].st = "DELETING"
  PROVE  HolderInv'
<1>1. \A q \in Procs : ~Holds(q, i)
  BY HeldIsLocked
<1>2. \A q \in Procs \ {p}, j \in Slots : Holds(q, j)' <=> Holds(q, j)
  BY OthersHold
<1>3. ASSUME NEW q \in Procs, NEW j \in Slots, Holds(q, j)'
      PROVE  IF pc'[q] = "write" THEN word'[j] = [st |-> "WRITING", ver |-> ver'[q]]
             ELSE word'[j].st = "DELETING"
  <2>1. CASE q = p
    BY <1>3, <2>1
  <2>2. CASE q # p
    BY <1>1, <1>2, <1>3, <2>2, OthersHold DEF HolderInv
  <2> QED BY <2>1, <2>2
<1>4. ASSUME NEW q \in Procs, NEW r \in Procs, NEW j \in Slots, Holds(q, j)', Holds(r, j)'
      PROVE  q = r
  BY <1>1, <1>2, <1>4 DEF HolderInv
<1>5. ASSUME NEW j \in Slots, word'[j].st \in {"WRITING", "DELETING"}
      PROVE  \E q \in Procs : Holds(q, j)'
  BY <1>2, <1>5 DEF HolderInv
<1> QED BY <1>3, <1>4, <1>5 DEF HolderInv

\* p has released slot i.
LEMMA Drops ==
  ASSUME HolderInv, NEW p \in Procs, Mine(p), NEW i \in Slots, Holds(p, i),
         word'[i].st \notin {"WRITING", "DELETING"},
         \A j \in Slots : Holds(p, j) => j = i, \A j \in Slots : ~Holds(p, j)',
         \A j \in Slots \ {i} : word'[j] = word[j]
  PROVE  HolderInv'
<1>1. \A q \in Procs : Holds(q, i) => q = p
  BY DEF HolderInv
<1>2. \A q \in Procs \ {p}, j \in Slots : Holds(q, j)' <=> Holds(q, j)
  BY OthersHold
<1>3. ASSUME NEW q \in Procs, NEW j \in Slots, Holds(q, j)'
      PROVE  IF pc'[q] = "write" THEN word'[j] = [st |-> "WRITING", ver |-> ver'[q]]
             ELSE word'[j].st = "DELETING"
  BY <1>1, <1>2, <1>3, OthersHold DEF HolderInv
<1>4. ASSUME NEW q \in Procs, NEW r \in Procs, NEW j \in Slots, Holds(q, j)', Holds(r, j)'
      PROVE  q = r
  BY <1>1, <1>2, <1>4 DEF HolderInv
<1>5. ASSUME NEW j \in Slots, word'[j].st \in {"WRITING", "DELETING"}
      PROVE  \E q \in Procs : Holds(q, j)'
  BY <1>2, <1>5 DEF HolderInv
<1> QED BY <1>3, <1>4, <1>5 DEF HolderInv

LEMMA HolderKeeps ==
  ASSUME SlotInv, NEW p \in Procs, Mine(p), Effect(p)
  PROVE  HolderInv'
<1> USE DEF SlotInv
<1>1. CASE Quiet(p) \/ Beginning(p)
  <2>1. word' = word /\ \A j \in Slots : ~Holds(p, j) /\ ~Holds(p, j)'
    BY <1>1 DEF Quiet, Beginning, Holds, Busy
  <2>2. \A q \in Procs, j \in Slots : /\ Holds(q, j)' <=> Holds(q, j)
                                      /\ Holds(q, j) => pc'[q] = pc[q] /\ ver'[q] = ver[q]
    BY <2>1, OthersHold
  <2> QED BY <2>1, <2>2 DEF HolderInv
<1>2. CASE Filling(p)
  <2>1. at[p] \in Slots /\ Holds(p, at[p])
    BY <1>2 DEF Filling, Holds, TypeOK
  <2>2. \A j \in Slots : (Holds(p, j) => j = at[p]) /\ ~Holds(p, j)'
    BY <1>2 DEF Filling, Holds
  <2> QED BY <1>2, <2>1, <2>2, Drops DEF Filling, Becomes, VALID
<1>3. CASE Taking(p)
  <2>1. cand[p].at \in Slots /\ Holds(p, cand[p].at)
    BY <1>3, CandidateKey DEF Taking, Holds, LocalInv, LocalOK
  <2>2. \A j \in Slots : (Holds(p, j) => j = cand[p].at) /\ ~Holds(p, j)'
    BY <1>3 DEF Taking, Holds
  <2> QED BY <1>3, <2>1, <2>2, Drops DEF Taking, Becomes, EMPTY
<1>4. ASSUME NEW i \in Slots, Releasing(p, i) PROVE HolderInv'
  <2>1. \A j \in Slots : (Holds(p, j) => j = i) /\ ~Holds(p, j)'
    BY <1>4 DEF Releasing, Holds, Busy
  <2> QED BY <1>4, <2>1, Drops DEF Releasing, Becomes, VALID
<1>5. CASE Placing(p)
  <2>1. at[p] \in Slots /\ word[at[p]].st = "EMPTY"
    BY <1>5 DEF Placing, TypeOK, EMPTY
  <2>2. \A j \in Slots : ~Holds(p, j) /\ (Holds(p, j)' <=> j = at[p])
    BY <1>5 DEF Placing, Holds
  <2>3. word'[at[p]] = [st |-> "WRITING", ver |-> ver'[p]] /\ \A j \in Slots \ {at[p]} : word'[j] = word[j]
    BY <1>5, <2>1 DEF Placing, Becomes, Knows, Inserting
  <2> QED BY <1>5, <2>1, <2>2, <2>3, Gains DEF Placing
<1>6. ASSUME NEW i \in Slots, Locking(p, i) PROVE HolderInv'
  <2>1. \A j \in Slots : ~Holds(p, j) /\ (Holds(p, j)' <=> j = i)
    BY <1>6 DEF Locking, Holds
  <2>2. pc'[p] # "write" /\ word[i].st = "VALID" /\ word'[i].st = "DELETING"
        /\ \A j \in Slots \ {i} : word'[j] = word[j]
    BY <1>6 DEF Locking, Becomes, ValidNow
  <2> QED BY <2>1, <2>2, Gains
<1> QED BY <1>1, <1>2, <1>3, <1>4, <1>5, <1>6 DEF Effect

-----------------------------------------------------------------------------
(* Entries                                                                 *)

\* An entry is as it was in every slot that p does not fill, and so is what others know of it.
LEMMA EntryKeeps ==
  ASSUME SlotInv, TypeOK', NEW p \in Procs, Mine(p), Effect(p)
  PROVE  EntryInv'
<1> USE DEF SlotInv
<1>1. \A i \in Slots : Occupied(i) => entry[i].ver = word[i].ver /\ entry[i].key \in Keys
  BY DEF EntryInv
<1>2. \A i \in Slots : Occupied(i)' => entry'[i].ver = word'[i].ver /\ entry'[i].key \in Keys
  <2>1. CASE Quiet(p) \/ Beginning(p)
    BY <1>1, <2>1 DEF Quiet, Beginning, Same, Occupied
  <2>2. CASE Filling(p)
    <3>1. key[p] \in Keys
      BY <2>2 DEF Filling, LocalInv, LocalOK, Inserting
    <3> QED BY <1>1, <2>2, <3>1 DEF Filling, Becomes, VALID, Occupied
  <2>3. CASE Placing(p) \/ Taking(p)
    BY <1>1, <2>3 DEF Placing, Taking, Becomes, Same, Occupied, EMPTY
  <2>4. ASSUME NEW j \in Slots, Locking(p, j) \/ Releasing(p, j), NEW i \in Slots, Occupied(i)'
        PROVE  entry'[i].ver = word'[i].ver /\ entry'[i].key \in Keys
    <3>1. Occupied(j)
      BY <2>4 DEF Locking, Releasing, HolderInv, ValidNow, Occupied
    <3> QED BY <1>1, <2>4, <3>1 DEF Locking, Releasing, Becomes, VALID, Same, Occupied
  <2> QED BY <2>1, <2>2, <2>3, <2>4 DEF Effect
<1>3. at[p] \in Slots /\ \A r \in Procs \ {p} : pc'[r] = pc[r] /\ at'[r] = at[r] /\ at[r] \in Slots
  BY DEF Mine, TypeOK
<1>4. ASSUME pc[p] \notin {"update", "write"}, NEW i \in Slots, Torn(i) PROVE Torn(i)'
  BY <1>3, <1>4 DEF Torn
<1>5. ASSUME NEW r \in Procs \ {p}, NEW i \in Slots, Holds(r, i)
      PROVE  word'[i].ver = word[i].ver /\ entry'[i] = entry[i]
  <2>1. word[i].st \in {"WRITING", "DELETING"} /\ ~Holds(p, i)
    BY <1>5, HeldIsLocked DEF HolderInv
  <2>2. CASE Quiet(p) \/ Beginning(p)
    BY <2>2 DEF Quiet, Beginning, Same
  <2>3. CASE Filling(p)
    BY <2>1, <2>3 DEF Filling, Becomes, Holds
  <2>4. CASE Placing(p) \/ Taking(p)
    BY <2>1, <2>4 DEF Placing, Taking, Becomes, Same, Holds, EMPTY
  <2>5. CASE \E j \in Slots : Locking(p, j) \/ Releasing(p, j)
    BY <2>1, <2>5 DEF Locking, Releasing, Becomes, Same, VALID
  <2> QED BY <2>2, <2>3, <2>4, <2>5 DEF Effect
<1>6. ASSUME NEW r \in Procs, pc'[r] = "lock"
      PROVE  word'[at'[r]].ver # old'[r] \/ Matches(r)' \/ Torn(at[r])'
  <2>1. CASE r = p
    <3>1. Quiet(p)
      BY <1>6, <2>1 DEF Effect, Filling, Placing, Taking, Beginning, Locking, Releasing, Busy
    <3>2. /\ entry' = entry /\ key'[p] = key[p] /\ at'[p] = at[p] /\ old'[p] = old[p]
          /\ pc[p] = "read"
          /\ Matches(p) \/ Torn(at[p])
      BY <1>6, <2>1, <3>1 DEF Quiet, Same, Knows, Inserting
    <3>3. Torn(at[p]) => \E q \in Procs : pc'[q] \in {"update", "write"} /\ at'[q] = at'[p]
      BY <1>3, <3>2 DEF Torn
    <3> QED BY <2>1, <3>2, <3>3 DEF Matches, Torn
  <2>2. CASE r # p
    <3>1. /\ pc[r] = "lock" /\ at'[r] = at[r] /\ old'[r] = old[r] /\ key'[r] = key[r]
          /\ at[r] \in Slots /\ old[r] > 0
      BY <1>6, <2>2 DEF Mine, LocalInv, LocalOK, TypeOK
    <3>2. word[at[r]].ver # old[r] \/ Matches(r) \/ Torn(at[r])
      BY <3>1 DEF EntryInv
    <3>3. CASE Filling(p)
      <4>1. CASE at[p] = at[r]
        <5>1. old[r] # ver[p]
          BY <3>3 DEF Filling, VersionInv, Pending, Inserting
        <5> QED BY <3>1, <3>3, <4>1, <5>1 DEF Filling, Becomes, VALID
      <4>2. CASE at[p] # at[r]
        <5>1. Torn(at[r]) => Torn(at[r])'
          BY <1>3, <3>1, <4>2 DEF Torn
        <5> QED BY <3>1, <3>2, <3>3, <4>2, <5>1 DEF Filling, Becomes, Matches
      <4> QED BY <4>1, <4>2
    <3>4. CASE ~Filling(p)
      <4>1. pc[p] \notin {"update", "write"} /\ entry' = entry
        BY <3>4 DEF Effect, Quiet, Placing, Taking, Beginning, Locking, Releasing, Same, Busy
      <4>2. \/ word'[at[r]].ver = word[at[r]].ver
            \/ word'[at[r]].ver = 0
            \/ pc[p] = "place" /\ word'[at[r]].ver = ver[p]
        <5>1. CASE Quiet(p) \/ Beginning(p)
          BY <5>1 DEF Quiet, Beginning
        <5>2. CASE Placing(p) \/ Taking(p)
          BY <3>1, <5>2 DEF Placing, Taking, Becomes, EMPTY
        <5>3. CASE \E j \in Slots : Locking(p, j) \/ Releasing(p, j)
          BY <3>1, <5>3 DEF Locking, Releasing, Becomes, VALID
        <5> QED BY <3>4, <5>1, <5>2, <5>3 DEF Effect
      <4>3. pc[p] = "place" => old[r] # ver[p]
        BY DEF VersionInv, Pending, Inserting
      <4>4. Torn(at[r]) => Torn(at[r])'
        BY <1>4, <3>1, <4>1
      <4>5. Matches(r) => Matches(r)'
        BY <3>1, <4>1 DEF Matches
      <4> QED BY <3>1, <3>2, <4>2, <4>3, <4>4, <4>5
    <3> QED BY <3>3, <3>4
  <2> QED BY <2>1, <2>2
<1>7. ASSUME NEW r \in Procs, pc'[r] = "update"
      PROVE  entry'[at'[r]].key = key'[r]
  <2>1. CASE r = p
    <3>1. PICK i \in Slots : Locking(p, i)
      BY <1>7, <2>1 DEF Effect, Filling, Placing, Taking, Beginning, Quiet, Releasing, Busy
    <3>2. /\ entry' = entry /\ key'[p] = key[p] /\ at'[p] = i /\ at[p] = i
          /\ pc[p] = "lock" /\ ValidNow(i) /\ word[i].ver = old[p]
      BY <1>7, <2>1, <3>1 DEF Locking, Same, Knows, Inserting
    <3>3. ~Torn(i)
      <4> SUFFICES ASSUME NEW q \in Procs, pc[q] \in {"update", "write"}, at[q] = i PROVE FALSE
        BY DEF Torn
      <4>1. Holds(q, i)
        BY DEF Holds
      <4> QED BY <3>2, <4>1, HeldIsLocked DEF ValidNow
    <3>4. Matches(p)
      BY <3>2, <3>3 DEF EntryInv
    <3> QED BY <2>1, <3>2, <3>4 DEF Matches
  <2>2. CASE r # p
    <3>1. pc[r] = "update" /\ at'[r] = at[r] /\ key'[r] = key[r] /\ at[r] \in Slots /\ Holds(r, at[r])
      BY <1>7, <2>2 DEF Mine, Holds, TypeOK
    <3> QED BY <1>5, <2>2, <3>1 DEF EntryInv
  <2> QED BY <2>1, <2>2
<1>8. ASSUME NEW r \in Procs, pc'[r] = "take"
      PROVE  word'[cand'[r].at].ver = cand'[r].ver
  <2>1. CASE r = p
    <3>1. PICK i \in Slots : Locking(p, i)
      BY <1>8, <2>1 DEF Effect, Filling, Placing, Taking, Beginning, Quiet, Releasing, Busy
    <3> QED BY <1>8, <2>1, <3>1 DEF Locking, Becomes
  <2>2. CASE r # p
    <3>1. pc[r] = "take" /\ cand'[r] = cand[r]
      BY <1>8, <2>2 DEF Mine
    <3>2. cand[r].at \in Slots /\ Holds(r, cand[r].at)
      BY <3>1, CandidateKey DEF Holds, LocalInv, LocalOK
    <3> QED BY <1>5, <2>2, <3>1, <3>2 DEF EntryInv
  <2> QED BY <2>1, <2>2
<1>9. ASSUME NEW r \in Procs, cand'[r] # None, Occupied(cand[r].at)',
             word'[cand'[r].at].ver = cand'[r].ver
      PROVE  entry'[cand'[r].at].key = cand'[r].key
  <2>1. CASE cand'[r] = cand[r]
    <3> DEFINE i == cand[r].at
    <3>1. i \in Slots
      BY <1>9, <2>1, CandidateKey
    <3>2. Occupied(i) /\ word[i].ver = cand[r].ver => entry[i].key = cand[r].key
      BY <1>9, <2>1 DEF EntryInv
    <3>3. (word'[i].st = "VALID" \/ word'[i].st = "DELETING") /\ word'[i].ver = cand[r].ver
      BY <1>9, <2>1 DEF Occupied
    <3> HIDE DEF i
    <3>4. CASE Quiet(p) \/ Beginning(p)
      BY <2>1, <3>2, <3>3, <3>4 DEF Quiet, Beginning, Same, Occupied, i
    <3>5. CASE Filling(p)
      <4>1. cand[r].ver # ver[p]
        BY <1>9, <2>1, <3>5 DEF Filling, VersionInv, Pending, Inserting
      <4>2. i # at[p]
        BY <3>1, <3>3, <3>5, <4>1 DEF Filling, Becomes, VALID
      <4> QED BY <2>1, <3>1, <3>2, <3>3, <3>5, <4>2 DEF Filling, Becomes, Occupied, i
    <3>6. CASE Placing(p) \/ Taking(p)
      BY <2>1, <3>1, <3>2, <3>3, <3>6 DEF Placing, Taking, Becomes, Same, Occupied, EMPTY, i
    <3>7. ASSUME NEW j \in Slots, Locking(p, j) \/ Releasing(p, j)
          PROVE  entry'[cand'[r].at].key = cand'[r].key
      <4>1. Occupied(j)
        BY <3>7 DEF Locking, Releasing, HolderInv, ValidNow, Occupied
      <4> QED BY <2>1, <3>1, <3>2, <3>3, <3>7, <4>1 DEF Locking, Releasing, Becomes, VALID, Same,
                 Occupied, i
    <3> QED BY <2>1, <3>4, <3>5, <3>6, <3>7 DEF Effect, i
  <2>2. CASE cand'[r] # cand[r]
    <3>1. r = p
      BY <2>2 DEF Mine
    <3>2. Knows(p) /\ entry' = entry
      BY <1>9, <2>2, <3>1 DEF Effect, Quiet, Filling, Placing, Taking, Beginning, Locking, Releasing, Same
    <3>3. PICK i \in Slots : cand'[p] = [key |-> entry[i].key, ver |-> old[p], at |-> i]
      BY <1>9, <2>2, <3>1, <3>2 DEF Knows
    <3> QED BY <3>1, <3>2, <3>3
  <2> QED BY <2>1, <2>2
<1> QED BY <1>2, <1>6, <1>7, <1>8, <1>9 DEF EntryInv

-----------------------------------------------------------------------------
(* The invariant of the slots, and who holds them                          *)

LEMMA SlotInvInit == Init => SlotInv
<1> SUFFICES ASSUME Init PROVE SlotInv
  OBVIOUS
<1> USE MapAssumption DEF Init
<1>1. TypeOK
  BY DEF TypeOK, EMPTY, Slots, Labels
<1>2. LocalInv
  BY Steps DEF LocalInv, LocalOK, Inserting
<1>3. VersionInv
  BY DEF VersionInv, EMPTY, Pending, Inserting
<1>4. HolderInv
  BY DEF HolderInv, Holds, EMPTY
<1>5. EntryInv
  BY DEF EntryInv, Occupied, EMPTY
<1> QED BY <1>1, <1>2, <1>3, <1>4, <1>5 DEF SlotInv

LEMMA SlotInvNext == SlotInv /\ Next => SlotInv'
<1> SUFFICES ASSUME SlotInv, Next PROVE SlotInv'
  OBVIOUS
<1>1. PICK p \in Procs : Mine(p) /\ Effect(p)
  BY StepDoes
<1>2. TypeOK' /\ LocalInv'
  BY StepDoes
<1>3. VersionInv'
  BY <1>1, <1>2, EffectNumbers, NumberingKeeps, BeginningNumbers
<1>4. HolderInv'
  BY <1>1, HolderKeeps
<1>5. EntryInv'
  BY <1>1, <1>2, EntryKeeps
<1> QED BY <1>2, <1>3, <1>4, <1>5 DEF SlotInv

LEMMA SlotInvStutters == SlotInv /\ UNCHANGED vars => SlotInv'
<1> SUFFICES ASSUME SlotInv, UNCHANGED vars PROVE SlotInv'
  OBVIOUS
<1> USE DEF vars
<1>1. TypeOK' /\ LocalInv'
  BY DEF SlotInv, TypeOK, LocalInv, LocalOK
<1>2. VersionInv'
  BY DEF SlotInv, VersionInv, Pending
<1>3. HolderInv'
  BY DEF SlotInv, HolderInv, Holds
<1>4. EntryInv'
  BY DEF SlotInv, EntryInv, Occupied, Matches, Torn
<1> QED BY <1>1, <1>2, <1>3, <1>4 DEF SlotInv

\* Every version is in one slot at most, every locked slot has one holder, and an occupied slot's
\* entry is the one its version was given to, whatever callers interleave.
THEOREM SlotsConsistent == Spec => []SlotInv
<1>1. Init => SlotInv
  BY SlotInvInit
<1>2. SlotInv /\ [Next]_vars => SlotInv'
  BY SlotInvNext, SlotInvStutters
<1> QED BY <1>1, <1>2, PTL DEF Spec

\* No slot is locked by two callers, and none stays locked by no one: try_lock_for_write and
\* try_lock_for_delete hand a slot to one caller, which mark_valid or mark_empty ends.
THEOREM HoldersUnique == Spec => []OneHolder
<1>1. SlotInv => OneHolder
  <2> SUFFICES ASSUME SlotInv, NEW i \in Slots
               PROVE  Cardinality({p \in Procs : Holds(p, i)})
                      = (IF word[i].st \in {"WRITING", "DELETING"} THEN 1 ELSE 0)
    BY DEF OneHolder, Holds
  <2>1. CASE word[i].st \in {"WRITING", "DELETING"}
    <3>1. PICK p \in Procs : Holds(p, i)
      BY <2>1 DEF SlotInv, HolderInv
    <3>2. {q \in Procs : Holds(q, i)} = {p}
      BY <3>1 DEF SlotInv, HolderInv
    <3> QED BY <2>1, <3>2, FS_Singleton
  <2>2. CASE word[i].st \notin {"WRITING", "DELETING"}
    <3>1. {q \in Procs : Holds(q, i)} = {}
      BY <2>2, HeldIsLocked DEF SlotInv
    <3> QED BY <2>2, <3>1, FS_EmptySet
  <2> QED BY <2>1, <2>2
<1> QED BY <1>1, SlotsConsistent, PTL

-----------------------------------------------------------------------------
(* Where an entry is, and what the counter says                            *)

\* The steps that leave every entry where it is, and the counter alone.
Plain(p) == \/ Look(p) \/ Read(p) \/ Lock(p) \/ Unlock(p) \/ Place(p)
            \/ (PlaceFails(p) /\ ~Leave(p))
            \/ Pop(p) \/ FirstKeyValue(p) \/ Clear(p) \/ Scan(p) \/ Confirm(p) \/ Choose(p)
            \/ Restore(p) \/ Report(p) \/ Visit(p) \/ Seize(p) \/ PutBack(p)

LEMMA PlainDoes ==
  ASSUME SlotInv, NEW p \in Procs, Plain(p)
  PROVE  /\ len' = len /\ out' = out
         /\ pc[p] \notin {"update", "write", "take", "count", "discount"}
         /\ pc'[p] \notin {"count", "discount"}
         /\ pc[p] \in Inserting <=> pc'[p] \in Inserting
         /\ pc[p] \in Inserting => key'[p] = key[p]
<1> USE DEF SlotInv, Inserting
<1>1. CASE Look(p) \/ Read(p)
  <2>1. len' = len /\ out' = out /\ pc[p] \in {"look", "read"} /\ key' = key
        /\ pc'[p] \in {"look", "read", "lock", "place"}
    BY <1>1, Goes DEF Look, Read, shared
  <2> QED BY <2>1
<1>2. CASE Lock(p) \/ Unlock(p) \/ Place(p)
  <2>1. len' = len /\ out' = out /\ pc[p] \in {"lock", "unlock", "place"} /\ key' = key
        /\ pc'[p] \in {"look", "update", "unlock", "place", "write"}
    BY <1>2, Goes DEF Lock, Unlock, Place
  <2> QED BY <2>1
<1>3. CASE PlaceFails(p) /\ ~Leave(p)
  <2>1. len' = len /\ out' = out /\ pc[p] = "place" /\ key' = key /\ pc'[p] \in {"look", "place"}
    BY <1>3, Goes DEF PlaceFails
  <2> QED BY <2>1
<1>4. CASE Pop(p) \/ FirstKeyValue(p) \/ Clear(p)
  <2>1. len' = len /\ out' = out /\ pc[p] = "idle" /\ pc'[p] \in {"scan", "visit"}
    BY <1>4 DEF Pop, FirstKeyValue, Clear, Call, Goto, shared, TypeOK
  <2> QED BY <2>1
<1>5. CASE Scan(p) \/ Confirm(p)
  <2>1. len' = len /\ out' = out /\ pc[p] \in {"scan", "confirm"}
        /\ pc'[p] \in {"scan", "confirm", "choose"}
    BY <1>5, Goes DEF Scan, Confirm, shared
  <2> QED BY <2>1
<1>6. CASE Choose(p) \/ Restore(p) \/ Report(p)
  <2>1. len' = len /\ out' = out /\ pc[p] \in {"choose", "restore"}
    BY <1>6 DEF Choose, Restore, Report, shared
  <2>2. pc'[p] \in {"idle", "take", "restore", "scan"}
    BY <1>6, NextRoundDoes, LeaveDoes DEF Choose, Restore, Report, Goto, TypeOK
  <2> QED BY <2>1, <2>2
<1>7. CASE Visit(p) \/ Seize(p) \/ PutBack(p)
  <2>1. len' = len /\ out' = out /\ pc[p] \in {"visit", "seize", "restore"}
    BY <1>7 DEF Visit, Seize, PutBack, shared
  <2>2. op[p] = "clear"
    BY <1>7, WhichCall DEF Visit, Seize, PutBack
  <2>3. pc'[p] \in {"idle", "visit", "seize", "take", "restore"}
    BY <1>7, <2>2, ResumeDoes DEF Visit, Seize, PutBack, Goto, TypeOK
  <2> QED BY <2>1, <2>3
<1> QED BY <1>1, <1>2, <1>3, <1>4, <1>5, <1>6, <1>7 DEF Plain

\* Every step is of one of these kinds.
LEMMA StepKinds ==
  ASSUME SlotInv, Next
  PROVE  \E p \in Procs :
           /\ Mine(p) /\ Effect(p)
           /\ \/ Plain(p) \/ Insert(p) \/ Update(p) \/ Write(p) \/ Count(p) \/ Take(p)
              \/ Discount(p) \/ Uncount(p)
              \/ PlaceFails(p) /\ Leave(p)
<1>1. PICK p \in Procs : InsertStep(p) \/ PopStep(p) \/ FirstStep(p) \/ ClearStep(p)
  BY DEF Next
<1>2. Remember
  BY DEF Next
<1>3. CASE InsertStep(p)
  <2>1. Mine(p) /\ Effect(p)
    BY <1>2, <1>3, InsertDoes, LookDoes, ReadDoes, LockDoes, UpdateDoes, UnlockDoes, PlaceDoes,
       PlaceFailsDoes, WriteDoes, CountDoes DEF InsertStep
  <2> QED BY <1>3, <2>1 DEF InsertStep, Plain
<1>4. CASE PopStep(p) \/ FirstStep(p) \/ ClearStep(p)
  <2>1. Mine(p) /\ Effect(p)
    BY <1>2, <1>4, PopDoes, ScanDoes, ConfirmDoes, ChooseDoes, RestoreDoes, TakeDoes, DiscountDoes,
       ReportDoes, VisitDoes, SeizeDoes, PutBackDoes, UncountDoes DEF PopStep, FirstStep, ClearStep
  <2> QED BY <1>4, <2>1 DEF PopStep, FirstStep, ClearStep, Plain
<1> QED BY <1>1, <1>3, <1>4

\* No other effect than filling a slot and emptying it changes what is in the slots.
LEMMA SlotsSame ==
  ASSUME SlotInv, NEW p \in Procs, Effect(p), pc[p] \notin {"update", "write", "take"}
  PROVE  entry' = entry /\ \A i \in Slots : Occupied(i)' <=> Occupied(i)
<1>1. CASE Quiet(p) \/ Beginning(p)
  BY <1>1 DEF Quiet, Beginning, Same, Occupied
<1>2. CASE Placing(p)
  BY <1>2 DEF Placing, Becomes, Same, Occupied, EMPTY
<1>3. ASSUME NEW i \in Slots, Locking(p, i) \/ Releasing(p, i)
      PROVE  entry' = entry /\ \A j \in Slots : Occupied(j)' <=> Occupied(j)
  <2>1. Occupied(i)
    BY <1>3, HeldIsLocked DEF SlotInv, HolderInv, Locking, Releasing, Occupied, ValidNow
  <2> QED BY <1>3, <2>1 DEF Locking, Releasing, Becomes, Same, Occupied, VALID
<1> QED BY <1>1, <1>2, <1>3 DEF Effect, Filling, Taking

LEMMA PlaceInvNext == SlotInv /\ PlaceInv /\ Next => PlaceInv'
<1> SUFFICES ASSUME SlotInv, PlaceInv, Next, NEW k \in Keys \ Shared
             PROVE  OnePlace(k)'
  BY DEF PlaceInv
<1> USE DEF SlotInv
<1>1. PICK p \in Procs : /\ Mine(p) /\ Effect(p)
                         /\ \/ Plain(p) \/ Insert(p) \/ Update(p) \/ Write(p) \/ Count(p) \/ Take(p)
                            \/ Discount(p) \/ Uncount(p)
                            \/ PlaceFails(p) /\ Leave(p)
  BY StepKinds
<1>2. \/ SlotsOf(k) = {} /\ Inserters(k) = {} /\ Poppers(k) = {} /\ k \in out
      \/ (\E i \in Slots : SlotsOf(k) = {i}) /\ Inserters(k) = {} /\ Poppers(k) = {} /\ k \notin out
      \/ SlotsOf(k) = {} /\ (\E q \in Procs : Inserters(k) = {q}) /\ Poppers(k) = {} /\ k \notin out
      \/ SlotsOf(k) = {} /\ Inserters(k) = {} /\ (\E q \in Procs : Poppers(k) = {q}) /\ k \notin out
  BY DEF PlaceInv, OnePlace
<1>3. ASSUME SlotsOf(k)' = SlotsOf(k), Inserters(k)' = Inserters(k), Poppers(k)' = Poppers(k),
             k \in out' <=> k \in out
      PROVE  OnePlace(k)'
  BY <1>2, <1>3 DEF OnePlace
<1>4. ASSUME pc[p] \notin {"update", "write", "take"} PROVE SlotsOf(k)' = SlotsOf(k)
  BY <1>1, <1>4, SlotsSame DEF SlotsOf, Occupied
\* The others insert and pop what they did; so all depends on p.
<1>5. \A q \in Procs \ {p} : /\ q \in Inserters(k)' <=> q \in Inserters(k)
                             /\ q \in Poppers(k)' <=> q \in Poppers(k)
  BY <1>1 DEF Mine, Inserters, Poppers
<1>6. /\ p \in Inserters(k) <=> pc[p] \in Inserting /\ key[p] = k
      /\ p \in Inserters(k)' <=> pc'[p] \in Inserting /\ key'[p] = k
      /\ p \in Poppers(k) <=> pc[p] = "discount" /\ cand[p].key = k
      /\ p \in Poppers(k)' <=> pc'[p] = "discount" /\ cand'[p].key = k
  BY DEF Inserters, Poppers
<1>7. /\ Inserters(k) \subseteq Procs /\ Inserters(k)' \subseteq Procs
      /\ Poppers(k) \subseteq Procs /\ Poppers(k)' \subseteq Procs
  BY DEF Inserters, Poppers
<1>8. CASE Plain(p)
  <2>1. /\ len' = len /\ out' = out
        /\ pc[p] \notin {"update", "write", "take", "count", "discount"}
        /\ pc'[p] \notin {"count", "discount"}
        /\ pc[p] \in Inserting <=> pc'[p] \in Inserting
        /\ pc[p] \in Inserting => key'[p] = key[p]
    BY <1>8, PlainDoes
  <2>2. Inserters(k)' = Inserters(k)
    BY <1>5, <1>6, <1>7, <2>1
  <2>3. Poppers(k)' = Poppers(k)
    BY <1>5, <1>6, <1>7, <2>1
  <2> QED BY <1>3, <1>4, <2>1, <2>2, <2>3
<1>9. CASE Insert(p)
  <2>1. PICK j \in out \cup Shared : key' = [key EXCEPT ![p] = j] /\ out' = out \ {j}
    BY <1>9 DEF Insert
  <2>2. pc[p] = "idle" /\ pc'[p] = "look" /\ key'[p] = j
    BY <1>9, <2>1 DEF Insert, Call, Goto, TypeOK
  <2>3. SlotsOf(k)' = SlotsOf(k) /\ Poppers(k)' = Poppers(k)
    BY <1>4, <1>5, <1>6, <1>7, <2>2
  <2>4. CASE j = k
    <3>1. k \in out
      BY <2>1, <2>4
    <3>2. Inserters(k) = {} /\ SlotsOf(k) = {} /\ Poppers(k) = {}
      BY <1>2, <3>1
    <3>3. Inserters(k)' = {p}
      BY <1>5, <1>6, <1>7, <2>2, <2>4, <3>2 DEF Inserting
    <3> QED BY <2>1, <2>3, <2>4, <3>2, <3>3 DEF OnePlace
  <2>5. CASE j # k
    <3>1. Inserters(k)' = Inserters(k)
      BY <1>5, <1>6, <1>7, <2>2, <2>5 DEF Inserting
    <3> QED BY <1>3, <2>1, <2>3, <2>5, <3>1
  <2> QED BY <2>4, <2>5
<1>10. CASE Update(p)
  <2>1. /\ pc[p] = "update" /\ pc'[p] = "idle" /\ out' = out /\ Fill(p) /\ at[p] \in Slots
        /\ key[p] \in Keys
    BY <1>10, LeaveDoes DEF Update, TypeOK, LocalInv, LocalOK, Inserting
  <2>2. Occupied(at[p]) /\ entry[at[p]].key = key[p]
    <3>1. Holds(p, at[p])
      BY <2>1 DEF Holds
    <3> QED BY <2>1, <3>1 DEF HolderInv, EntryInv, Occupied
  <2>3. key[p] # k
    <3> SUFFICES ASSUME key[p] = k PROVE FALSE
      OBVIOUS
    <3>1. p \in Inserters(k) /\ at[p] \in SlotsOf(k)
      BY <1>6, <2>1, <2>2 DEF SlotsOf, Occupied, Inserting
    <3> QED BY <1>2, <3>1
  <2>4. SlotsOf(k)' = SlotsOf(k)
    <3>1. \A i \in Slots : i # at[p] => word'[i] = word[i] /\ entry'[i] = entry[i]
      BY <2>1, FillDoes DEF Becomes
    <3>2. entry'[at[p]] = [key |-> key[p], ver |-> ver[p]]
      BY <2>1, FillDoes
    <3>3. \A i \in Slots : i \in SlotsOf(k)' <=> i \in SlotsOf(k)
      BY <2>2, <2>3, <3>1, <3>2 DEF SlotsOf, Occupied
    <3> QED BY <3>3 DEF SlotsOf, Occupied
  <2>5. Inserters(k)' = Inserters(k) /\ Poppers(k)' = Poppers(k)
    BY <1>5, <1>6, <1>7, <2>1, <2>3 DEF Inserting
  <2> QED BY <1>3, <2>1, <2>4, <2>5
<1>11. CASE Write(p)
  <2>1. /\ pc[p] = "write" /\ pc'[p] = "count" /\ out' = out /\ Fill(p) /\ at[p] \in Slots
        /\ key[p] \in Keys
    BY <1>11 DEF Write, Goto, TypeOK, LocalInv, LocalOK, Inserting
  <2>2. ~Occupied(at[p])
    <3>1. word[at[p]] = [st |-> "WRITING", ver |-> ver[p]]
      BY <2>1 DEF HolderInv, Holds
    <3> QED BY <3>1 DEF Occupied
  <2>3. Poppers(k)' = Poppers(k)
    BY <1>5, <1>6, <1>7, <2>1
  <2>4. CASE key[p] = k
    <3>1. p \in Inserters(k)
      BY <1>6, <2>1, <2>4 DEF Inserting
    <3>2. Inserters(k) = {p} /\ SlotsOf(k) = {} /\ Poppers(k) = {} /\ k \notin out
      BY <1>2, <3>1
    <3>3. Inserters(k)' = {}
      BY <1>5, <1>6, <1>7, <2>1, <3>2 DEF Inserting
    <3>4. SlotsOf(k)' = {at[p]}
      <4>1. \A i \in Slots : i # at[p] => word'[i] = word[i] /\ entry'[i] = entry[i]
        BY <2>1, FillDoes DEF Becomes
      <4>2. word'[at[p]] = VALID(ver[p]) /\ entry'[at[p]] = [key |-> key[p], ver |-> ver[p]]
        BY <2>1, FillDoes DEF Becomes
      <4>3. \A i \in Slots : i \in SlotsOf(k)' <=> i = at[p]
        BY <2>4, <3>2, <4>1, <4>2 DEF SlotsOf, Occupied, VALID
      <4> QED BY <2>1, <4>3 DEF SlotsOf, Occupied
    <3> QED BY <2>1, <2>3, <3>2, <3>3, <3>4 DEF OnePlace
  <2>5. CASE key[p] # k
    <3>1. SlotsOf(k)' = SlotsOf(k)
      <4>1. \A i \in Slots : i # at[p] => word'[i] = word[i] /\ entry'[i] = entry[i]
        BY <2>1, FillDoes DEF Becomes
      <4>2. entry'[at[p]] = [key |-> key[p], ver |-> ver[p]]
        BY <2>1, FillDoes
      <4>3. \A i \in Slots : i \in SlotsOf(k)' <=> i \in SlotsOf(k)
        BY <2>2, <2>5, <4>1, <4>2 DEF SlotsOf, Occupied
      <4> QED BY <4>3 DEF SlotsOf, Occupied
    <3>2. Inserters(k)' = Inserters(k)
      BY <1>5, <1>6, <1>7, <2>1, <2>5 DEF Inserting
    <3> QED BY <1>3, <2>1, <2>3, <3>1, <3>2
  <2> QED BY <2>4, <2>5
<1>12. CASE Count(p)
  <2>1. pc[p] = "count" /\ pc'[p] = "idle" /\ out' = out
    BY <1>12, LeaveDoes DEF Count
  <2>2. SlotsOf(k)' = SlotsOf(k) /\ Inserters(k)' = Inserters(k) /\ Poppers(k)' = Poppers(k)
    BY <1>4, <1>5, <1>6, <1>7, <2>1 DEF Inserting
  <2> QED BY <1>3, <2>1, <2>2
<1>13. CASE Take(p)
  <2>1. /\ pc[p] = "take" /\ pc'[p] = "discount" /\ out' = out /\ cand' = cand /\ entry' = entry
        /\ word' = [word EXCEPT ![cand[p].at] = EMPTY]
        /\ cand[p].at \in Slots /\ cand[p] # None
    BY <1>13, CandidateKey DEF Take, Goto, TypeOK, LocalInv, LocalOK
  <2>2. Occupied(cand[p].at) /\ entry[cand[p].at].key = cand[p].key
    <3>1. Holds(p, cand[p].at)
      BY <2>1 DEF Holds
    <3>2. Occupied(cand[p].at)
      BY <2>1, <3>1 DEF HolderInv, Occupied
    <3> QED BY <2>1, <3>2 DEF EntryInv
  <2>3. \A i \in Slots : word'[i] = IF i = cand[p].at THEN EMPTY ELSE word[i]
    BY <2>1 DEF TypeOK
  <2>4. SlotsOf(k)' = SlotsOf(k) \ {cand[p].at}
    BY <2>1, <2>3 DEF SlotsOf, Occupied, EMPTY
  <2>5. Inserters(k)' = Inserters(k)
    BY <1>5, <1>6, <1>7, <2>1 DEF Inserting
  <2>6. CASE cand[p].key = k
    <3>1. cand[p].at \in SlotsOf(k)
      BY <2>1, <2>2, <2>6 DEF SlotsOf, Occupied
    <3>2. SlotsOf(k) = {cand[p].at} /\ Inserters(k) = {} /\ Poppers(k) = {} /\ k \notin out
      BY <1>2, <3>1
    <3>3. Poppers(k)' = {p}
      BY <1>5, <1>6, <1>7, <2>1, <2>6, <3>2
    <3> QED BY <2>1, <2>4, <2>5, <3>2, <3>3 DEF OnePlace
  <2>7. CASE cand[p].key # k
    <3>1. cand[p].at \notin SlotsOf(k)
      BY <2>2, <2>7 DEF SlotsOf, Occupied
    <3>2. Poppers(k)' = Poppers(k)
      BY <1>5, <1>6, <1>7, <2>1, <2>7
    <3>3. SlotsOf(k)' = SlotsOf(k)
      BY <2>4, <3>1
    <3> QED BY <1>3, <2>1, <2>5, <3>2, <3>3
  <2> QED BY <2>6, <2>7
<1>14. CASE Discount(p) \/ Uncount(p)
  <2>1. pc[p] = "discount" /\ out' = out \cup {cand[p].key} /\ pc'[p] \in {"idle", "visit"}
    BY <1>14, LeaveDoes, ResumeDoes DEF Discount, Uncount
  <2>2. SlotsOf(k)' = SlotsOf(k) /\ Inserters(k)' = Inserters(k)
    BY <1>4, <1>5, <1>6, <1>7, <2>1 DEF Inserting
  <2>3. CASE cand[p].key = k
    <3>1. p \in Poppers(k)
      BY <1>6, <2>1, <2>3
    <3>2. Poppers(k) = {p} /\ SlotsOf(k) = {} /\ Inserters(k) = {}
      BY <1>2, <3>1
    <3>3. Poppers(k)' = {}
      BY <1>5, <1>6, <1>7, <2>1, <3>2
    <3> QED BY <2>1, <2>2, <2>3, <3>2, <3>3 DEF OnePlace
  <2>4. CASE cand[p].key # k
    <3>1. Poppers(k)' = Poppers(k)
      BY <1>5, <1>6, <1>7, <2>1, <2>4
    <3> QED BY <1>3, <2>1, <2>2, <2>4, <3>1
  <2> QED BY <2>3, <2>4
<1>15. CASE PlaceFails(p) /\ Leave(p)
  <2>1. pc[p] = "place" /\ pc'[p] = "idle" /\ (out' = out \cup {key[p]})
    BY <1>15, LeaveDoes, NextSlotDoes DEF PlaceFails, Labels
  <2>2. SlotsOf(k)' = SlotsOf(k) /\ Poppers(k)' = Poppers(k)
    BY <1>4, <1>5, <1>6, <1>7, <2>1
  <2>3. CASE key[p] = k
    <3>1. p \in Inserters(k)
      BY <1>6, <2>1, <2>3 DEF Inserting
    <3>2. Inserters(k) = {p} /\ SlotsOf(k) = {} /\ Poppers(k) = {}
      BY <1>2, <3>1
    <3>3. Inserters(k)' = {}
      BY <1>5, <1>6, <1>7, <2>1, <3>2 DEF Inserting
    <3> QED BY <2>1, <2>2, <2>3, <3>2, <3>3 DEF OnePlace
  <2>4. CASE key[p] # k
    <3>1. Inserters(k)' = Inserters(k)
      BY <1>5, <1>6, <1>7, <2>1, <2>4 DEF Inserting
    <3> QED BY <1>3, <2>1, <2>2, <2>4, <3>1
  <2> QED BY <2>3, <2>4
<1> QED BY <1>1, <1>8, <1>9, <1>10, <1>11, <1>12, <1>13, <1>14, <1>15

\* An entry whose key is inserted once at a time is never lost or doubled, however inserts, pops
\* and clears interleave on the slots.
THEOREM EntriesKept == Spec => []EveryEntryOnce
<1>1. Init => PlaceInv
  BY MapAssumption DEF Init, PlaceInv, OnePlace, SlotsOf, Occupied, Inserters, Poppers, Inserting, EMPTY
<1>2. SlotInv /\ PlaceInv /\ [Next]_vars => PlaceInv'
  <2>1. PlaceInv /\ UNCHANGED vars => PlaceInv'
    BY DEF PlaceInv, OnePlace, SlotsOf, Occupied, Inserters, Poppers, vars
  <2> QED BY <2>1, PlaceInvNext
<1>3. PlaceInv => EveryEntryOnce
  <2> SUFFICES ASSUME PlaceInv, NEW k \in Keys \ Shared
               PROVE  Cardinality(SlotsOf(k)) + Cardinality(Inserters(k)) + Cardinality(Poppers(k))
                      + (IF k \in out THEN 1 ELSE 0) = 1
    BY DEF EveryEntryOnce
  <2>1. Cardinality({}) = 0
    BY FS_EmptySet
  <2>2. CASE SlotsOf(k) = {} /\ Inserters(k) = {} /\ Poppers(k) = {} /\ k \in out
    BY <2>1, <2>2
  <2>3. CASE /\ \E i \in Slots : SlotsOf(k) = {i}
             /\ Inserters(k) = {} /\ Poppers(k) = {} /\ k \notin out
    <3>1. Cardinality(SlotsOf(k)) = 1
      BY <2>3, FS_Singleton
    <3> QED BY <2>1, <2>3, <3>1
  <2>4. CASE /\ \E p \in Procs : Inserters(k) = {p}
             /\ SlotsOf(k) = {} /\ Poppers(k) = {} /\ k \notin out
    <3>1. Cardinality(Inserters(k)) = 1
      BY <2>4, FS_Singleton
    <3> QED BY <2>1, <2>4, <3>1
  <2>5. CASE /\ \E p \in Procs : Poppers(k) = {p}
             /\ SlotsOf(k) = {} /\ Inserters(k) = {} /\ k \notin out
    <3>1. Cardinality(Poppers(k)) = 1
      BY <2>5, FS_Singleton
    <3> QED BY <2>1, <2>5, <3>1
  <2> QED BY <2>2, <2>3, <2>4, <2>5 DEF PlaceInv, OnePlace
<1> QED BY <1>1, <1>2, <1>3, SlotsConsistent, PTL DEF Spec

-----------------------------------------------------------------------------
(* The counter                                                             *)

Occ == {i \in Slots : word[i].st \in {"VALID", "DELETING"}}
At(l) == {p \in Procs : pc[p] = l}

\* A caller comes to a step, or leaves it, or does neither.
LEMMA AtChanges ==
  ASSUME IsFiniteSet(Procs), NEW p \in Procs, Mine(p), NEW l
  PROVE  /\ Cardinality(At(l)) \in Int
         /\ Cardinality(At(l))' = Cardinality(At(l))
                                  + (IF pc'[p] = l THEN 1 ELSE 0) - (IF pc[p] = l THEN 1 ELSE 0)
<1>1. IsFiniteSet(At(l)) /\ IsFiniteSet(At(l)')
  BY FS_Subset DEF At
<1>2. \A q \in Procs \ {p} : q \in At(l)' <=> q \in At(l)
  BY DEF Mine, At
<1>3. (p \in At(l)' <=> pc'[p] = l) /\ (p \in At(l) <=> pc[p] = l)
  BY DEF At
<1>4. Cardinality(At(l)) \in Nat
  BY <1>1, FS_CardinalityType
<1>5. CASE pc'[p] = l /\ pc[p] # l
  <2>1. At(l)' = At(l) \cup {p} /\ p \notin At(l)
    BY <1>2, <1>3, <1>5 DEF At
  <2> QED BY <1>1, <1>4, <1>5, <2>1, FS_AddElement
<1>6. CASE pc'[p] # l /\ pc[p] = l
  <2>1. At(l)' = At(l) \ {p} /\ p \in At(l)
    BY <1>2, <1>3, <1>6 DEF At
  <2> QED BY <1>1, <1>4, <1>6, <2>1, FS_RemoveElement
<1>7. CASE pc'[p] = l <=> pc[p] = l
  <2>1. At(l)' = At(l)
    BY <1>2, <1>3, <1>7 DEF At
  <2> QED BY <1>4, <1>7, <2>1
<1> QED BY <1>5, <1>6, <1>7

LEMMA SlotsFinite == IsFiniteSet(Slots) /\ IsFiniteSet(Occ) /\ Cardinality(Occ) \in Nat
<1>1. IsFiniteSet(0..CAPACITY-1)
  BY MapAssumption, FS_Interval
<1> QED BY <1>1, FS_Subset, FS_CardinalityType DEF Slots, Occ

LEMMA LenNext ==
  ASSUME IsFiniteSet(Procs), SlotInv, LenAccounts, Next
  PROVE  LenAccounts'
<1> USE DEF SlotInv
<1>1. PICK p \in Procs : /\ Mine(p) /\ Effect(p)
                         /\ \/ Plain(p) \/ Insert(p) \/ Update(p) \/ Write(p) \/ Count(p) \/ Take(p)
                            \/ Discount(p) \/ Uncount(p)
                            \/ PlaceFails(p) /\ Leave(p)
  BY StepKinds
<1>2. /\ len \in Int /\ Cardinality(Occ) \in Nat
      /\ len = Cardinality(Occ) - Cardinality(At("count")) + Cardinality(At("discount"))
  BY SlotsFinite DEF LenAccounts, Occupied, Occ, At, TypeOK
<1>3. SUFFICES len' = Cardinality(Occ)' - Cardinality(At("count"))' + Cardinality(At("discount"))'
  BY DEF LenAccounts, Occupied, Occ, At
<1>4. /\ Cardinality(At("count")) \in Int /\ Cardinality(At("discount")) \in Int
      /\ Cardinality(At("count"))' = Cardinality(At("count"))
           + (IF pc'[p] = "count" THEN 1 ELSE 0) - (IF pc[p] = "count" THEN 1 ELSE 0)
      /\ Cardinality(At("discount"))' = Cardinality(At("discount"))
           + (IF pc'[p] = "discount" THEN 1 ELSE 0) - (IF pc[p] = "discount" THEN 1 ELSE 0)
  BY <1>1, AtChanges
<1>5. ASSUME pc[p] \notin {"update", "write", "take"} PROVE Occ' = Occ
  BY <1>1, <1>5, SlotsSame DEF Occ, Occupied
<1>6. CASE Plain(p)
  BY <1>2, <1>4, <1>5, <1>6, PlainDoes
<1>7. CASE Insert(p)
  <2>1. pc[p] = "idle" /\ pc'[p] = "look" /\ len' = len
    BY <1>7 DEF Insert, Call, Goto, TypeOK
  <2> QED BY <1>2, <1>4, <1>5, <2>1
<1>8. CASE Update(p)
  <2>1. /\ pc[p] = "update" /\ pc'[p] = "idle" /\ len' = len /\ Fill(p) /\ at[p] \in Slots
        /\ key[p] \in Keys /\ Holds(p, at[p])
    BY <1>8, LeaveDoes DEF Update, TypeOK, LocalInv, LocalOK, Inserting, Holds
  <2>2. word[at[p]].st = "DELETING"
    BY <2>1 DEF HolderInv
  <2>3. word'[at[p]].st = "VALID" /\ \A i \in Slots \ {at[p]} : word'[i] = word[i]
    <3>1. Becomes(at[p], VALID(ver[p]))
      BY <2>1, FillDoes
    <3> QED BY <2>1, <3>1 DEF Becomes, VALID
  <2>4. Occ' = Occ
    BY <2>2, <2>3 DEF Occ
  <2> QED BY <1>2, <1>4, <2>1, <2>4
<1>9. CASE Write(p)
  <2>1. /\ pc[p] = "write" /\ pc'[p] = "count" /\ len' = len /\ Fill(p) /\ at[p] \in Slots
        /\ key[p] \in Keys /\ Holds(p, at[p])
    BY <1>9 DEF Write, Goto, TypeOK, LocalInv, LocalOK, Inserting, Holds
  <2>2. word[at[p]].st = "WRITING"
    <3>1. word[at[p]] = [st |-> "WRITING", ver |-> ver[p]]
      BY <2>1 DEF HolderInv
    <3> QED BY <3>1
  <2>3. word'[at[p]].st = "VALID" /\ \A i \in Slots \ {at[p]} : word'[i] = word[i]
    <3>1. Becomes(at[p], VALID(ver[p]))
      BY <2>1, FillDoes
    <3> QED BY <2>1, <3>1 DEF Becomes, VALID
  <2>4. Occ' = Occ \cup {at[p]} /\ at[p] \notin Occ
    BY <2>1, <2>2, <2>3 DEF Occ
  <2>5. Cardinality(Occ)' = Cardinality(Occ) + 1
    BY <2>4, SlotsFinite, FS_AddElement
  <2> QED BY <1>2, <1>4, <2>1, <2>5
<1>10. CASE Count(p)
  <2>1. pc[p] = "count" /\ pc'[p] = "idle" /\ len' = len + 1
    BY <1>10, LeaveDoes DEF Count
  <2> QED BY <1>2, <1>4, <1>5, <2>1
<1>11. CASE Take(p)
  <2>1. /\ pc[p] = "take" /\ pc'[p] = "discount" /\ len' = len
        /\ word' = [word EXCEPT ![cand[p].at] = EMPTY] /\ cand[p].at \in Slots /\ Holds(p, cand[p].at)
    BY <1>11, CandidateKey DEF Take, Goto, TypeOK, LocalInv, LocalOK, Holds
  <2>2. word[cand[p].at].st = "DELETING"
    BY <2>1 DEF HolderInv
  <2>3. \A i \in Slots : word'[i] = IF i = cand[p].at THEN EMPTY ELSE word[i]
    BY <2>1 DEF TypeOK
  <2>4. Occ' = Occ \ {cand[p].at} /\ cand[p].at \in Occ
    BY <2>1, <2>2, <2>3 DEF Occ, EMPTY
  <2>5. Cardinality(Occ)' = Cardinality(Occ) - 1
    BY <2>4, SlotsFinite, FS_RemoveElement
  <2> QED BY <1>2, <1>4, <2>1, <2>5
<1>12. CASE Discount(p) \/ Uncount(p)
  <2>1. pc[p] = "discount" /\ pc'[p] \in {"idle", "visit"} /\ len' = len - 1
    BY <1>12, LeaveDoes, ResumeDoes DEF Discount, Uncount
  <2> QED BY <1>2, <1>4, <1>5, <2>1
<1>13. CASE PlaceFails(p) /\ Leave(p)
  <2>1. pc[p] = "place" /\ pc'[p] = "idle" /\ len' = len
    BY <1>13, LeaveDoes DEF PlaceFails
  <2> QED BY <1>2, <1>4, <1>5, <2>1
<1> QED BY <1>1, <1>6, <1>7, <1>8, <1>9, <1>10, <1>11, <1>12, <1>13

\* len() differs from the number of occupied slots by exactly the inserts and pops that have moved
\* their entry and not yet counted it, when there are finitely many callers.
THEOREM LenExact == IsFiniteSet(Procs) => (Spec => []LenAccounts)
<1> SUFFICES ASSUME IsFiniteSet(Procs) PROVE Spec => []LenAccounts
  OBVIOUS
<1>1. Init => LenAccounts
  <2> SUFFICES ASSUME Init PROVE LenAccounts
    OBVIOUS
  <2>1. Occ = {} /\ At("count") = {} /\ At("discount") = {} /\ len = 0
    BY DEF Init, Occ, At, EMPTY
  <2>2. Cardinality(Occ) = 0 /\ Cardinality(At("count")) = 0 /\ Cardinality(At("discount")) = 0
    BY <2>1, FS_EmptySet
  <2>3. len = Cardinality(Occ) - Cardinality(At("count")) + Cardinality(At("discount"))
    BY <2>1, <2>2
  <2> QED BY <2>3 DEF LenAccounts, Occupied, Occ, At
<1>2. SlotInv /\ LenAccounts /\ [Next]_vars => LenAccounts'
  <2>1. LenAccounts /\ UNCHANGED vars => LenAccounts'
    BY DEF LenAccounts, Occupied, vars
  <2> QED BY <2>1, LenNext
<1> QED BY <1>1, <1>2, SlotsConsistent, PTL DEF Spec

-----------------------------------------------------------------------------
(* What a scan sees                                                        *)

\* Step(p) is a step of p with all that it remembers.
Step(p) == (InsertStep(p) \/ PopStep(p) \/ FirstStep(p) \/ ClearStep(p)) /\ Remember

LEMMA StepEffect ==
  ASSUME SlotInv, NEW p \in Procs, Step(p)
  PROVE  Mine(p) /\ Effect(p) /\ TypeOK' /\ LocalInv'
<1>1. CASE InsertStep(p)
  BY <1>1, InsertDoes, LookDoes, ReadDoes, LockDoes, UpdateDoes, UnlockDoes, PlaceDoes,
     PlaceFailsDoes, WriteDoes, CountDoes DEF InsertStep, Step
<1>2. CASE PopStep(p) \/ FirstStep(p) \/ ClearStep(p)
  BY <1>2, PopDoes, ScanDoes, ConfirmDoes, ChooseDoes, RestoreDoes, TakeDoes, DiscountDoes,
     ReportDoes, VisitDoes, SeizeDoes, PutBackDoes, UncountDoes DEF PopStep, FirstStep, ClearStep, Step
<1> QED BY <1>1, <1>2 DEF Step

LEMMA Remembers ==
  ASSUME Remember, NEW r \in Procs
  PROVE  /\ Starts(r) => stood'[r] = Versions' /\ beaten'[r] = FALSE
         /\ ~Starts(r) => stood'[r] \subseteq stood[r] \cap Versions'
         /\ op'[r] = "pop_first" /\ ~Starts(r)
              => (beaten'[r] <=> beaten[r] \/ \E q \in Procs \ {r} : LockedBy(q))
         /\ stood'[r] \subseteq Versions'
<1>1. stood'[r] = IF Starts(r) THEN Versions'
                  ELSE IF pc'[r] \in Scanning \cup Looking THEN stood[r] \cap Versions' ELSE {}
  BY DEF Remember
<1>2. beaten'[r] = IF Starts(r) \/ op'[r] # "pop_first" THEN FALSE
                   ELSE beaten[r] \/ \E q \in Procs \ {r} : LockedBy(q)
  BY DEF Remember
<1> QED BY <1>1, <1>2

\* An entry that stands in a scan of r after a step stood before, in the same slot: a version that
\* was valid before the step is not the one that the step makes valid.
LEMMA Stable ==
  ASSUME SlotInv, NEW p \in Procs, Effect(p), NEW r \in Procs, stood[r] \subseteq Versions,
         stood'[r] \subseteq stood[r], NEW i \in Slots, Stands(r, i)'
  PROVE  Stands(r, i) /\ word'[i] = word[i] /\ entry'[i] = entry[i]
<1> USE DEF SlotInv
<1>1. word'[i].st = "VALID" /\ word'[i].ver \in stood[r]
  BY DEF Stands, ValidNow
<1>2. PICK j \in Slots : ValidNow(j) /\ word[j].ver = word'[i].ver
  BY <1>1 DEF Versions
<1>3. word'[i] = word[i] /\ entry'[i] = entry[i]
  <2>1. CASE Quiet(p) \/ Beginning(p)
    BY <2>1 DEF Quiet, Beginning, Same
  <2>2. CASE Filling(p)
    <3>1. p \in Pending
      BY <2>2 DEF Filling, Pending, Inserting
    <3>2. i # at[p]
      BY <1>2, <2>2, <3>1, PendingIsNew DEF Filling, Becomes, VALID
    <3> QED BY <2>2, <3>2 DEF Filling, Becomes
  <2>3. CASE Placing(p) \/ Taking(p)
    BY <1>1, <2>3 DEF Placing, Taking, Becomes, Same, EMPTY
  <2>4. ASSUME NEW s \in Slots, Locking(p, s)
        PROVE  word'[i] = word[i] /\ entry'[i] = entry[i]
    BY <1>1, <2>4 DEF Locking, Becomes, Same
  <2>5. ASSUME NEW s \in Slots, Releasing(p, s)
        PROVE  word'[i] = word[i] /\ entry'[i] = entry[i]
    <3>1. i # s
      <4> SUFFICES ASSUME i = s PROVE FALSE
        OBVIOUS
      <4>1. word[s].st \in {"WRITING", "DELETING"}
        BY <2>5, HeldIsLocked DEF Releasing
      <4>2. word'[i].ver = word[s].ver
        BY <2>5 DEF Releasing, Becomes, VALID
      <4>3. word[j] # EMPTY
        BY <1>2 DEF ValidNow, EMPTY
      <4>4. j = s
        BY <1>2, <4>2, <4>3 DEF VersionInv
      <4> QED BY <1>2, <4>1, <4>4 DEF ValidNow
    <3> QED BY <2>5, <3>1 DEF Releasing, Becomes, Same
  <2> QED BY <2>1, <2>2, <2>3, <2>4, <2>5 DEF Effect
<1> QED BY <1>1, <1>3 DEF Stands, ValidNow

\* The scans of the others are as they were.
LEMMA OthersScan ==
  ASSUME SlotInv, ScanInv, NEW p \in Procs, Step(p), NEW r \in Procs \ {p}
  PROVE  ScanOK(r)'
<1>1. /\ Mine(p) /\ Effect(p)
      /\ pc'[r] = pc[r] /\ at'[r] = at[r] /\ cand'[r] = cand[r] /\ key'[r] = key[r]
      /\ old'[r] = old[r] /\ round'[r] = round[r] /\ at[r] \in Slots
  BY StepEffect DEF Mine, SlotInv, TypeOK
<1>2. ~Starts(r)
  BY <1>1 DEF Starts, Scanning, Looking
<1>3. stood'[r] \subseteq stood[r] /\ stood'[r] \subseteq Versions' /\ stood[r] \subseteq Versions
  BY <1>2, Remembers DEF Step, ScanInv, ScanOK
<1>4. \A i \in Slots : Stands(r, i)' => Stands(r, i) /\ word'[i] = word[i] /\ entry'[i] = entry[i]
  BY <1>1, <1>3, Stable
<1>5. Passed(r)' = Passed(r) /\ Passed(r) \subseteq Slots
  BY <1>1, MapAssumption DEF Passed, Slots
<1>6. ASSUME pc'[r] \in Scanning, NEW i \in Passed(r)', Stands(r, i)'
      PROVE  cand'[r] # None /\ ~Less(entry'[i], cand'[r])
  BY <1>1, <1>4, <1>5, <1>6 DEF ScanInv, ScanOK
<1>7. ASSUME pc'[r] \in Looking, NEW i \in Passed(r)', Stands(r, i)'
      PROVE  entry'[i].key # key'[r]
  BY <1>1, <1>4, <1>5, <1>7 DEF ScanInv, ScanOK
<1>8. ASSUME pc'[r] \in {"confirm", "read", "lock"}, Stands(r, at[r])'
      PROVE  word'[at'[r]].ver = old'[r]
  <2>1. Stands(r, at[r])
    <3>1. \A i \in Slots : i = at'[r] => Stands(r, i)'
      BY <1>8 DEF Stands, ValidNow
    <3> QED BY <1>1, <1>4, <3>1
  <2>2. word'[at[r]] = word[at[r]]
    <3>1. \A i \in Slots : i = at'[r] => Stands(r, i)'
      BY <1>8 DEF Stands, ValidNow
    <3> QED BY <1>1, <1>4, <3>1
  <2> QED BY <1>1, <1>8, <2>1, <2>2 DEF ScanInv, ScanOK
<1> QED BY <1>3, <1>6, <1>7, <1>8 DEF ScanOK, Less

\* A scan that goes on is where one of five steps has brought it, and otherwise it has just begun.
LEMMA ScanMoves ==
  ASSUME SlotInv, NEW p \in Procs, Step(p), pc'[p] \in Scanning \cup Looking
  PROVE  \/ ~Starts(p) /\ (Look(p) \/ Read(p) \/ Lock(p) \/ Scan(p) \/ Confirm(p))
         \/ Starts(p) /\ at'[p] = 0 /\ pc'[p] \in {"scan", "look"}
            /\ (op'[p] = "pop_first" => cand'[p] = None)
<1> USE DEF SlotInv
<1>1. CASE Look(p) \/ Read(p) \/ Lock(p) \/ Scan(p) \/ Confirm(p)
  <2>1. round'[p] = round[p]
    BY <1>1 DEF Look, Read, Lock, Scan, Confirm
  <2>2. CASE Look(p) \/ Read(p) \/ Lock(p)
    <3>1. pc[p] \in Looking
      BY <2>2 DEF Look, Read, Lock, Looking
    <3>2. pc'[p] \in {"look", "read", "lock", "place", "update", "unlock"}
      BY <2>2, Goes DEF Look, Read, Lock
    <3> QED BY <1>1, <3>1, <3>2 DEF Starts
  <2>3. CASE Scan(p) \/ Confirm(p)
    <3>1. pc[p] \in Scanning
      BY <2>3 DEF Scan, Confirm, Scanning
    <3>2. pc'[p] \in {"scan", "confirm", "choose"}
      BY <2>3, NextSlotDoes DEF Scan, Confirm, Goto, TypeOK, Labels
    <3> QED BY <1>1, <2>1, <3>1, <3>2 DEF Starts
  <2> QED BY <1>1, <2>2, <2>3
<1>2. CASE Insert(p)
  <2>1. pc[p] = "idle" /\ pc'[p] = "look" /\ at' = at /\ op'[p] = "insert"
    BY <1>2 DEF Insert, Call, Goto, TypeOK
  <2>2. at[p] = 0
    BY <2>1 DEF LocalInv, LocalOK
  <2> QED BY <2>1, <2>2 DEF Starts, Looking
<1>3. CASE PlaceFails(p)
  <2>1. pc[p] = "place" /\ pc'[p] = "look" /\ at'[p] = 0
    BY <1>3, NextSlotDoes, LeaveDoes DEF PlaceFails, Labels, Scanning, Looking
  <2>2. op'[p] # "pop_first"
    BY <2>1, StepEffect, WhichCall, Steps DEF LocalInv, LocalOK, Inserting
  <2> QED BY <2>1, <2>2 DEF Starts, Looking
<1>4. CASE Pop(p) \/ FirstKeyValue(p) \/ Clear(p)
  <2>1. pc[p] = "idle" /\ pc'[p] = "scan" /\ at' = at /\ cand' = cand
    BY <1>4 DEF Pop, FirstKeyValue, Clear, Call, Goto, TypeOK, Scanning, Looking
  <2>2. at[p] = 0 /\ cand[p] = None
    BY <2>1, WhichCall DEF LocalInv, LocalOK
  <2> QED BY <2>1, <2>2 DEF Starts, Scanning
<1>5. CASE Choose(p) \/ Restore(p)
  <2>1. op[p] = "pop_first" /\ pc[p] \in {"choose", "restore"}
    BY <1>5 DEF Choose, Restore
  <2>2. at[p] = 0
    BY <2>1 DEF LocalInv, LocalOK
  <2>3. NextRound(p)
    BY <1>5, LeaveDoes DEF Choose, Restore, Goto, TypeOK, Scanning, Looking
  <2>4. ~Leave(p)
    BY LeaveDoes DEF Scanning, Looking
  <2>5. pc'[p] = "scan" /\ at' = at /\ round'[p] = round[p] + 1 /\ cand'[p] = None
    BY <2>3, <2>4 DEF NextRound, Goto, TypeOK
  <2>6. round'[p] # round[p]
    BY <2>5 DEF TypeOK
  <2> QED BY <2>2, <2>5, <2>6 DEF Starts
<1>6. CASE Update(p) \/ Count(p) \/ Report(p)
  <2>1. pc'[p] = "idle"
    BY <1>6, LeaveDoes DEF Update, Count, Report
  <2> QED BY <2>1 DEF Scanning, Looking
<1>7. CASE Unlock(p) \/ Place(p) \/ Write(p) \/ Take(p)
  <2>1. pc'[p] \in {"place", "write", "count", "discount"}
    BY <1>7 DEF Unlock, Place, Write, Take, Goto, TypeOK
  <2> QED BY <2>1 DEF Scanning, Looking
<1>8. CASE Discount(p) \/ Uncount(p) \/ PutBack(p)
  <2>1. pc'[p] \in {"idle", "visit"}
    BY <1>8, LeaveDoes, ResumeDoes DEF Discount, Uncount, PutBack
  <2> QED BY <2>1 DEF Scanning, Looking
<1>9. CASE Visit(p) \/ Seize(p)
  <2>1. op[p] = "clear"
    BY <1>9, WhichCall DEF Visit, Seize
  <2>2. pc'[p] \in {"idle", "visit", "seize", "take", "restore"}
    BY <1>9, <2>1, ResumeDoes DEF Visit, Seize, Goto, TypeOK
  <2> QED BY <2>2 DEF Scanning, Looking
<1> QED BY <1>1, <1>2, <1>3, <1>4, <1>5, <1>6, <1>7, <1>8, <1>9 DEF Step, InsertStep, PopStep,
       FirstStep, ClearStep

\* A slot that phase 1 of insert passes has no entry with the key that stood all the while.
LEMMA LookPasses ==
  ASSUME SlotInv, NEW p \in Procs, ScanOK(p), Look(p) \/ Read(p) \/ Lock(p),
         pc'[p] \in {"look", "place"}
  PROVE  ~(Stands(p, at[p]) /\ entry[at[p]].key = key[p])
<1> SUFFICES ASSUME Stands(p, at[p]), entry[at[p]].key = key[p] PROVE FALSE
  OBVIOUS
<1> USE DEF SlotInv
<1>1. at[p] \in Slots /\ ValidNow(at[p]) /\ word[at[p]] = VALID(word[at[p]].ver)
  BY InUse DEF TypeOK, Stands
<1>2. entry[at[p]] = [key |-> entry[at[p]].key, ver |-> entry[at[p]].ver]
      /\ entry[at[p]].ver = word[at[p]].ver
  BY <1>1 DEF EntryInv, Occupied, ValidNow, TypeOK
<1>3. pc[p] \in {"read", "lock"} => word[at[p]].ver = old[p]
  BY DEF ScanOK
<1>4. CASE Look(p)
  BY <1>1, <1>4 DEF Look, Goto, TypeOK
<1>5. CASE Read(p)
  <2>1. pc[p] = "read" /\ (~Matches(p) \/ Torn(at[p]))
    BY <1>5 DEF Read, Goto, TypeOK
  <2>2. Matches(p)
    BY <1>2, <1>3, <2>1 DEF Matches
  <2>3. PICK q \in Procs : pc[q] \in {"update", "write"} /\ at[q] = at[p]
    BY <2>1, <2>2 DEF Torn
  <2>4. Holds(q, at[p])
    BY <2>3 DEF Holds
  <2> QED BY <1>1, <2>4, HeldIsLocked DEF ValidNow
<1>6. CASE Lock(p)
  <2>1. pc[p] = "lock" /\ LockFails(at[p], old[p])
    BY <1>6 DEF Lock, Goto, TypeOK
  <2> QED BY <1>1, <1>3, <2>1 DEF LockFails
<1> QED BY <1>4, <1>5, <1>6

\* What the five steps do to the scan's place, and to what it holds.
LEMMA ScanAdvances ==
  ASSUME SlotInv, NEW p \in Procs, Look(p) \/ Read(p) \/ Lock(p) \/ Scan(p) \/ Confirm(p),
         pc'[p] \in Scanning \cup Looking
  PROVE  /\ word' = word /\ entry' = entry /\ key'[p] = key[p]
         /\ \/ /\ (pc[p] = "look" /\ pc'[p] = "read") \/ (pc[p] = "scan" /\ pc'[p] = "confirm")
               /\ at'[p] = at[p] /\ cand'[p] = cand[p] /\ old'[p] = word[at[p]].ver
            \/ /\ pc[p] = "read" /\ pc'[p] = "lock"
               /\ at'[p] = at[p] /\ cand'[p] = cand[p] /\ old'[p] = old[p]
            \/ /\ pc[p] \in Looking /\ pc'[p] = "look" /\ at'[p] = at[p] + 1
               /\ Look(p) \/ Read(p) \/ Lock(p)
            \/ /\ pc[p] \in {"scan", "confirm"}
               /\ \/ pc'[p] = "scan" /\ at'[p] = at[p] + 1
                  \/ pc'[p] = "choose" /\ at[p] = CAPACITY - 1
               /\ Confirm(p) \/ (~ValidNow(at[p]) /\ cand'[p] = cand[p])
<1> USE DEF SlotInv, Scanning, Looking
<1>1. CASE Look(p) \/ Read(p)
  <2>1. /\ word' = word /\ entry' = entry /\ key' = key /\ cand' = cand
        /\ pc[p] = "look" \/ (pc[p] = "read" /\ old' = old)
    BY <1>1 DEF Look, Read, shared
  <2>2. CASE Look(p) /\ ValidNow(at[p])
    BY <2>1, <2>2 DEF Look, Goto, TypeOK
  <2>3. CASE NextSlot(p, "look", "place")
    BY <1>1, <2>1, <2>3, NextSlotDoes DEF Labels
  <2>4. CASE Read(p) /\ Goto(p, "lock") /\ UNCHANGED at
    BY <2>1, <2>4, Goes DEF Read
  <2> QED BY <1>1, <2>2, <2>3, <2>4 DEF Look, Read
<1>2. CASE Lock(p)
  <2>1. pc[p] = "lock" /\ entry' = entry /\ key' = key /\ cand' = cand
    BY <1>2 DEF Lock
  <2>2. LockFails(at[p], old[p]) /\ NextSlot(p, "look", "place")
    <3>1. \A l : l \in {"update", "unlock"} => ~Goto(p, l)
      BY Goes
    <3> QED BY <1>2, <3>1 DEF Lock
  <2> QED BY <1>2, <2>1, <2>2, NextSlotDoes DEF LockFails, Labels
<1>3. CASE Scan(p)
  <2>1. /\ pc[p] = "scan" /\ word' = word /\ entry' = entry /\ key' = key /\ cand' = cand
    BY <1>3 DEF Scan, shared
  <2>2. CASE ValidNow(at[p])
    <3>1. Goto(p, "confirm") /\ at' = at /\ old' = [old EXCEPT ![p] = word[at[p]].ver]
      BY <1>3, <2>2 DEF Scan
    <3>2. old'[p] = word[at[p]].ver
      BY <3>1 DEF TypeOK
    <3> QED BY <2>1, <3>1, <3>2, Goes
  <2>3. CASE ~ValidNow(at[p])
    <3>1. NextSlot(p, "scan", "choose")
      BY <1>3, <2>3 DEF Scan
    <3> QED BY <2>1, <2>3, <3>1, NextSlotDoes DEF Labels
  <2> QED BY <2>2, <2>3
<1>4. CASE Confirm(p)
  BY <1>4, NextSlotDoes DEF Confirm, shared, Labels
<1> QED BY <1>1, <1>2, <1>3, <1>4

LEMMA LessOrder ==
  ASSUME NEW a, NEW b, NEW c, a.key \in Nat, b.key \in Nat, c.key \in Nat,
         a.ver \in Nat, b.ver \in Nat, c.ver \in Nat
  PROVE  /\ ~Less(a, b) /\ Less(c, b) => ~Less(a, c)
         /\ a.key = c.key /\ a.ver = c.ver => ~Less(a, c) /\ (~Less(c, b) => ~Less(a, b))
BY DEF Less

\* The candidate after a slot has been read comes first among all the scan has passed, it included.
LEMMA ConfirmHolds ==
  ASSUME SlotInv, NEW p \in Procs, ScanOK(p), Confirm(p), NEW i \in Slots,
         i \in Passed(p) \/ i = at[p], Stands(p, i)
  PROVE  cand'[p] # None /\ ~Less(entry[i], cand'[p])
<1> USE DEF SlotInv
<1> DEFINE c == [key |-> entry[at[p]].key, ver |-> old[p], at |-> at[p]]
<1>1. pc[p] = "confirm" /\ at[p] \in Slots /\ old[p] \in Nat
  BY DEF Confirm, TypeOK
<1>2. /\ entry[i].key \in Nat /\ entry[i].ver \in Nat
      /\ ValidNow(i) /\ entry[i].ver = word[i].ver /\ word[i] = VALID(word[i].ver)
  BY InUse, MapAssumption DEF EntryInv, Stands, ValidNow, Occupied, TypeOK
<1>3. cand[p] # None => cand[p].key \in Nat /\ cand[p].ver \in Nat
  BY CandidateKey, MapAssumption
<1>4. i \in Passed(p) => cand[p] # None /\ ~Less(entry[i], cand[p])
  BY <1>1 DEF ScanOK, Scanning
<1>5. CASE word[at[p]] = VALID(old[p])
  <2>1. ValidNow(at[p])
    BY <1>5 DEF ValidNow, VALID
  <2>2. c \in Candidates
    BY <1>1, <2>1 DEF EntryInv, Occupied, ValidNow, TypeOK, Candidates
  <2>3. c # None /\ c.key \in Nat /\ c.ver \in Nat /\ c.key = entry[at[p]].key /\ c.ver = old[p]
    BY <2>2, MapAssumption DEF Candidates
  <2>4. cand'[p] = Smallest(cand[p], c)
    BY <1>5 DEF Confirm, TypeOK
  <2> HIDE DEF c
  <2>5. i = at[p] => entry[i].key = c.key /\ entry[i].ver = c.ver
    BY <1>2, <1>5, <2>3 DEF VALID
  <2>6. CASE cand[p] = None
    <3>1. cand'[p] = c /\ i = at[p]
      BY <1>4, <2>4, <2>6 DEF Smallest
    <3> QED BY <1>2, <2>3, <2>5, <3>1, LessOrder
  <2>7. CASE cand[p] # None /\ Less(c, cand[p])
    <3>1. cand'[p] = c
      BY <2>4, <2>7 DEF Smallest
    <3>2. ~Less(entry[i], c)
      BY <1>2, <1>3, <1>4, <2>3, <2>5, <2>7, LessOrder
    <3> QED BY <2>3, <3>1, <3>2
  <2>8. CASE cand[p] # None /\ ~Less(c, cand[p])
    <3>1. cand'[p] = cand[p]
      BY <2>4, <2>8 DEF Smallest
    <3>2. ~Less(entry[i], cand[p])
      BY <1>2, <1>3, <1>4, <2>3, <2>5, <2>8, LessOrder
    <3> QED BY <2>8, <3>1, <3>2
  <2> QED BY <2>6, <2>7, <2>8
<1>6. CASE word[at[p]] # VALID(old[p])
  <2>1. cand' = cand
    BY <1>6 DEF Confirm
  <2>2. i # at[p]
    BY <1>1, <1>2, <1>6 DEF ScanOK
  <2> QED BY <1>4, <2>1, <2>2
<1> QED BY <1>5, <1>6

LEMMA OwnScan ==
  ASSUME SlotInv, NEW p \in Procs, ScanOK(p), Step(p)
  PROVE  ScanOK(p)'
<1> USE DEF SlotInv
<1>1. stood'[p] \subseteq Versions'
  BY Remembers DEF Step
<1>2. CASE pc'[p] \notin Scanning \cup Looking
  BY <1>1, <1>2 DEF ScanOK, Scanning, Looking
<1>3. CASE Starts(p) /\ at'[p] = 0 /\ pc'[p] \in {"scan", "look"}
  <2>1. Passed(p)' = {}
    BY <1>3 DEF Passed
  <2> QED BY <1>1, <1>3, <2>1 DEF ScanOK
<1>4. CASE /\ ~Starts(p) /\ pc'[p] \in Scanning \cup Looking
           /\ Look(p) \/ Read(p) \/ Lock(p) \/ Scan(p) \/ Confirm(p)
  <2>1. /\ word' = word /\ entry' = entry /\ key'[p] = key[p]
        /\ at[p] \in Slots /\ at[p] \in Int /\ CAPACITY \in Nat
    <3>1. word' = word /\ entry' = entry /\ key'[p] = key[p]
      BY <1>4, ScanAdvances
    <3>2. at[p] \in Slots
      BY DEF TypeOK
    <3> QED BY <3>1, <3>2, MapAssumption DEF Slots
  <2>2. \A i \in Slots : Stands(p, i)' => Stands(p, i)
    BY <1>4, <2>1, Remembers DEF Stands, ValidNow, Step
  <2>3. \A i \in Slots : i <= at[p] - 1 => i \in 0..at[p] - 1
    BY <2>1 DEF Slots
  <2>4. CASE /\ (pc[p] = "look" /\ pc'[p] = "read") \/ (pc[p] = "scan" /\ pc'[p] = "confirm")
             /\ at'[p] = at[p] /\ cand'[p] = cand[p] /\ old'[p] = word[at[p]].ver
    <3>1. Passed(p)' = Passed(p) /\ Passed(p) \subseteq Slots
      BY <2>1, <2>4 DEF Passed, Slots
    <3> QED BY <1>1, <2>1, <2>2, <2>4, <3>1 DEF ScanOK, Scanning, Looking, Less
  <2>5. CASE /\ pc[p] = "read" /\ pc'[p] = "lock"
             /\ at'[p] = at[p] /\ cand'[p] = cand[p] /\ old'[p] = old[p]
    <3>1. Passed(p)' = Passed(p) /\ Passed(p) \subseteq Slots
      BY <2>1, <2>5 DEF Passed, Slots
    <3>2. Stands(p, at[p])' => Stands(p, at[p])
      BY <1>4, <2>1, <2>5, Remembers DEF Stands, ValidNow, Step
    <3> QED BY <1>1, <2>1, <2>2, <2>5, <3>1, <3>2 DEF ScanOK, Scanning, Looking, Less
  <2>6. CASE /\ pc[p] \in Looking /\ pc'[p] = "look" /\ at'[p] = at[p] + 1
             /\ Look(p) \/ Read(p) \/ Lock(p)
    <3>1. ~(Stands(p, at[p]) /\ entry[at[p]].key = key[p])
      BY <2>6, LookPasses
    <3>2. \A i \in Passed(p)' : i \in Slots /\ (i \in Passed(p) \/ i = at[p])
      BY <2>1, <2>6 DEF Passed, Slots, Looking
    <3> QED BY <1>1, <2>1, <2>2, <2>6, <3>1, <3>2 DEF ScanOK, Scanning, Looking
  <2>7. CASE /\ pc[p] \in {"scan", "confirm"}
             /\ \/ pc'[p] = "scan" /\ at'[p] = at[p] + 1
                \/ pc'[p] = "choose" /\ at[p] = CAPACITY - 1
             /\ Confirm(p) \/ (~ValidNow(at[p]) /\ cand'[p] = cand[p])
    <3>1. \A i \in Passed(p)' : i \in Slots /\ (i \in Passed(p) \/ i = at[p])
      BY <2>1, <2>7 DEF Passed, Slots
    <3>2. ASSUME NEW i \in Passed(p)', Stands(p, i)'
          PROVE  cand'[p] # None /\ ~Less(entry[i], cand'[p])
      <4>1. i \in Slots /\ Stands(p, i) /\ (i \in Passed(p) \/ i = at[p])
        BY <2>2, <3>1, <3>2
      <4>2. CASE Confirm(p)
        BY <4>1, <4>2, ConfirmHolds
      <4>3. CASE ~ValidNow(at[p]) /\ cand'[p] = cand[p]
        BY <2>7, <4>1, <4>3 DEF ScanOK, Stands, Scanning
      <4> QED BY <2>7, <4>2, <4>3
    <3> QED BY <1>1, <2>1, <2>7, <3>2 DEF ScanOK, Scanning, Looking, Less
  <2> QED BY <1>4, <2>4, <2>5, <2>6, <2>7, ScanAdvances
<1> QED BY <1>2, <1>3, <1>4, ScanMoves

LEMMA ScanInvNext == SlotInv /\ ScanInv /\ [Next]_vars => ScanInv'
<1> SUFFICES ASSUME SlotInv, ScanInv, [Next]_vars PROVE ScanInv'
  OBVIOUS
<1>1. CASE Next
  <2>1. PICK p \in Procs : Step(p)
    BY <1>1 DEF Next, Step
  <2> QED BY <2>1, OwnScan, OthersScan DEF ScanInv
<1>2. CASE UNCHANGED vars
  BY <1>2 DEF vars, ScanInv, ScanOK, Versions, ValidNow, Passed, Stands, Less
<1> QED BY <1>1, <1>2

LEMMA ScanInvariance == Spec => []ScanInv
<1>1. Init => ScanInv
  BY DEF Init, ScanInv, ScanOK, Scanning, Looking
<1> QED BY <1>1, ScanInvNext, SlotsConsistent, PTL DEF Spec

\* What the scan of pop_first and first_key_value ends with comes before every entry that was in
\* the map all the while, for any number of slots and of callers that insert, update and remove.
THEOREM LeastFound == Spec => []ScanFindsLeast
<1>1. ScanInv => ScanFindsLeast
  BY DEF ScanInv, ScanOK, ScanFindsLeast, Passed, Scanning, Stands
<1> QED BY <1>1, ScanInvariance, PTL

\* insert turns to a free slot only when no entry with its key stood through its first phase.
THEOREM KeyFound == Spec => InsertFindsKey
<1>1. SlotInv /\ ScanInv /\ [Next]_vars =>
        [\A p \in Procs : pc[p] \in Looking /\ pc'[p] = "place" =>
           ~\E i \in Slots : /\ word[i].ver \in stood[p] /\ ValidNow(i)
                             /\ entry[i].key = key[p]]_vars
  <2> SUFFICES ASSUME SlotInv, ScanInv, Next, NEW r \in Procs, pc[r] \in Looking, pc'[r] = "place",
                      NEW i \in Slots, Stands(r, i), entry[i].key = key[r]
               PROVE  FALSE
    BY DEF Stands
  <2>1. PICK p \in Procs : Step(p)
    BY DEF Next, Step
  <2>2. r = p
    BY <2>1, StepEffect DEF Mine, Looking
  <2>3. Look(p) \/ Read(p) \/ Lock(p)
    <3>1. pc[p] \in {"look", "read", "lock"}
      BY <2>2 DEF Looking
    <3>2. PopStep(p) \/ FirstStep(p) \/ ClearStep(p) => FALSE
      BY <3>1 DEF PopStep, FirstStep, ClearStep, Pop, FirstKeyValue, Clear, Call, Scan, Confirm, Choose,
         Restore, Take, Discount, Report, Visit, Seize, PutBack, Uncount
    <3>3. Insert(p) \/ Update(p) \/ Unlock(p) \/ Place(p) \/ PlaceFails(p) \/ Write(p) \/ Count(p)
          => FALSE
      BY <3>1 DEF Insert, Call, Update, Unlock, Place, PlaceFails, Write, Count
    <3> QED BY <2>1, <3>2, <3>3 DEF Step, InsertStep
  <2>4. at[p] = CAPACITY - 1 /\ CAPACITY \in Nat
    <3>1. NextSlot(p, "look", "place")
      BY <2>2, <2>3, Goes DEF Look, Read, Lock, SlotInv
    <3> QED BY <2>2, <3>1, NextSlotDoes, MapAssumption DEF SlotInv, Labels
  <2>5. i \in Passed(p) \/ i = at[p]
    BY <2>4 DEF Passed, Slots
  <2> QED BY <2>2, <2>3, <2>5, LookPasses DEF ScanInv, ScanOK
<1> QED BY <1>1, SlotsConsistent, ScanInvariance, PTL DEF Spec, InsertFindsKey

-----------------------------------------------------------------------------
(* Why a pop loses a round                                                 *)

\* A valid slot that a step of p changes is one that p locks.
LEMMA ValidChanges ==
  ASSUME SlotInv, NEW p \in Procs, Effect(p), NEW i \in Slots, ValidNow(i), word'[i] # word[i]
  PROVE  LockedBy(p)
<1> USE DEF SlotInv
<1>1. \A q \in Procs : ~Holds(q, i)
  BY HeldIsLocked DEF ValidNow
<1>2. CASE Quiet(p) \/ Beginning(p)
  BY <1>2 DEF Quiet, Beginning
<1>3. CASE Filling(p)
  BY <1>1, <1>3 DEF Filling, Becomes, Holds
<1>4. CASE Placing(p)
  BY <1>4 DEF Placing, Becomes, ValidNow, EMPTY
<1>5. CASE Taking(p)
  BY <1>1, <1>5 DEF Taking, Becomes, Holds
<1>6. ASSUME NEW j \in Slots, Releasing(p, j) PROVE LockedBy(p)
  BY <1>1, <1>6 DEF Releasing, Becomes
<1>7. ASSUME NEW j \in Slots, Locking(p, j) PROVE LockedBy(p)
  <2>1. word'[j].st = "DELETING" /\ word[j].st = "VALID" /\ pc'[p] # pc[p]
    BY <1>7 DEF Locking, Becomes, ValidNow
  <2> QED BY <2>1 DEF LockedBy
<1> QED BY <1>2, <1>3, <1>4, <1>5, <1>6, <1>7 DEF Effect

LEMMA OthersRound ==
  ASSUME SlotInv, RoundInv, NEW p \in Procs, Step(p), NEW r \in Procs \ {p}
  PROVE  RoundOK(r)'
<1> SUFFICES ASSUME op'[r] = "pop_first", cand'[r] # None, ~beaten'[r]
             PROVE  /\ pc'[r] \in Scanning => word'[cand'[r].at] = VALID(cand'[r].ver)
                    /\ pc'[r] # "restore"
  BY DEF RoundOK, VALID
<1>1. /\ Effect(p) /\ pc'[r] = pc[r] /\ op'[r] = op[r] /\ cand'[r] = cand[r] /\ round'[r] = round[r]
  BY StepEffect DEF Mine
<1>2. ~Starts(r)
  BY <1>1 DEF Starts, Scanning, Looking
<1>3. ~beaten[r] /\ ~LockedBy(p)
  BY <1>2, Remembers DEF Step
<1>4. cand[r].at \in Slots
  BY <1>1, CandidateKey DEF SlotInv
<1>5. /\ pc[r] \in Scanning => word[cand[r].at] = VALID(cand[r].ver)
      /\ pc[r] # "restore"
  BY <1>1, <1>3 DEF RoundInv, RoundOK
<1>6. ValidNow(cand[r].at) => word'[cand[r].at] = word[cand[r].at]
  BY <1>1, <1>3, <1>4, ValidChanges
<1> QED BY <1>1, <1>5, <1>6 DEF ValidNow, VALID

\* The steps of a caller that is about to lock a slot.
LEMMA StepAt ==
  ASSUME NEW p \in Procs, Step(p), pc[p] \in {"lock", "choose", "seize"}
  PROVE  Lock(p) \/ Choose(p) \/ Report(p) \/ Seize(p)
<1>1. ~(Insert(p) \/ Look(p) \/ Read(p) \/ Update(p) \/ Unlock(p) \/ Place(p) \/ PlaceFails(p)
        \/ Write(p) \/ Count(p))
  BY DEF Insert, Call, Look, Read, Update, Unlock, Place, PlaceFails, Write, Count
<1>2. ~(Pop(p) \/ Scan(p) \/ Confirm(p) \/ Restore(p) \/ Take(p) \/ Discount(p) \/ FirstKeyValue(p))
  BY DEF Pop, Call, Scan, Confirm, Restore, Take, Discount, FirstKeyValue
<1>3. ~(Clear(p) \/ Visit(p) \/ PutBack(p) \/ Uncount(p))
  BY DEF Clear, Call, Visit, PutBack, Uncount
<1> QED BY <1>1, <1>2, <1>3 DEF Step, InsertStep, PopStep, FirstStep, ClearStep

LEMMA OwnRound ==
  ASSUME SlotInv, NEW p \in Procs, RoundOK(p), Step(p)
  PROVE  RoundOK(p)'
<1> SUFFICES ASSUME op'[p] = "pop_first", cand'[p] # None, ~beaten'[p]
             PROVE  /\ pc'[p] \in Scanning => word'[cand'[p].at] = VALID(cand'[p].ver)
                    /\ pc'[p] # "restore"
  BY DEF RoundOK, VALID
<1> USE DEF SlotInv
<1>1. LocalOK(p)'
  BY StepEffect DEF LocalInv
<1>2. ASSUME ~Starts(p) PROVE ~beaten[p]
  BY <1>2, Remembers DEF Step
<1>3. CASE pc'[p] \in Scanning
  <2>1. ~Starts(p) /\ (Look(p) \/ Read(p) \/ Lock(p) \/ Scan(p) \/ Confirm(p))
    BY <1>3, ScanMoves
  <2>2. Scan(p) \/ Confirm(p)
    <3>1. pc'[p] \notin Looking
      BY <1>3 DEF Scanning, Looking
    <3>2. pc'[p] \notin {"place", "update", "unlock"}
      BY <1>3 DEF Scanning
    <3> QED BY <2>1, <3>1, <3>2, Goes DEF Look, Read, Lock, Looking
  <2>3. /\ pc[p] \in {"scan", "confirm"} /\ word' = word /\ op'[p] = op[p] /\ at[p] \in Slots
    BY <2>2 DEF Scan, Confirm, shared, TypeOK
  <2>4. cand[p] # None => word[cand[p].at] = VALID(cand[p].ver)
    BY <1>2, <2>1, <2>3 DEF RoundOK, Scanning
  <2>5. CASE cand'[p] = cand[p]
    BY <1>3, <2>3, <2>4, <2>5 DEF Scanning
  <2>6. CASE cand'[p] # cand[p]
    <3> DEFINE c == [key |-> entry[at[p]].key, ver |-> old[p], at |-> at[p]]
    <3>1. word[at[p]] = VALID(old[p]) /\ cand'[p] \in {cand[p], c}
      BY <2>2, <2>6 DEF Scan, Confirm, Smallest, TypeOK
    <3>2. c.at = at[p] /\ c.ver = old[p]
      OBVIOUS
    <3> QED BY <1>3, <2>3, <2>6, <3>1, <3>2 DEF Scanning
  <2> QED BY <2>5, <2>6
<1>4. CASE pc'[p] = "restore"
  <2>1. ~Starts(p)
    BY <1>4 DEF Starts
  <2>2. Effect(p)
    BY StepEffect
  <2>3. PICK i \in Slots : Locking(p, i)
    BY <1>4, <2>2 DEF Effect, Quiet, Filling, Placing, Taking, Beginning, Releasing, Busy
  <2>4. pc[p] \in {"lock", "choose", "seize"}
    BY <2>3 DEF Locking
  <2>5. Lock(p) \/ Choose(p) \/ Report(p) \/ Seize(p)
    BY <2>4, StepAt
  <2>6. CASE Lock(p) \/ Report(p)
    <3>1. pc'[p] \in {"look", "place", "update", "unlock", "idle"}
      BY <2>6, NextSlotDoes, LeaveDoes DEF Lock, Report, Goto, TypeOK, Labels
    <3> QED BY <1>4, <3>1
  <2>7. CASE Seize(p)
    <3>1. op[p] = "clear" /\ op'[p] \in {"clear", None} /\ None # "pop_first"
      BY <2>7, WhichCall, Steps, LeaveDoes DEF Seize, Resume, Operations
    <3> QED BY <3>1
  <2>8. CASE Choose(p)
    <3>1. op[p] = "pop_first" /\ pc[p] = "choose"
      BY <2>8 DEF Choose
    <3>2. ~NextRound(p) /\ ~Leave(p)
      BY <1>4, <3>1, NextRoundDoes, LeaveDoes
    <3>3. /\ cand[p] # None
          /\ pc'[p] = IF word[cand[p].at].ver = cand[p].ver THEN "take" ELSE "restore"
      BY <2>8, <3>2 DEF Choose, Goto, TypeOK
    <3>4. word[cand[p].at] = VALID(cand[p].ver)
      BY <1>2, <2>1, <3>1, <3>3 DEF RoundOK, Scanning
    <3>5. pc'[p] = "take"
      BY <3>3, <3>4 DEF VALID
    <3> QED BY <1>4, <3>5
  <2> QED BY <2>5, <2>6, <2>7, <2>8
<1> QED BY <1>3, <1>4 DEF Scanning

LEMMA RoundInvNext == SlotInv /\ RoundInv /\ [Next]_vars => RoundInv'
<1> SUFFICES ASSUME SlotInv, RoundInv, [Next]_vars PROVE RoundInv'
  OBVIOUS
<1>1. CASE Next
  <2>1. PICK p \in Procs : Step(p)
    BY <1>1 DEF Next, Step
  <2> QED BY <2>1, OwnRound, OthersRound DEF RoundInv
<1>2. CASE UNCHANGED vars
  BY <1>2 DEF vars, RoundInv, RoundOK, VALID
<1> QED BY <1>1, <1>2

\* pop_first loses a round, and in the end answers None for a map that may not be empty, only to
\* another caller that has locked a slot since the round began: alone, it never fails.
THEOREM RoundsLostToOthers == Spec => RoundLostToOther
<1>1. Init => RoundInv
  BY DEF Init, RoundInv, RoundOK
<1>2. SlotInv /\ RoundInv /\ [Next]_vars =>
        [\A p \in Procs :
           /\ op[p] = "pop_first" /\ cand[p] # None
           /\ pc[p] = "restore" \/ (pc[p] = "choose" /\ pc'[p] \in {"scan", "idle"})
           => beaten[p]]_vars
  <2> SUFFICES ASSUME SlotInv, RoundInv, Next, NEW r \in Procs, op[r] = "pop_first", cand[r] # None,
                      pc[r] = "restore" \/ (pc[r] = "choose" /\ pc'[r] \in {"scan", "idle"}),
                      ~beaten[r]
               PROVE  FALSE
    OBVIOUS
  <2>1. pc[r] = "choose" /\ pc'[r] \in {"scan", "idle"} /\ word[cand[r].at] = VALID(cand[r].ver)
    BY DEF RoundInv, RoundOK, Scanning
  <2>2. PICK p \in Procs : Step(p)
    BY DEF Next, Step
  <2>3. r = p
    BY <2>1, <2>2, StepEffect DEF Mine
  <2>4. Choose(p)
    BY <2>1, <2>2, <2>3, StepAt DEF Lock, Seize, Report
  <2>5. LockFails(cand[p].at, cand[p].ver)
    BY <2>1, <2>3, <2>4 DEF Choose, Goto, SlotInv, TypeOK
  <2> QED BY <2>1, <2>3, <2>5 DEF LockFails
<1> QED BY <1>1, <1>2, RoundInvNext, SlotsConsistent, PTL DEF Spec, RoundLostToOther

-----------------------------------------------------------------------------
(* The map as an implementation of EntryMap                                *)

\* What EntryMap sees of the slots and of the call of p.
AbsEntries == {entry[i] : i \in {j \in Slots : Occupied(j)}}
Seen(p) == IF op[p] = "clear" /\ pc[p] = "restore" THEN None ELSE EntryOf(cand[p])
EffectOf(p) == IF pc[p] \in {"count", "discount"} THEN "past" ELSE "due"
AbsOf(p) == [op |-> op[p], key |-> key[p], ver |-> ver[p], found |-> Seen(p),
             effect |-> EffectOf(p)]
AbsCall == [p \in Procs |-> AbsOf(p)]

\* A caller outside every call holds nothing, as EntryMap demands of one that begins.
IdleInv == \A p \in Procs : op[p] = None => AbsOf(p) = Abstract!NoCall

LEMMA CallChanges ==
  ASSUME NEW p \in Procs, Mine(p), NEW c, AbsOf(p)' = c
  PROVE  /\ AbsCall[p] = AbsOf(p)
         /\ AbsCall' = [AbsCall EXCEPT ![p] = c]
<1>1. \A q \in Procs \ {p} : AbsOf(q)' = AbsOf(q)
  BY DEF Mine, AbsOf, Seen, EffectOf, EntryOf
<1>2. AbsCall' = [q \in Procs |-> AbsOf(q)']
  BY DEF AbsCall
<1>3. AbsCall = [q \in Procs |-> AbsOf(q)]
  BY DEF AbsCall
<1> HIDE DEF AbsCall, AbsOf
<1> QED BY <1>1, <1>2, <1>3

\* The entries change only when a slot is filled or emptied.
LEMMA EntriesSame ==
  ASSUME SlotInv, NEW p \in Procs, Effect(p), pc[p] \notin {"idle", "update", "write", "take"}
  PROVE  AbsEntries' = AbsEntries /\ global_version' = global_version
<1>1. entry' = entry /\ \A i \in Slots : Occupied(i)' <=> Occupied(i)
  BY SlotsSame
<1>2. AbsEntries' = AbsEntries
  BY <1>1 DEF AbsEntries
<1>3. global_version' = global_version
  BY DEF Effect, Quiet, Filling, Placing, Taking, Beginning, Locking, Releasing, Same
<1> QED BY <1>2, <1>3

\* What EntryMap sees of a caller that stays in its call.
SameCall(p) == op'[p] = op[p] /\ key'[p] = key[p] /\ ver'[p] = ver[p]
LEMMA Shows ==
  ASSUME NEW p \in Procs, SameCall(p), NEW f, Seen(p)' = f, NEW e, EffectOf(p)' = e
  PROVE  /\ EffectOf(p) = e => AbsOf(p)' = [AbsOf(p) EXCEPT !.found = f]
         /\ EffectOf(p) = e /\ Seen(p) = f => AbsOf(p)' = AbsOf(p)
         /\ Seen(p) = f => AbsOf(p)' = [AbsOf(p) EXCEPT !.effect = e]
<1>1. AbsOf(p)' = [op |-> op[p], key |-> key[p], ver |-> ver[p], found |-> f, effect |-> e]
  BY DEF AbsOf, SameCall
<1>2. AbsOf(p) = [op |-> op[p], key |-> key[p], ver |-> ver[p], found |-> Seen(p),
                  effect |-> EffectOf(p)]
  BY DEF AbsOf
<1> HIDE DEF AbsOf, Seen, EffectOf
<1>3. [AbsOf(p) EXCEPT !.found = f]
        = [op |-> op[p], key |-> key[p], ver |-> ver[p], found |-> f, effect |-> EffectOf(p)]
  BY <1>2
<1>4. [AbsOf(p) EXCEPT !.effect = e]
        = [op |-> op[p], key |-> key[p], ver |-> ver[p], found |-> Seen(p), effect |-> e]
  BY <1>2
<1> QED BY <1>1, <1>2, <1>3, <1>4

\* As it looks when it goes on to the next entry.
LEMMA ShowsAgain ==
  ASSUME NEW p \in Procs, SameCall(p), Seen(p)' = None, EffectOf(p)' = "due"
  PROVE  AbsOf(p)' = [AbsOf(p) EXCEPT !.found = None, !.effect = "due"]
<1> DEFINE s == [AbsOf(p) EXCEPT !.found = None]
<1>1. AbsOf(p)' = [op |-> op[p], key |-> key[p], ver |-> ver[p], found |-> None, effect |-> "due"]
  BY DEF AbsOf, SameCall
<1>2. s = [op |-> op[p], key |-> key[p], ver |-> ver[p], found |-> None, effect |-> EffectOf(p)]
  BY DEF AbsOf
<1>3. [AbsOf(p) EXCEPT !.found = None, !.effect = "due"] = [s EXCEPT !.effect = "due"]
  OBVIOUS
<1> HIDE DEF s
<1>4. [s EXCEPT !.effect = "due"]
        = [op |-> op[p], key |-> key[p], ver |-> ver[p], found |-> None, effect |-> "due"]
  BY <1>2
<1> QED BY <1>1, <1>3, <1>4

\* The steps of EntryMap, in terms of the call it sees.
LEMMA Stutters ==
  ASSUME SlotInv, NEW p \in Procs, Mine(p), Effect(p), SameCall(p),
         pc[p] \notin {"idle", "update", "write", "take"},
         Seen(p)' = Seen(p), EffectOf(p)' = EffectOf(p)
  PROVE  UNCHANGED Abstract!absVars
<1>1. AbsCall[p] = AbsOf(p) /\ AbsCall' = [AbsCall EXCEPT ![p] = AbsOf(p)]
  BY Shows, CallChanges
<1>2. AbsCall' = AbsCall
  BY <1>1 DEF AbsCall
<1>3. AbsEntries' = AbsEntries /\ global_version' = global_version
  BY EntriesSame
<1> QED BY <1>2, <1>3 DEF Abstract!absVars, AbsCall, AbsOf, Seen, EffectOf, AbsEntries

LEMMA Sees ==
  ASSUME SlotInv, NEW p \in Procs, Mine(p), Effect(p), SameCall(p),
         pc[p] \notin {"idle", "update", "write", "take"}, op[p] \in Abstract!Readers,
         EffectOf(p) = "due", EffectOf(p)' = "due", Seen(p)' \in AbsEntries \cup {None}
  PROVE  Abstract!See(p)
<1>0. PICK e \in AbsEntries \cup {None} : Seen(p)' = e
  OBVIOUS
<1>1. AbsOf(p)' = [AbsOf(p) EXCEPT !.found = e]
  BY <1>0, Shows
<1>2. AbsCall[p] = AbsOf(p) /\ AbsCall' = [AbsCall EXCEPT ![p] = [AbsOf(p) EXCEPT !.found = e]]
  BY <1>1, CallChanges
<1>3. AbsCall[p].op \in Abstract!Readers /\ AbsCall[p].effect = "due"
  BY <1>2 DEF AbsOf
<1>4. AbsEntries' = AbsEntries /\ global_version' = global_version
  BY EntriesSame
<1> QED BY <1>2, <1>3, <1>4
        DEF Abstract!See, Abstract!To, AbsCall, AbsOf, Seen, EffectOf, AbsEntries

LEMMA LeaveShows ==
  ASSUME TypeOK, NEW p \in Procs, Leave(p)
  PROVE  AbsOf(p)' = Abstract!NoCall
<1>1. pc'[p] = "idle" /\ op'[p] = None /\ cand'[p] = None
  BY LeaveDoes
<1>2. key'[p] = None /\ ver'[p] = 0
  BY DEF Leave, TypeOK
<1>3. Seen(p)' = None /\ EffectOf(p)' = "due"
  BY <1>1, MapAssumption DEF Seen, EffectOf, EntryOf
<1>4. AbsOf(p)' = [op |-> op'[p], key |-> key'[p], ver |-> ver'[p], found |-> Seen(p)',
                   effect |-> EffectOf(p)']
  BY DEF AbsOf
<1> HIDE DEF AbsOf, Seen, EffectOf
<1> QED BY <1>1, <1>2, <1>3, <1>4 DEF Abstract!NoCall

LEMMA Returns ==
  ASSUME SlotInv, NEW p \in Procs, Mine(p), Effect(p), Leave(p), op[p] # None,
         pc[p] \notin {"idle", "update", "write", "take"}
  PROVE  Abstract!Return(p)
<1>1. AbsOf(p)' = Abstract!NoCall
  BY LeaveShows DEF SlotInv
<1>2. AbsCall[p] = AbsOf(p) /\ AbsCall' = [AbsCall EXCEPT ![p] = Abstract!NoCall]
  BY <1>1, CallChanges
<1>3. AbsCall[p].op # None
  BY <1>2 DEF AbsOf
<1>4. AbsEntries' = AbsEntries /\ global_version' = global_version
  BY EntriesSame
<1> QED BY <1>2, <1>3, <1>4
        DEF Abstract!Return, Abstract!To, AbsCall, AbsOf, Seen, EffectOf, AbsEntries

\* A call begins.
LEMMA BeginRefines ==
  ASSUME SlotInv, IdleInv, NEW p \in Procs, Mine(p),
         Insert(p) \/ Pop(p) \/ FirstKeyValue(p) \/ Clear(p)
  PROVE  Abstract!BeginInsert(p) \/ Abstract!Begin(p)
<1> USE DEF SlotInv
<1>1. pc[p] = "idle" /\ op[p] = None /\ cand[p] = None
  BY WhichCall DEF Insert, Pop, FirstKeyValue, Clear, Call, LocalInv, LocalOK
<1>2. AbsOf(p) = Abstract!NoCall /\ key[p] = None /\ ver[p] = 0
  <2>1. AbsOf(p) = Abstract!NoCall
    BY <1>1 DEF IdleInv
  <2>2. AbsOf(p).key = key[p] /\ AbsOf(p).ver = ver[p]
    BY DEF AbsOf
  <2> QED BY <2>1, <2>2 DEF Abstract!NoCall
<1>3. AbsEntries' = AbsEntries
  <2>1. entry' = entry /\ word' = word
    BY DEF Insert, Pop, FirstKeyValue, Clear, shared
  <2> QED BY <2>1 DEF AbsEntries, Occupied
<1>4. cand' = cand /\ pc'[p] \in {"look", "scan", "visit"}
  BY Goes DEF Insert, Pop, FirstKeyValue, Clear, Call
<1>5. Seen(p)' = None /\ EffectOf(p)' = "due"
  BY <1>1, <1>4 DEF Seen, EffectOf, EntryOf
<1>6. AbsOf(p)' = [op |-> op'[p], key |-> key'[p], ver |-> ver'[p], found |-> None,
                   effect |-> "due"]
  BY <1>5 DEF AbsOf
<1>7. CASE Insert(p)
  <2>1. PICK k \in Keys : key' = [key EXCEPT ![p] = k]
    BY <1>7, MapAssumption DEF Insert, TypeOK
  <2>2. /\ op'[p] = "insert" /\ key'[p] = k /\ ver'[p] = global_version
        /\ global_version' = global_version + 1
    BY <1>7, <2>1 DEF Insert, Call, TypeOK
  <2>3. AbsOf(p)' = [op |-> "insert", key |-> k, ver |-> global_version, found |-> None,
                     effect |-> "due"]
    BY <1>6, <2>2
  <2>4. /\ AbsCall[p] = Abstract!NoCall
        /\ AbsCall' = [AbsCall EXCEPT ![p] = [op |-> "insert", key |-> k, ver |-> global_version,
                                              found |-> None, effect |-> "due"]]
    BY <1>2, <2>3, CallChanges
  <2>5. Abstract!BeginInsert(p)
    BY <1>3, <2>2, <2>4
       DEF Abstract!BeginInsert, Abstract!To, AbsCall, AbsOf, Seen, EffectOf, AbsEntries
  <2> QED BY <2>5
<1>8. CASE Pop(p) \/ FirstKeyValue(p) \/ Clear(p)
  <2>1. PICK o \in Abstract!Readers : op'[p] = o
    BY <1>8 DEF Pop, FirstKeyValue, Clear, Call, TypeOK, Abstract!Readers
  <2>2. key' = key /\ ver' = ver /\ global_version' = global_version
    BY <1>8 DEF Pop, FirstKeyValue, Clear, shared
  <2>3. AbsOf(p)' = [op |-> o, key |-> None, ver |-> 0, found |-> None, effect |-> "due"]
    BY <1>2, <1>6, <2>1, <2>2
  <2>4. [Abstract!NoCall EXCEPT !.op = o]
          = [op |-> o, key |-> None, ver |-> 0, found |-> None, effect |-> "due"]
    BY DEF Abstract!NoCall
  <2>5. /\ AbsCall[p] = Abstract!NoCall
        /\ AbsCall' = [AbsCall EXCEPT ![p] = [Abstract!NoCall EXCEPT !.op = o]]
    BY <1>2, <2>3, <2>4, CallChanges
  <2>6. Abstract!Begin(p)
    BY <1>3, <2>2, <2>5
       DEF Abstract!Begin, Abstract!To, AbsCall, AbsOf, Seen, EffectOf, AbsEntries
  <2> QED BY <2>6
<1> QED BY <1>7, <1>8

\* insert.  It sees nothing, and takes effect when it fills a slot.
LEMMA InsertSees ==
  ASSUME LocalInv, NEW p \in Procs, op[p] \in {None, "insert"}
  PROVE  cand[p] = None /\ Seen(p) = None
BY DEF LocalInv, LocalOK, Seen, EntryOf

LEMMA InsertStutters ==
  ASSUME SlotInv, NEW p \in Procs, Mine(p), Effect(p),
         Look(p) \/ Read(p) \/ Lock(p) \/ Unlock(p) \/ Place(p) \/ (PlaceFails(p) /\ ~Leave(p))
  PROVE  UNCHANGED Abstract!absVars
<1>1. op' = op /\ key' = key /\ ver' = ver /\ cand' = cand
  BY DEF Look, Read, Lock, Unlock, Place, PlaceFails
<1>2. pc[p] \in {"look", "read", "lock", "unlock", "place"}
  BY DEF Look, Read, Lock, Unlock, Place, PlaceFails
<1>3. op[p] = "insert"
  BY <1>2, WhichCall DEF SlotInv, Inserting
<1>4. Seen(p)' = Seen(p)
  BY <1>1, <1>3 DEF Seen, EntryOf
<1>5. EffectOf(p)' = EffectOf(p)
  BY PlainDoes DEF Plain, EffectOf
<1> QED BY <1>1, <1>2, <1>4, <1>5, Stutters DEF SameCall

\* An entry is in one slot only.
LEMMA OnlySlot ==
  ASSUME SlotInv, NEW i \in Slots, NEW j \in Slots, Occupied(i), Occupied(j), entry[i] = entry[j]
  PROVE  i = j
<1>1. word[i].ver = word[j].ver
  BY DEF SlotInv, EntryInv
<1>2. word[i] # EMPTY
  BY DEF Occupied, EMPTY
<1> QED BY <1>1, <1>2 DEF SlotInv, VersionInv

\* What is in the slots other than i.
Besides(i) == {entry[j] : j \in {k \in Slots : Occupied(k) /\ k # i}}
LEMMA BesidesIs ==
  ASSUME SlotInv, NEW i \in Slots
  PROVE  /\ Occupied(i) => entry[i] \in AbsEntries /\ Besides(i) = AbsEntries \ {entry[i]}
         /\ ~Occupied(i) => Besides(i) = AbsEntries
<1>1. CASE Occupied(i)
  <2>1. ASSUME NEW x \in AbsEntries \ {entry[i]} PROVE x \in Besides(i)
    BY <2>1 DEF AbsEntries, Besides
  <2>2. ASSUME NEW x \in Besides(i) PROVE x \in AbsEntries \ {entry[i]}
    BY <1>1, <2>2, OnlySlot DEF AbsEntries, Besides
  <2>3. entry[i] \in AbsEntries
    BY <1>1 DEF AbsEntries
  <2> QED BY <1>1, <2>1, <2>2, <2>3
<1>2. CASE ~Occupied(i)
  BY <1>2 DEF AbsEntries, Besides
<1> QED BY <1>1, <1>2

LEMMA FillShows ==
  ASSUME SlotInv, NEW p \in Procs, Effect(p), pc[p] \in {"update", "write"}
  PROVE  /\ AbsEntries' = Besides(at[p]) \cup {[key |-> key[p], ver |-> ver[p]]}
         /\ at[p] \in Slots /\ global_version' = global_version
<1>1. Filling(p)
  BY DEF Effect, Quiet, Busy, Placing, Taking, Beginning, Locking, Releasing
<1>2. at[p] \in Slots
  BY DEF SlotInv, TypeOK
<1>3. \A j \in Slots : Occupied(j)' <=> j = at[p] \/ Occupied(j)
  BY <1>1, <1>2 DEF Filling, Becomes, Occupied, VALID
<1>4. \A j \in Slots : entry'[j] = IF j = at[p] THEN [key |-> key[p], ver |-> ver[p]]
                                   ELSE entry[j]
  BY <1>1 DEF Filling
<1>5. AbsEntries' = Besides(at[p]) \cup {[key |-> key[p], ver |-> ver[p]]}
  <2>1. AbsEntries' = {entry'[i] : i \in {j \in Slots : Occupied(j)'}}
    BY DEF AbsEntries
  <2> HIDE DEF AbsEntries
  <2>2. ASSUME NEW x \in AbsEntries'
        PROVE  x \in Besides(at[p]) \cup {[key |-> key[p], ver |-> ver[p]]}
    BY <1>3, <1>4, <2>1, <2>2 DEF Besides
  <2>3. ASSUME NEW x \in Besides(at[p]) PROVE x \in AbsEntries'
    BY <1>3, <1>4, <2>1, <2>3 DEF Besides
  <2>4. [key |-> key[p], ver |-> ver[p]] \in AbsEntries'
    BY <1>2, <1>3, <1>4, <2>1
  <2> QED BY <2>2, <2>3, <2>4
<1> QED BY <1>1, <1>2, <1>5 DEF Filling

LEMMA UpdateRefines ==
  ASSUME SlotInv, NEW p \in Procs, Mine(p), Effect(p), Update(p)
  PROVE  Abstract!Replace(p)
<1>1. pc[p] = "update" /\ Leave(p)
  BY DEF Update
<1>2. at[p] \in Slots /\ Occupied(at[p]) /\ entry[at[p]].key = key[p]
  BY <1>1 DEF SlotInv, TypeOK, HolderInv, Holds, EntryInv, Occupied
<1>3. /\ entry[at[p]] \in AbsEntries
      /\ AbsEntries' = (AbsEntries \ {entry[at[p]]}) \cup {[key |-> key[p], ver |-> ver[p]]}
      /\ global_version' = global_version
  BY <1>1, <1>2, BesidesIs, FillShows
<1>4. AbsOf(p)' = Abstract!NoCall
  BY <1>1, LeaveShows DEF SlotInv
<1>5. AbsCall[p] = AbsOf(p) /\ AbsCall' = [AbsCall EXCEPT ![p] = Abstract!NoCall]
  BY <1>4, CallChanges
<1>6. /\ AbsCall[p].op = "insert" /\ AbsCall[p].effect = "due"
      /\ AbsCall[p].key = key[p] /\ AbsCall[p].ver = ver[p]
  BY <1>1, <1>5, WhichCall DEF AbsOf, EffectOf, SlotInv, Inserting
<1>7. \E e \in AbsEntries : /\ e.key = AbsCall[p].key
                            /\ AbsEntries' = (AbsEntries \ {e})
                                             \cup {[key |-> AbsCall[p].key, ver |-> AbsCall[p].ver]}
  BY <1>2, <1>3, <1>6
<1> QED BY <1>3, <1>5, <1>6, <1>7
        DEF Abstract!Replace, Abstract!To, Abstract!Insertion, AbsCall, AbsOf, Seen, EffectOf,
            AbsEntries

\* A slot is free as long as an insert writes to it.
LEMMA RoomLeft ==
  ASSUME SlotInv, NEW i \in Slots, ~Occupied(i)
  PROVE  Cardinality(AbsEntries) < CAPACITY
<1> DEFINE O == {j \in Slots : Occupied(j)}
           f == [j \in O |-> entry[j]]
<1>1. CAPACITY \in Nat \ {0} /\ IsFiniteSet(Slots) /\ Cardinality(Slots) = CAPACITY
  BY MapAssumption, FS_Interval DEF Slots
<1>2. IsFiniteSet(Slots \ {i}) /\ Cardinality(Slots \ {i}) = CAPACITY - 1
  BY <1>1, FS_RemoveElement
<1>3. O \in SUBSET (Slots \ {i})
  OBVIOUS
<1>4. IsFiniteSet(O) /\ Cardinality(O) <= CAPACITY - 1 /\ Cardinality(O) \in Nat
  BY <1>2, <1>3, FS_Subset, FS_CardinalityType
<1>5. f \in Surjection(O, AbsEntries)
  BY DEF Surjection, AbsEntries
<1>6. IsFiniteSet(AbsEntries) /\ Cardinality(AbsEntries) <= Cardinality(O)
  <2> HIDE DEF f, O
  <2> QED BY <1>4, <1>5, FS_Surjection
<1>7. Cardinality(AbsEntries) \in Nat
  BY <1>6, FS_CardinalityType
<1> HIDE DEF O, AbsEntries
<1> QED BY <1>1, <1>4, <1>6, <1>7

LEMMA SameSize == \A S : Abstract!Cardinality(S) = Cardinality(S)
BY SMT DEF Abstract!Cardinality, Cardinality

LEMMA WriteRefines ==
  ASSUME SlotInv, NEW p \in Procs, Mine(p), Effect(p), Write(p)
  PROVE  Abstract!Add(p)
<1>1. pc[p] = "write" /\ pc'[p] = "count"
  BY Goes DEF Write, SlotInv
<1>2. op' = op /\ key' = key /\ ver' = ver /\ cand' = cand /\ op[p] = "insert"
  BY <1>1, WhichCall DEF Write, SlotInv, Inserting
<1>3. at[p] \in Slots /\ ~Occupied(at[p])
  BY <1>1 DEF SlotInv, TypeOK, HolderInv, Holds, Occupied
<1>4. /\ AbsEntries' = AbsEntries \cup {[key |-> key[p], ver |-> ver[p]]}
      /\ global_version' = global_version
  BY <1>1, <1>3, BesidesIs, FillShows
<1>5. Seen(p)' = Seen(p) /\ EffectOf(p) = "due" /\ EffectOf(p)' = "past"
  BY <1>1, <1>2 DEF Seen, EffectOf, EntryOf
<1>6. AbsOf(p)' = [AbsOf(p) EXCEPT !.effect = "past"]
  BY <1>2, <1>5, Shows DEF SameCall
<1>7. /\ AbsCall[p] = AbsOf(p)
      /\ AbsCall' = [AbsCall EXCEPT ![p] = [AbsOf(p) EXCEPT !.effect = "past"]]
  BY <1>6, CallChanges
<1>8. /\ AbsCall[p].op = "insert" /\ AbsCall[p].effect = "due"
      /\ AbsCall[p].key = key[p] /\ AbsCall[p].ver = ver[p]
  BY <1>2, <1>5, <1>7 DEF AbsOf
<1>9. Abstract!Cardinality(AbsEntries) < CAPACITY
  BY <1>3, RoomLeft, SameSize
<1>10. AbsEntries' = AbsEntries \cup {[key |-> AbsCall[p].key, ver |-> AbsCall[p].ver]}
  BY <1>4, <1>8
<1> QED BY <1>4, <1>7, <1>8, <1>9, <1>10
        DEF Abstract!Add, Abstract!To, Abstract!Insertion, AbsCall, AbsOf, Seen, EffectOf,
            AbsEntries

\* A call that fails, or whose effect is past, returns.
LEMMA ReturnRefines ==
  ASSUME SlotInv, NEW p \in Procs, Mine(p), Effect(p),
         Count(p) \/ (PlaceFails(p) /\ Leave(p)) \/ Discount(p) \/ Report(p)
  PROVE  Abstract!Return(p)
<1>1. Leave(p) /\ pc[p] \in {"count", "place", "discount", "choose"}
  BY DEF Count, PlaceFails, Discount, Report
<1>2. op[p] # None
  BY <1>1, WhichCall, Steps DEF SlotInv, Inserting, Operations
<1> QED BY <1>1, <1>2, Returns

\* pop_first and first_key_value
LEMMA ScanStutters ==
  ASSUME SlotInv, NEW p \in Procs, Mine(p), Effect(p), Scan(p)
  PROVE  UNCHANGED Abstract!absVars
<1>1. op' = op /\ key' = key /\ ver' = ver /\ cand' = cand /\ pc[p] = "scan"
  BY DEF Scan
<1>2. pc'[p] \in {"scan", "confirm", "choose"}
  BY Goes DEF Scan, SlotInv
<1>3. Seen(p)' = Seen(p) /\ EffectOf(p)' = EffectOf(p)
  BY <1>1, <1>2 DEF Seen, EffectOf, EntryOf
<1> QED BY <1>1, <1>3, Stutters DEF SameCall

\* An entry as its slot shows it.
LEMMA EntryShown ==
  ASSUME SlotInv, NEW i \in Slots, Occupied(i)
  PROVE  /\ entry[i] \in AbsEntries
         /\ entry[i] = [key |-> entry[i].key, ver |-> word[i].ver]
<1>1. entry[i] \in [key : Keys \cup {None}, ver : Nat] /\ entry[i].ver = word[i].ver
  BY DEF SlotInv, TypeOK, EntryInv
<1> QED BY <1>1 DEF AbsEntries

LEMMA NewCandidate ==
  ASSUME SlotInv, NEW i \in Slots, Occupied(i),
         NEW c, c = [key |-> entry[i].key, ver |-> word[i].ver, at |-> i]
  PROVE  c # None /\ EntryOf(c) = entry[i]
<1>1. c \in Candidates
  BY DEF SlotInv, TypeOK, EntryInv, Candidates
<1>2. c # None /\ c.key = entry[i].key /\ c.ver = word[i].ver
  BY <1>1, MapAssumption
<1> QED BY <1>2, EntryShown DEF EntryOf

LEMMA ConfirmRefines ==
  ASSUME SlotInv, NEW p \in Procs, Mine(p), Effect(p), Confirm(p)
  PROVE  Abstract!See(p) \/ UNCHANGED Abstract!absVars
<1>1. op' = op /\ key' = key /\ ver' = ver /\ pc[p] = "confirm"
  BY DEF Confirm
<1>2. pc'[p] \in {"scan", "choose"}
  BY Goes DEF Confirm, SlotInv
<1>3. EffectOf(p) = "due" /\ EffectOf(p)' = "due" /\ op[p] \in Abstract!Readers
  BY <1>1, <1>2, WhichCall DEF EffectOf, SlotInv, Abstract!Readers
<1>4. Seen(p) = EntryOf(cand[p]) /\ Seen(p)' = EntryOf(cand'[p])
  BY <1>1, <1>2 DEF Seen, EntryOf
<1>5. CASE cand'[p] = cand[p]
  <2>1. Seen(p)' = Seen(p)
    BY <1>4, <1>5
  <2> QED BY <1>1, <1>3, <2>1, Stutters DEF SameCall
<1>6. CASE cand'[p] # cand[p]
  <2> DEFINE c == [key |-> entry[at[p]].key, ver |-> old[p], at |-> at[p]]
  <2>1. at[p] \in Slots /\ cand \in [Procs -> Candidates \cup {None}]
    BY DEF SlotInv, TypeOK
  <2>2. word[at[p]] = VALID(old[p]) /\ cand'[p] = Smallest(cand[p], c)
    BY <1>6, <2>1 DEF Confirm
  <2>3. cand'[p] = c
    BY <1>6, <2>2 DEF Smallest
  <2>4. Occupied(at[p]) /\ c = [key |-> entry[at[p]].key, ver |-> word[at[p]].ver, at |-> at[p]]
    BY <2>2 DEF Occupied, VALID
  <2>5. EntryOf(c) = entry[at[p]] /\ entry[at[p]] \in AbsEntries
    BY <2>1, <2>4, NewCandidate, EntryShown
  <2>6. Seen(p)' \in AbsEntries \cup {None}
    BY <1>4, <2>3, <2>5
  <2> QED BY <1>1, <1>3, <2>6, Sees DEF SameCall
<1> QED BY <1>5, <1>6

LEMMA NextRoundRefines ==
  ASSUME SlotInv, NEW p \in Procs, Mine(p), Effect(p), NextRound(p), op[p] = "pop_first",
         pc[p] \in {"choose", "restore"}
  PROVE  Abstract!See(p) \/ Abstract!Return(p)
<1>1. CASE Leave(p)
  BY <1>1, Returns, MapAssumption DEF Operations
<1>2. CASE ~Leave(p)
  <2>1. op' = op /\ key' = key /\ ver' = ver /\ Goto(p, "scan")
    BY <1>2 DEF NextRound
  <2>2. cand'[p] = None /\ pc'[p] = "scan"
    BY <2>1, NextRoundDoes, Goes DEF SlotInv
  <2>3. Seen(p)' = None /\ EffectOf(p) = "due" /\ EffectOf(p)' = "due"
    BY <2>1, <2>2 DEF Seen, EffectOf, EntryOf
  <2> QED BY <2>1, <2>3, Sees DEF SameCall, Abstract!Readers
<1> QED BY <1>1, <1>2

LEMMA ChooseRefines ==
  ASSUME SlotInv, NEW p \in Procs, Mine(p), Effect(p), Choose(p) \/ Restore(p)
  PROVE  Abstract!See(p) \/ Abstract!Return(p) \/ UNCHANGED Abstract!absVars
<1>1. op[p] = "pop_first" /\ pc[p] \in {"choose", "restore"}
  BY DEF Choose, Restore
<1>2. CASE NextRound(p)
  BY <1>1, <1>2, NextRoundRefines
<1>3. CASE Leave(p)
  BY <1>1, <1>3, Returns, MapAssumption DEF Operations
<1>4. CASE ~NextRound(p) /\ ~Leave(p)
  <2>1. op' = op /\ key' = key /\ ver' = ver /\ cand' = cand
    BY <1>4 DEF Choose, Restore
  <2>2. pc[p] = "choose" /\ pc'[p] \in {"take", "restore"}
    BY <1>4, Goes DEF Choose, Restore, SlotInv
  <2>3. Seen(p)' = Seen(p) /\ EffectOf(p)' = EffectOf(p)
    BY <1>1, <2>1, <2>2 DEF Seen, EffectOf, EntryOf
  <2> QED BY <2>1, <2>2, <2>3, Stutters DEF SameCall
<1> QED BY <1>2, <1>3, <1>4

LEMMA TakeRefines ==
  ASSUME SlotInv, NEW p \in Procs, Mine(p), Effect(p), Take(p)
  PROVE  Abstract!Remove(p)
<1>1. pc[p] = "take" /\ pc'[p] = "discount"
  BY Goes DEF Take, SlotInv
<1>2. op' = op /\ key' = key /\ ver' = ver /\ cand' = cand /\ op[p] \in {"pop_first", "clear"}
  BY <1>1, WhichCall DEF Take, SlotInv
<1>3. cand[p] # None /\ cand[p].at \in Slots
  BY <1>1, CandidateKey DEF SlotInv, LocalInv, LocalOK
<1>4. /\ Occupied(cand[p].at) /\ word[cand[p].at].ver = cand[p].ver
      /\ entry[cand[p].at].key = cand[p].key
  <2>1. Occupied(cand[p].at)
    BY <1>1, <1>3 DEF SlotInv, HolderInv, Holds, Occupied
  <2>2. word[cand[p].at].ver = cand[p].ver
    BY <1>1 DEF SlotInv, EntryInv
  <2> QED BY <1>3, <2>1, <2>2 DEF SlotInv, EntryInv
<1>5. EntryOf(cand[p]) = entry[cand[p].at] /\ entry[cand[p].at] \in AbsEntries
  BY <1>3, <1>4, EntryShown DEF EntryOf
<1>6. Seen(p) = EntryOf(cand[p]) /\ Seen(p)' = Seen(p)
  BY <1>1, <1>2 DEF Seen, EntryOf
<1>7. AbsEntries' = AbsEntries \ {entry[cand[p].at]} /\ global_version' = global_version
  <2>1. entry' = entry /\ global_version' = global_version
    BY DEF Take
  <2>2. \A j \in Slots : Occupied(j)' <=> Occupied(j) /\ j # cand[p].at
    BY <1>3 DEF Take, Occupied, EMPTY, SlotInv, TypeOK
  <2>3. AbsEntries' = Besides(cand[p].at)
    BY <2>1, <2>2 DEF AbsEntries, Besides
  <2> QED BY <1>3, <1>4, <2>1, <2>3, BesidesIs
<1>8. EffectOf(p) = "due" /\ EffectOf(p)' = "past"
  BY <1>1 DEF EffectOf
<1>9. AbsOf(p)' = [AbsOf(p) EXCEPT !.effect = "past"]
  BY <1>2, <1>6, <1>8, Shows DEF SameCall
<1>10. /\ AbsCall[p] = AbsOf(p)
       /\ AbsCall' = [AbsCall EXCEPT ![p] = [AbsOf(p) EXCEPT !.effect = "past"]]
  BY <1>9, CallChanges
<1>11. AbsCall[p].op = op[p] /\ AbsCall[p].effect = "due" /\ AbsCall[p].found = entry[cand[p].at]
  BY <1>5, <1>6, <1>8, <1>10 DEF AbsOf
<1> HIDE DEF AbsCall
<1>12. /\ AbsCall[p].op \in {"pop_first", "clear"} /\ AbsCall[p].effect = "due"
       /\ AbsCall[p].found \in AbsEntries /\ AbsEntries' = AbsEntries \ {AbsCall[p].found}
       /\ AbsCall' = [AbsCall EXCEPT ![p] = [AbsCall[p] EXCEPT !.effect = "past"]]
  BY <1>2, <1>5, <1>7, <1>10, <1>11
<1> QED BY <1>7, <1>12
        DEF Abstract!Remove, Abstract!To, AbsCall, AbsOf, Seen, EffectOf, AbsEntries

\* clear
LEMMA ResumeRefines ==
  ASSUME SlotInv, NEW p \in Procs, Mine(p), Effect(p), Resume(p), op[p] = "clear",
         pc[p] \notin {"idle", "update", "write", "take"}
  PROVE  Abstract!See(p) \/ Abstract!Again(p) \/ Abstract!Return(p)
<1>1. CASE Leave(p)
  BY <1>1, Returns, MapAssumption DEF Operations
<1>2. CASE ~Leave(p)
  <2>1. op' = op /\ key' = key /\ ver' = ver /\ Goto(p, "visit")
    BY <1>2 DEF Resume
  <2>2. cand'[p] = None /\ pc'[p] = "visit"
    BY <2>1, ResumeDoes, Goes DEF SlotInv
  <2>3. Seen(p)' = None /\ EffectOf(p)' = "due"
    BY <2>1, <2>2 DEF Seen, EffectOf, EntryOf
  <2>4. AbsOf(p)' = [AbsOf(p) EXCEPT !.found = None, !.effect = "due"]
    BY <2>1, <2>3, ShowsAgain DEF SameCall
  <2>5. /\ AbsCall[p] = AbsOf(p) /\ AbsCall[p].op = "clear"
        /\ AbsCall' = [AbsCall EXCEPT ![p] = [AbsOf(p) EXCEPT !.found = None, !.effect = "due"]]
    BY <2>4, CallChanges DEF AbsOf
  <2>6. AbsEntries' = AbsEntries /\ global_version' = global_version
    BY EntriesSame
  <2> HIDE DEF AbsCall
  <2>7. AbsCall' = [AbsCall EXCEPT ![p] = [AbsCall[p] EXCEPT !.found = None, !.effect = "due"]]
    BY <2>5
  <2>8. Abstract!Again(p)
    BY <2>5, <2>6, <2>7
       DEF Abstract!Again, Abstract!To, AbsCall, AbsOf, Seen, EffectOf, AbsEntries
  <2> QED BY <2>8
<1> QED BY <1>1, <1>2

LEMMA VisitRefines ==
  ASSUME SlotInv, NEW p \in Procs, Mine(p), Effect(p), Visit(p) \/ PutBack(p) \/ Uncount(p)
  PROVE  \/ Abstract!See(p) \/ Abstract!Again(p) \/ Abstract!Return(p)
         \/ UNCHANGED Abstract!absVars
<1>1. op[p] = "clear" /\ pc[p] \in {"visit", "restore", "discount"}
  BY WhichCall DEF Visit, PutBack, Uncount, SlotInv
<1>2. CASE Resume(p)
  BY <1>1, <1>2, ResumeRefines
<1>3. CASE ~Resume(p)
  <2>1. op' = op /\ key' = key /\ ver' = ver /\ cand' = cand /\ pc[p] = "visit"
    BY <1>3 DEF Visit, PutBack, Uncount
  <2>2. pc'[p] = "seize"
    BY <1>3, Goes DEF Visit, PutBack, Uncount, SlotInv
  <2>3. Seen(p)' = Seen(p) /\ EffectOf(p)' = EffectOf(p)
    BY <2>1, <2>2 DEF Seen, EffectOf, EntryOf
  <2> QED BY <2>1, <2>3, Stutters DEF SameCall
<1> QED BY <1>2, <1>3

LEMMA SeizeRefines ==
  ASSUME SlotInv, NEW p \in Procs, Mine(p), Effect(p), Seize(p)
  PROVE  Abstract!See(p) \/ Abstract!Again(p) \/ Abstract!Return(p)
<1>1. op[p] = "clear" /\ pc[p] = "seize"
  BY WhichCall DEF Seize, SlotInv
<1>2. CASE Resume(p)
  BY <1>1, <1>2, ResumeRefines
<1>3. CASE ~Resume(p)
  <2> DEFINE c == [key |-> entry[at[p]].key, ver |-> old[p], at |-> at[p]]
  <2>1. at[p] \in Slots /\ cand \in [Procs -> Candidates \cup {None}]
    BY DEF SlotInv, TypeOK
  <2>2. /\ op' = op /\ key' = key /\ ver' = ver /\ ValidNow(at[p]) /\ cand'[p] = c
        /\ Goto(p, IF word[at[p]].ver = old[p] THEN "take" ELSE "restore")
    BY <1>3, <2>1 DEF Seize, Locks
  <2>3. pc'[p] = IF word[at[p]].ver = old[p] THEN "take" ELSE "restore"
    BY <2>2, Goes DEF SlotInv
  <2>4. EffectOf(p) = "due" /\ EffectOf(p)' = "due"
    BY <1>1, <2>3 DEF EffectOf
  <2>5. Seen(p)' \in AbsEntries \cup {None}
    <3>1. CASE word[at[p]].ver = old[p]
      <4>1. Occupied(at[p]) /\ c = [key |-> entry[at[p]].key, ver |-> word[at[p]].ver, at |-> at[p]]
        BY <2>2, <3>1 DEF Occupied, ValidNow
      <4>2. EntryOf(c) = entry[at[p]] /\ entry[at[p]] \in AbsEntries
        BY <2>1, <4>1, NewCandidate, EntryShown
      <4>3. Seen(p)' = EntryOf(c)
        BY <2>2, <2>3, <3>1 DEF Seen, EntryOf
      <4> QED BY <4>2, <4>3
    <3>2. CASE word[at[p]].ver # old[p]
      BY <1>1, <2>2, <2>3, <3>2 DEF Seen
    <3> QED BY <3>1, <3>2
  <2> QED BY <1>1, <2>2, <2>4, <2>5, Sees DEF SameCall, Abstract!Readers
<1> QED BY <1>2, <1>3

\* A caller that ends its call has left it, and so holds nothing.
LEMMA LeavesOnly ==
  ASSUME SlotInv, NEW p \in Procs, Step(p), op'[p] = None
  PROVE  Leave(p)
<1> USE DEF SlotInv
<1>1. CASE Insert(p) \/ Pop(p) \/ FirstKeyValue(p) \/ Clear(p)
  <2>1. \E o \in Operations : op' = [op EXCEPT ![p] = o]
    BY <1>1 DEF Insert, Pop, FirstKeyValue, Clear, Call, Operations
  <2> QED BY <2>1, MapAssumption DEF TypeOK
<1>2. pc[p] # "idle" => op' # op
  BY Steps DEF LocalInv, LocalOK, TypeOK
<1>3. CASE Look(p) \/ Read(p) \/ Lock(p) \/ Unlock(p) \/ Place(p) \/ Write(p)
  BY <1>2, <1>3 DEF Look, Read, Lock, Unlock, Place, Write
<1>4. CASE Update(p) \/ PlaceFails(p) \/ Count(p)
  BY <1>2, <1>4 DEF Update, PlaceFails, Count
<1>5. CASE Scan(p) \/ Confirm(p) \/ Take(p)
  BY <1>2, <1>5 DEF Scan, Confirm, Take
<1>6. CASE Choose(p) \/ Restore(p)
  <2>1. NextRound(p) => op' = op \/ Leave(p)
    BY DEF NextRound
  <2> QED BY <1>2, <1>6, <2>1 DEF Choose, Restore
<1>7. CASE Discount(p) \/ Report(p)
  BY <1>7 DEF Discount, Report
<1>8. CASE Visit(p) \/ Seize(p) \/ PutBack(p) \/ Uncount(p)
  <2>1. Resume(p) => op' = op \/ Leave(p)
    BY DEF Resume
  <2> QED BY <1>2, <1>8, <2>1 DEF Visit, Seize, PutBack, Uncount
<1> QED BY <1>1, <1>3, <1>4, <1>5, <1>6, <1>7, <1>8
        DEF Step, InsertStep, PopStep, FirstStep, ClearStep

LEMMA IdleInvNext == SlotInv /\ IdleInv /\ [Next]_vars => IdleInv'
<1> SUFFICES ASSUME SlotInv, IdleInv, [Next]_vars PROVE IdleInv'
  OBVIOUS
<1>1. CASE UNCHANGED vars
  BY <1>1 DEF vars, IdleInv, AbsOf, Seen, EffectOf, EntryOf
<1>2. ASSUME NEW p \in Procs, Step(p), NEW q \in Procs, op'[q] = None
      PROVE  AbsOf(q)' = Abstract!NoCall
  <2>1. Mine(p)
    BY <1>2, StepEffect
  <2>2. CASE q = p
    BY <1>2, <2>2, LeavesOnly, LeaveShows DEF SlotInv
  <2>3. CASE q # p
    <3>1. AbsOf(q)' = AbsOf(q) /\ op[q] = None
      BY <1>2, <2>1, <2>3 DEF Mine, AbsOf, Seen, EffectOf, EntryOf
    <3> QED BY <3>1 DEF IdleInv
  <2> QED BY <2>2, <2>3
<1>3. CASE Next
  <2>1. PICK p \in Procs : Step(p)
    BY <1>3 DEF Next, Step
  <2>2. \A q \in Procs : op'[q] = None => AbsOf(q)' = Abstract!NoCall
    BY <1>2, <2>1
  <2>3. IdleInv' <=> \A q \in Procs : op'[q] = None => AbsOf(q)' = Abstract!NoCall
    BY DEF IdleInv, Abstract!NoCall
  <2> QED BY <2>2, <2>3
<1> QED BY <1>1, <1>3

LEMMA MapInit == Init => IdleInv /\ Abstract!AbsInit
<1> SUFFICES ASSUME Init PROVE IdleInv /\ Abstract!AbsInit
  OBVIOUS
<1>1. \A p \in Procs : AbsOf(p) = Abstract!NoCall
  <2> TAKE p \in Procs
  <2>1. op[p] = None /\ key[p] = None /\ ver[p] = 0 /\ cand[p] = None /\ pc[p] = "idle"
    BY DEF Init
  <2>2. Seen(p) = None /\ EffectOf(p) = "due"
    BY <2>1 DEF Seen, EffectOf, EntryOf
  <2> HIDE DEF Seen, EffectOf
  <2> QED BY <2>1, <2>2 DEF AbsOf, Abstract!NoCall
<1>2. AbsCall = [p \in Procs |-> Abstract!NoCall]
  BY <1>1 DEF AbsCall
<1>3. AbsEntries = {} /\ global_version = 1
  BY DEF Init, AbsEntries, Occupied, EMPTY
<1> QED BY <1>1, <1>2, <1>3
        DEF IdleInv, Abstract!AbsInit, AbsCall, AbsOf, Seen, EffectOf, AbsEntries

LEMMA MapNext ==
  SlotInv /\ IdleInv /\ [Next]_vars => [Abstract!AbsNext]_(Abstract!absVars)
<1> SUFFICES ASSUME SlotInv, IdleInv, [Next]_vars
             PROVE  [Abstract!AbsNext]_(Abstract!absVars)
  OBVIOUS
<1>1. CASE UNCHANGED vars
  BY <1>1 DEF vars, Abstract!absVars, Occupied, EntryOf
<1>2. CASE Next
  <2>1. PICK p \in Procs : Step(p)
    BY <1>2 DEF Next, Step
  <2>2. Mine(p) /\ Effect(p)
    BY <2>1, StepEffect
  <2>3. CASE InsertStep(p)
    <3>1. \/ UNCHANGED Abstract!absVars
          \/ Abstract!BeginInsert(p) \/ Abstract!Begin(p) \/ Abstract!Add(p) \/ Abstract!Replace(p)
          \/ Abstract!Return(p)
      BY <2>2, <2>3, BeginRefines, InsertStutters, UpdateRefines, WriteRefines, ReturnRefines
         DEF InsertStep
    <3> QED BY <3>1 DEF Abstract!AbsNext
  <2>4. CASE PopStep(p) \/ FirstStep(p)
    <3>1. \/ UNCHANGED Abstract!absVars
          \/ Abstract!BeginInsert(p) \/ Abstract!Begin(p) \/ Abstract!See(p) \/ Abstract!Remove(p)
          \/ Abstract!Return(p)
      BY <2>2, <2>4, BeginRefines, ScanStutters, ConfirmRefines, ChooseRefines, TakeRefines,
         ReturnRefines DEF PopStep, FirstStep
    <3> QED BY <3>1 DEF Abstract!AbsNext
  <2>5. CASE ClearStep(p)
    <3>1. \/ UNCHANGED Abstract!absVars
          \/ Abstract!BeginInsert(p) \/ Abstract!Begin(p) \/ Abstract!See(p) \/ Abstract!Again(p)
          \/ Abstract!Return(p)
      BY <2>2, <2>5, BeginRefines, VisitRefines, SeizeRefines DEF ClearStep
    <3> QED BY <3>1 DEF Abstract!AbsNext
  <2> QED BY <2>1, <2>3, <2>4, <2>5 DEF Step
<1> QED BY <1>1, <1>2

\* The lock-free map is an implementation of EntryMap, for any number of
\* callers, keys and slots: the effect of a call on the entries comes at one
\* instant, between its beginning and its return, and a removal takes the very
\* entry its caller saw.
THEOREM MapImplemented == Spec => ImplementsMap
<1>1. Init => Abstract!AbsInit /\ IdleInv
  BY MapInit
<1>2. SlotInv /\ IdleInv /\ [Next]_vars => IdleInv'
  BY IdleInvNext
<1>3. SlotInv /\ IdleInv /\ [Next]_vars => [Abstract!AbsNext]_(Abstract!absVars)
  BY MapNext
<1> QED BY <1>1, <1>2, <1>3, SlotsConsistent, PTL DEF Spec, ImplementsMap, Abstract!AbsSpec
=============================================================================

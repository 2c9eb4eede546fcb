-------------------------- MODULE LockFreeBTreeMap --------------------------
(***************************************************************************)
(* utils/src/btreemap.rs: the map under the CFS ready queue.  CAPACITY     *)
(* slots in no order, each with one atomic word (state, version) and an    *)
(* entry; global_version numbers the insertions, and the number is the     *)
(* entry's insert version and the slot's version alike (they wrap at 2^32  *)
(* in the code, not here).  It also stands for the value inserted.         *)
(*                                                                         *)
(* Two loads of the word around the reading of an entry decide whether the *)
(* reading counts.  An entry changes only while its slot is WRITING or     *)
(* DELETING and no version comes twice, so the reading and the second load *)
(* are one step; what a lock holder does to the entry and the store that   *)
(* releases the lock are one step too.                                     *)
(***************************************************************************)
EXTENDS Integers, FiniteSets

CONSTANTS Procs, Keys, None,
          Allowed,     \* [Procs -> SUBSET Operations]
          CAPACITY,
          MAX_RETRIES, \* rounds of pop_first
          Shared,      \* keys that may be inserted while they are in the map
          MaxVersion   \* bound on global_version

Operations == {"insert", "pop_first", "first_key_value", "clear"}
Slots == 0..CAPACITY-1
Candidates == [key : Keys, ver : Nat, at : Slots]

ASSUME MapAssumption ==
  /\ CAPACITY \in Nat \ {0} /\ MAX_RETRIES \in Nat \ {0}
  /\ Keys \subseteq Nat /\ Shared \subseteq Keys
  /\ Allowed \in [Procs -> SUBSET Operations]
  /\ None \notin Operations /\ None \notin Keys /\ None \notin Candidates

VARIABLES word,   \* slot_states: slot -> [st, ver]
          entry,  \* storage: slot -> [key, ver], also when nothing is valid
          len,    \* the counter; an AtomicUsize that may pass below zero
          global_version,
          op, pc,             \* per process: operation and step
          key, ver,           \* key and version to insert
          at, round,          \* slot of the scan, round of the retry loop
          old, cand,          \* version loaded; what the scan or the lock found
          out,    \* keys outside the map and outside every call
          stood,  \* history: versions VALID ever since the scan began
          beaten  \* history: another caller has locked a slot since then

vars == <<word, entry, len, global_version, op, pc, key, ver, at, round, old, cand,
          out, stood, beaten>>
shared == <<word, entry, len, global_version, out>>

EMPTY == [st |-> "EMPTY", ver |-> 0]
VALID(v) == [st |-> "VALID", ver |-> v]
ValidNow(i) == word[i].st = "VALID"

\* The order of find_min_by: by key, then by insert version.
Less(a, b) == a.key < b.key \/ (a.key = b.key /\ a.ver < b.ver)

\* find_min_by over the candidates pushed so far, of which `best` was the first of the
\* smallest, and c.
Smallest(best, c) == IF best = None \/ Less(c, best) THEN c ELSE best

Versions == {word[i].ver : i \in {j \in Slots : ValidNow(j)}}

Init ==
  /\ word = [i \in Slots |-> EMPTY]
  /\ entry = [i \in Slots |-> [key |-> None, ver |-> 0]]
  /\ len = 0
  /\ global_version = 1
  /\ op = [p \in Procs |-> None]
  /\ pc = [p \in Procs |-> "idle"]
  /\ key = [p \in Procs |-> None]
  /\ ver = [p \in Procs |-> 0]
  /\ at = [p \in Procs |-> 0]
  /\ round = [p \in Procs |-> 0]
  /\ old = [p \in Procs |-> 0]
  /\ cand = [p \in Procs |-> None]
  /\ out = Keys
  /\ stood = [p \in Procs |-> {}]
  /\ beaten = [p \in Procs |-> FALSE]

Goto(p, l) == pc' = [pc EXCEPT ![p] = l]

\* Process p, which is in no call, calls o, which begins with step l.
Call(p, o, l) ==
  /\ pc[p] = "idle" /\ o \in Allowed[p]
  /\ op' = [op EXCEPT ![p] = o]
  /\ Goto(p, l)

\* From slot at[p], whose turn is over, to the next one, or to step `last`.
NextSlot(p, here, last) ==
  IF at[p] + 1 < CAPACITY
  THEN Goto(p, here) /\ at' = [at EXCEPT ![p] = @ + 1]
  ELSE Goto(p, last) /\ at' = [at EXCEPT ![p] = 0]

Leave(p) ==
  /\ Goto(p, "idle")
  /\ op' = [op EXCEPT ![p] = None]
  /\ key' = [key EXCEPT ![p] = None] /\ ver' = [ver EXCEPT ![p] = 0]
  /\ at' = [at EXCEPT ![p] = 0] /\ round' = [round EXCEPT ![p] = 0]
  /\ old' = [old EXCEPT ![p] = 0] /\ cand' = [cand EXCEPT ![p] = None]

-----------------------------------------------------------------------------
(* insert, phase 1: update the entry of an equal key                       *)

Insert(p) ==
  /\ Call(p, "insert", "look") /\ global_version < MaxVersion
  /\ \E k \in out \cup Shared :
       /\ key' = [key EXCEPT ![p] = k]
       /\ out' = out \ {k}
  /\ ver' = [ver EXCEPT ![p] = global_version]
  /\ global_version' = global_version + 1
  /\ UNCHANGED <<word, entry, len, at, round, old, cand>>

\* Faulty variant of Look: the first slot that is not valid ends the phase.
LookStops(p) ==
  /\ pc[p] = "look"
  /\ IF ValidNow(at[p])
     THEN Goto(p, "read") /\ old' = [old EXCEPT ![p] = word[at[p]].ver] /\ UNCHANGED at
     ELSE Goto(p, "place") /\ at' = [at EXCEPT ![p] = 0] /\ UNCHANGED old
  /\ UNCHANGED <<shared, op, key, ver, round, cand>>

\* get_version_if_valid
Look(p) ==
  /\ pc[p] = "look"
  /\ IF ValidNow(at[p])
     THEN Goto(p, "read") /\ old' = [old EXCEPT ![p] = word[at[p]].ver] /\ UNCHANGED at
     ELSE NextSlot(p, "look", "place") /\ UNCHANGED old
  /\ UNCHANGED <<shared, op, key, ver, round, cand>>

\* entry.key == key && entry.slot_version == version.  The entry may be
\* written meanwhile, and then the comparison may go either way.
Torn(i) == \E q \in Procs : pc[q] \in {"update", "write"} /\ at[q] = i
Matches(p) == entry[at[p]] = [key |-> key[p], ver |-> old[p]]
Read(p) ==
  /\ pc[p] = "read"
  /\ \/ /\ Matches(p) \/ Torn(at[p])
        /\ Goto(p, "lock") /\ UNCHANGED at
     \/ /\ ~Matches(p) \/ Torn(at[p])
        /\ NextSlot(p, "look", "place")
  /\ UNCHANGED <<shared, op, key, ver, round, old, cand>>

\* try_lock_for_delete of slot i by a caller that has seen version v there.  Its compare-
\* exchange may fail on a valid slot too, if the slot changed after it was loaded.
Locks(i) == ValidNow(i) /\ word' = [word EXCEPT ![i].st = "DELETING"]
LockFails(i, v) == word[i] # VALID(v) /\ UNCHANGED word

\* The lock, and the second check of the version.
Lock(p) ==
  /\ pc[p] = "lock"
  /\ \/ /\ Locks(at[p])
        /\ Goto(p, IF word[at[p]].ver = old[p] THEN "update" ELSE "unlock")
        /\ UNCHANGED at
     \/ /\ LockFails(at[p], old[p])
        /\ NextSlot(p, "look", "place")
  /\ UNCHANGED <<entry, len, global_version, out, op, key, ver, round, old, cand>>

\* The new entry, then mark_valid.
Fill(p) ==
  /\ entry' = [entry EXCEPT ![at[p]] = [key |-> key[p], ver |-> ver[p]]]
  /\ word' = [word EXCEPT ![at[p]] = VALID(ver[p])]

\* Faulty variant of Update: the entry is counted again.
UpdateCounts(p) ==
  /\ pc[p] = "update"
  /\ Fill(p)
  /\ Goto(p, "count")
  /\ UNCHANGED <<len, global_version, out, op, key, ver, at, round, old, cand>>

Update(p) ==
  /\ pc[p] = "update"
  /\ Fill(p)
  /\ Leave(p)
  /\ UNCHANGED <<len, global_version, out>>

\* The break after mark_valid leaves the loop of phase 1 for phase 2.
Unlock(p) ==
  /\ pc[p] = "unlock"
  /\ word' = [word EXCEPT ![at[p]].st = "VALID"]
  /\ Goto(p, "place")
  /\ at' = [at EXCEPT ![p] = 0]
  /\ UNCHANGED <<entry, len, global_version, out, op, key, ver, round, old, cand>>

-----------------------------------------------------------------------------
(* insert, phase 2: take a free slot                                       *)

\* Faulty variant of Place: a slot that another insert is writing is taken.
PlaceWriting(p) ==
  /\ pc[p] = "place"
  /\ word[at[p]].st \in {"EMPTY", "WRITING"}
  /\ word' = [word EXCEPT ![at[p]] = [st |-> "WRITING", ver |-> ver[p]]]
  /\ Goto(p, "write")
  /\ UNCHANGED <<entry, len, global_version, out, op, key, ver, at, round, old, cand>>

\* try_lock_for_write; after CAPACITY rounds over all slots the call fails.
Place(p) ==
  /\ pc[p] = "place"
  /\ word[at[p]] = EMPTY
  /\ word' = [word EXCEPT ![at[p]] = [st |-> "WRITING", ver |-> ver[p]]]
  /\ Goto(p, "write")
  /\ UNCHANGED <<entry, len, global_version, out, op, key, ver, at, round, old, cand>>

PlaceFails(p) ==
  /\ pc[p] = "place"
  /\ word[at[p]] # EMPTY
  /\ IF at[p] + 1 < CAPACITY \/ round[p] + 1 < CAPACITY
     THEN /\ NextSlot(p, "place", "look")
          /\ round' = [round EXCEPT ![p] = @ + (IF at[p] + 1 < CAPACITY THEN 0 ELSE 1)]
          /\ UNCHANGED <<op, key, ver, old, cand, out>>
     ELSE Leave(p) /\ out' = out \cup {key[p]}
  /\ UNCHANGED <<word, entry, len, global_version>>

Write(p) ==
  /\ pc[p] = "write"
  /\ Fill(p)
  /\ Goto(p, "count")
  /\ UNCHANGED <<len, global_version, out, op, key, ver, at, round, old, cand>>

Count(p) ==
  /\ pc[p] = "count"
  /\ len' = len + 1
  /\ Leave(p)
  /\ UNCHANGED <<word, entry, global_version, out>>

-----------------------------------------------------------------------------
(* pop_first                                                               *)

Pop(p) ==
  /\ Call(p, "pop_first", "scan")
  /\ UNCHANGED <<shared, key, ver, at, round, old, cand>>

\* Faulty variant of Scan: it ends at the first slot that is not valid.
ScanStops(p) ==
  /\ pc[p] = "scan"
  /\ IF ValidNow(at[p])
     THEN Goto(p, "confirm") /\ old' = [old EXCEPT ![p] = word[at[p]].ver] /\ UNCHANGED at
     ELSE Goto(p, "choose") /\ UNCHANGED <<at, old>>
  /\ UNCHANGED <<shared, op, key, ver, round, cand>>

\* Phase 1: one candidate per slot that is valid with one version before and
\* after its entry is read; cand keeps the smallest.
Scan(p) ==
  /\ pc[p] = "scan"
  /\ IF ValidNow(at[p])
     THEN Goto(p, "confirm") /\ old' = [old EXCEPT ![p] = word[at[p]].ver] /\ UNCHANGED at
     ELSE NextSlot(p, "scan", "choose") /\ UNCHANGED old
  /\ UNCHANGED <<shared, op, key, ver, round, cand>>

Confirm(p) ==
  /\ pc[p] = "confirm"
  /\ LET c == [key |-> entry[at[p]].key, ver |-> old[p], at |-> at[p]] IN
     cand' = IF word[at[p]] = VALID(old[p])
             THEN [cand EXCEPT ![p] = Smallest(@, c)] ELSE cand
  /\ NextSlot(p, "scan", "choose")
  /\ UNCHANGED <<shared, op, key, ver, round, old>>

\* Faulty variant of NextRound: the candidates of the lost round are kept.
NextRoundKeeps(p) ==
  /\ IF round[p] + 1 < MAX_RETRIES
     THEN /\ Goto(p, "scan")
          /\ round' = [round EXCEPT ![p] = @ + 1]
          /\ UNCHANGED <<op, key, ver, at, old, cand>>
     ELSE Leave(p)

\* Phase 2: no candidate, or lock the slot of the smallest one.  A lock that
\* finds the slot busy starts a new round.
NextRound(p) ==
  /\ IF round[p] + 1 < MAX_RETRIES
     THEN /\ Goto(p, "scan")
          /\ round' = [round EXCEPT ![p] = @ + 1]
          /\ cand' = [cand EXCEPT ![p] = None]
          /\ UNCHANGED <<op, key, ver, at, old>>
     ELSE Leave(p)

Choose(p) ==
  /\ pc[p] = "choose" /\ op[p] = "pop_first"
  /\ \/ cand[p] = None /\ Leave(p) /\ UNCHANGED word
     \/ /\ cand[p] # None
        /\ Locks(cand[p].at)
        /\ Goto(p, IF word[cand[p].at].ver = cand[p].ver THEN "take" ELSE "restore")
        /\ UNCHANGED <<op, key, ver, at, round, old, cand>>
     \/ /\ cand[p] # None
        /\ LockFails(cand[p].at, cand[p].ver)
        /\ NextRound(p)
  /\ UNCHANGED <<entry, len, global_version, out>>

Restore(p) ==
  /\ pc[p] = "restore" /\ op[p] = "pop_first"
  /\ word' = [word EXCEPT ![cand[p].at].st = "VALID"]
  /\ NextRound(p)
  /\ UNCHANGED <<entry, len, global_version, out>>

Take(p) ==
  /\ pc[p] = "take"
  /\ word' = [word EXCEPT ![cand[p].at] = EMPTY]
  /\ Goto(p, "discount")
  /\ UNCHANGED <<entry, len, global_version, out, op, key, ver, at, round, old, cand>>

Discount(p) ==
  /\ pc[p] = "discount" /\ op[p] = "pop_first"
  /\ len' = len - 1
  /\ out' = out \cup {cand[p].key}
  /\ Leave(p)
  /\ UNCHANGED <<word, entry, global_version>>

-----------------------------------------------------------------------------
(* first_key_value: phase 1 of pop_first once, and its result              *)

FirstKeyValue(p) ==
  /\ Call(p, "first_key_value", "scan")
  /\ UNCHANGED <<shared, key, ver, at, round, old, cand>>

Report(p) ==
  /\ pc[p] = "choose" /\ op[p] = "first_key_value"
  /\ Leave(p)
  /\ UNCHANGED shared

-----------------------------------------------------------------------------
(* clear: every slot in turn is emptied                                    *)

Clear(p) ==
  /\ Call(p, "clear", "visit")
  /\ UNCHANGED <<shared, key, ver, at, round, old, cand>>

\* On to the next slot, or the end of the call.
Resume(p) ==
  IF at[p] + 1 < CAPACITY
  THEN /\ Goto(p, "visit") /\ at' = [at EXCEPT ![p] = @ + 1]
       /\ cand' = [cand EXCEPT ![p] = None] /\ old' = [old EXCEPT ![p] = 0]
       /\ UNCHANGED <<op, key, ver, round>>
  ELSE Leave(p)

Visit(p) ==
  /\ pc[p] = "visit"
  /\ IF ValidNow(at[p])
     THEN /\ Goto(p, "seize") /\ old' = [old EXCEPT ![p] = word[at[p]].ver]
          /\ UNCHANGED <<op, key, ver, at, round, cand>>
     ELSE Resume(p)
  /\ UNCHANGED shared

\* Faulty variant of Seize: what is in the slot is removed, seen before or not.
SeizeUnseen(p) ==
  /\ pc[p] = "seize"
  /\ LET i == at[p] IN
     \/ /\ Locks(i)
        /\ cand' = [cand EXCEPT ![p] = [key |-> entry[i].key, ver |-> old[p], at |-> i]]
        /\ Goto(p, "take")
        /\ UNCHANGED <<op, key, ver, at, round, old>>
     \/ LockFails(i, old[p]) /\ Resume(p)
  /\ UNCHANGED <<entry, len, global_version, out>>

\* Only the entry that was seen is removed, not one that replaced it.
Seize(p) ==
  /\ pc[p] = "seize"
  /\ LET i == at[p] IN
     \/ /\ Locks(i)
        /\ cand' = [cand EXCEPT ![p] = [key |-> entry[i].key, ver |-> old[p], at |-> i]]
        /\ Goto(p, IF word[i].ver = old[p] THEN "take" ELSE "restore")
        /\ UNCHANGED <<op, key, ver, at, round, old>>
     \/ LockFails(i, old[p]) /\ Resume(p)
  /\ UNCHANGED <<entry, len, global_version, out>>

PutBack(p) ==
  /\ pc[p] = "restore" /\ op[p] = "clear"
  /\ word' = [word EXCEPT ![cand[p].at].st = "VALID"]
  /\ Resume(p)
  /\ UNCHANGED <<entry, len, global_version, out>>

Uncount(p) ==
  /\ pc[p] = "discount" /\ op[p] = "clear"
  /\ len' = len - 1
  /\ out' = out \cup {cand[p].key}
  /\ Resume(p)
  /\ UNCHANGED <<word, entry, global_version>>

-----------------------------------------------------------------------------
InsertStep(p) == \/ Insert(p) \/ Look(p) \/ Read(p) \/ Lock(p) \/ Update(p) \/ Unlock(p)
                 \/ Place(p) \/ PlaceFails(p) \/ Write(p) \/ Count(p)
PopStep(p) == \/ Pop(p) \/ Scan(p) \/ Confirm(p) \/ Choose(p) \/ Restore(p)
              \/ Take(p) \/ Discount(p)
FirstStep(p) == FirstKeyValue(p) \/ Report(p)
ClearStep(p) == Clear(p) \/ Visit(p) \/ Seize(p) \/ PutBack(p) \/ Uncount(p)

\* The rounds of a scan, and the scan of insert's phase 1, with their start.
Scanning == {"scan", "confirm", "choose"}
Looking == {"look", "read", "lock"}
Starts(p) == \/ pc'[p] = "scan" /\ (pc[p] \notin Scanning \/ round'[p] # round[p])
             \/ pc'[p] = "look" /\ pc[p] \notin Looking
LockedBy(q) == \E i \in Slots : word'[i].st = "DELETING" /\ word[i].st = "VALID" /\ pc'[q] # pc[q]

Remember ==
  /\ stood' = [p \in Procs |->
       IF Starts(p) THEN Versions'
       ELSE IF pc'[p] \in Scanning \cup Looking THEN stood[p] \cap Versions' ELSE {}]
  /\ beaten' = [p \in Procs |->
       IF Starts(p) \/ op'[p] # "pop_first" THEN FALSE
       ELSE beaten[p] \/ \E q \in Procs \ {p} : LockedBy(q)]

Next ==
  /\ \E p \in Procs : InsertStep(p) \/ PopStep(p) \/ FirstStep(p) \/ ClearStep(p)
  /\ Remember
Spec == Init /\ [][Next]_vars

-----------------------------------------------------------------------------
(* Properties                                                              *)

Labels == {"idle", "look", "read", "lock", "update", "unlock", "place", "write", "count",
           "scan", "confirm", "choose", "restore", "take", "discount", "visit", "seize"}

TypeOK ==
  /\ word \in [Slots -> [st : {"EMPTY", "WRITING", "VALID", "DELETING"}, ver : Nat]]
  /\ entry \in [Slots -> [key : Keys \cup {None}, ver : Nat]]
  /\ len \in Int /\ global_version \in Nat \ {0} /\ out \subseteq Keys
  /\ op \in [Procs -> Operations \cup {None}] /\ pc \in [Procs -> Labels]
  /\ key \in [Procs -> Keys \cup {None}] /\ ver \in [Procs -> Nat]
  /\ at \in [Procs -> Slots] /\ round \in [Procs -> Nat]
  /\ old \in [Procs -> Nat] /\ cand \in [Procs -> Candidates \cup {None}]
  /\ stood \in [Procs -> SUBSET Nat] /\ beaten \in [Procs -> BOOLEAN]

Inserting == {"look", "read", "lock", "update", "unlock", "place", "write"}
Occupied(i) == word[i].st \in {"VALID", "DELETING"}
SlotsOf(k) == {i \in Slots : Occupied(i) /\ entry[i].key = k}
Inserters(k) == {p \in Procs : pc[p] \in Inserting /\ key[p] = k}
Poppers(k) == {p \in Procs : pc[p] = "discount" /\ cand[p].key = k}

\* An entry (a ready task) whose key is inserted once at a time, as CFS does,
\* is in one place: outside, on its way in, in one slot, or in the hands of
\* the one pop that took it.
EveryEntryOnce ==
  \A k \in Keys \ Shared :
    Cardinality(SlotsOf(k)) + Cardinality(Inserters(k)) + Cardinality(Poppers(k))
    + (IF k \in out THEN 1 ELSE 0) = 1

\* A busy slot is in the hands of one operation.
OneHolder ==
  \A i \in Slots :
    LET holders == {p \in Procs :
          \/ pc[p] \in {"update", "unlock", "write"} /\ at[p] = i
          \/ pc[p] \in {"take", "restore"} /\ cand[p].at = i}
    IN  Cardinality(holders) = (IF word[i].st \in {"WRITING", "DELETING"} THEN 1 ELSE 0)

\* The counter differs from the number of occupied slots by the operations
\* that have not updated it yet: is_empty() is wrong for no longer than that.
LenAccounts ==
  len = Cardinality({i \in Slots : Occupied(i)})
        - Cardinality({p \in Procs : pc[p] = "count"})
        + Cardinality({p \in Procs : pc[p] = "discount"})

\* What a scan of pop_first or first_key_value ends with while other callers insert, update and
\* remove entries: no entry that was in the map during the whole scan, and
\* still is, comes before the chosen one; with no choice there is none.
ScanFindsLeast ==
  \A p \in Procs : pc[p] = "choose" =>
    \A i \in Slots : ValidNow(i) /\ word[i].ver \in stood[p] =>
      cand[p] # None /\ ~Less(entry[i], cand[p])

\* insert goes on to take a free slot only if no entry with its key was in the
\* map during the whole of phase 1, unless it met a slot that changed under it:
\* then a key may be in the map twice.
InsertFindsKey ==
  [][\A p \in Procs : pc[p] \in Looking /\ pc'[p] = "place" =>
       ~\E i \in Slots : /\ word[i].ver \in stood[p] /\ ValidNow(i)
                         /\ entry[i].key = key[p]]_vars

\* A round of pop_first is lost only to another caller that locked a slot
\* during it; so the None after MAX_RETRIES rounds, which a caller cannot tell
\* from the None of an empty map, takes as many locks of other callers.
RoundLostToOther ==
  [][\A p \in Procs :
       /\ op[p] = "pop_first" /\ cand[p] # None
       /\ pc[p] = "restore" \/ (pc[p] = "choose" /\ pc'[p] \in {"scan", "idle"})
       => beaten[p]]_vars

\* A call takes effect at one instant: the store of mark_valid or mark_empty, made while the
\* slot is locked.  What a clear finds in a slot that it gives back is nothing it has seen.
EntryOf(c) == IF c = None THEN None ELSE [key |-> c.key, ver |-> c.ver]
Abstract == INSTANCE EntryMap WITH
  entries <- {entry[i] : i \in {j \in Slots : Occupied(j)}},
  next <- global_version,
  call <- [p \in Procs |->
             [op |-> op[p], key |-> key[p], ver |-> ver[p],
              found |-> IF op[p] = "clear" /\ pc[p] = "restore" THEN None ELSE EntryOf(cand[p]),
              effect |-> IF pc[p] \in {"count", "discount"} THEN "past" ELSE "due"]]
ImplementsMap == Abstract!AbsSpec
=============================================================================

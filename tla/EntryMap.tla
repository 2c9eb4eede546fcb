------------------------------ MODULE EntryMap ------------------------------
(***************************************************************************)
(* What a bounded map promises to callers that run at the same time: the   *)
(* effect of a call on the entries comes at one instant.  An insertion     *)
(* adds its entry or replaces one with an equal key; a removal takes away  *)
(* the very entry its caller has seen, which no one else has taken and no  *)
(* insertion has replaced.  Which entry a caller sees, and when a call may *)
(* fail, are properties of their own (ScanFindsLeast, InsertFindsKey and   *)
(* RoundLostToOther in LockFreeBTreeMap).                                  *)
(***************************************************************************)
EXTENDS Naturals, FiniteSets

CONSTANTS Procs,     \* callers
          Keys,      \* keys of the entries they insert
          None,      \* no call, no key, no entry
          CAPACITY   \* most entries at a time

VARIABLES entries,  \* set of [key, ver], one per insertion
          next,     \* number of the next insertion
          call      \* per caller: operation, entry to insert, entry seen, effect due or past

absVars == <<entries, next, call>>

Readers == {"pop_first", "first_key_value", "clear"}
NoCall == [op |-> None, key |-> None, ver |-> 0, found |-> None, effect |-> "due"]
Insertion(p) == [key |-> call[p].key, ver |-> call[p].ver]
To(p, c) == call' = [call EXCEPT ![p] = c]

AbsInit ==
  /\ entries = {}
  /\ next = 1
  /\ call = [p \in Procs |-> NoCall]

BeginInsert(p) ==
  /\ call[p] = NoCall
  /\ \E k \in Keys : To(p, [op |-> "insert", key |-> k, ver |-> next, found |-> None,
                            effect |-> "due"])
  /\ next' = next + 1
  /\ UNCHANGED entries

Begin(p) ==
  /\ call[p] = NoCall
  /\ \E o \in Readers : To(p, [NoCall EXCEPT !.op = o])
  /\ UNCHANGED <<entries, next>>

Add(p) ==
  /\ call[p].op = "insert" /\ call[p].effect = "due"
  /\ To(p, [call[p] EXCEPT !.effect = "past"])
  /\ Cardinality(entries) < CAPACITY
  /\ entries' = entries \cup {Insertion(p)}
  /\ UNCHANGED next

\* An insertion that replaces an entry returns at once.
Replace(p) ==
  /\ call[p].op = "insert" /\ call[p].effect = "due"
  /\ To(p, NoCall)
  /\ \E e \in entries : /\ e.key = call[p].key
                        /\ entries' = (entries \ {e}) \cup {Insertion(p)}
  /\ UNCHANGED next

See(p) ==
  /\ call[p].op \in Readers /\ call[p].effect = "due"
  /\ \E e \in entries \cup {None} : To(p, [call[p] EXCEPT !.found = e])
  /\ UNCHANGED <<entries, next>>

Remove(p) ==
  /\ call[p].op \in {"pop_first", "clear"} /\ call[p].effect = "due"
  /\ To(p, [call[p] EXCEPT !.effect = "past"])
  /\ call[p].found \in entries
  /\ entries' = entries \ {call[p].found}
  /\ UNCHANGED next

\* clear goes on to the next entry.
Again(p) ==
  /\ call[p].op = "clear"
  /\ To(p, [call[p] EXCEPT !.found = None, !.effect = "due"])
  /\ UNCHANGED <<entries, next>>

Return(p) ==
  /\ call[p].op # None
  /\ To(p, NoCall)
  /\ UNCHANGED <<entries, next>>

AbsNext == \E p \in Procs : \/ BeginInsert(p) \/ Begin(p) \/ Add(p) \/ Replace(p)
                            \/ See(p) \/ Remove(p) \/ Again(p) \/ Return(p)
AbsSpec == AbsInit /\ [][AbsNext]_absVars
=============================================================================

------------------------------- MODULE Deque -------------------------------
(***************************************************************************)
(* What a double-ended queue shared by several processes promises to its   *)
(* callers: a call that succeeds takes effect at one instant between its   *)
(* beginning and its return, at the end it names; a call that is refused   *)
(* changes nothing.  When a refusal is allowed is a property of its own    *)
(* (NoneMeansEmpty in LockFreeDeque).                                      *)
(***************************************************************************)
EXTENDS Naturals, Sequences, SequencesExt

CONSTANTS Procs,    \* callers
          Items,    \* what they push and pop
          Allowed,  \* [Procs -> sets of operations each caller uses]
          None      \* no operation, no item

VARIABLES seq,   \* the contents, front first
          out,   \* items outside the deque and outside every call
          call   \* per caller: the operation, its item, whether it took effect

absVars == <<seq, out, call>>

IsPush(o) == o \in {"push_front", "push_back"}
NoCall == [op |-> None, item |-> None, done |-> FALSE]

AbsInit ==
  /\ seq = <<>>
  /\ out = Items
  /\ call = [p \in Procs |-> NoCall]

Begin(p) ==
  /\ call[p] = NoCall
  /\ \E o \in Allowed[p] :
       IF IsPush(o)
       THEN \E i \in out :
              /\ out' = out \ {i}
              /\ call' = [call EXCEPT ![p] = [op |-> o, item |-> i, done |-> FALSE]]
       ELSE /\ call' = [call EXCEPT ![p] = [op |-> o, item |-> None, done |-> FALSE]]
            /\ UNCHANGED out
  /\ UNCHANGED seq

Put(p) ==
  LET c == call[p] IN
  /\ IsPush(c.op) /\ ~c.done
  /\ seq' = IF c.op = "push_front" THEN <<c.item>> \o seq ELSE Append(seq, c.item)
  /\ call' = [call EXCEPT ![p].done = TRUE]
  /\ UNCHANGED out

Take(p) ==
  LET c == call[p] IN
  /\ c.op \in {"pop_front", "pop_back"} /\ ~c.done /\ seq # <<>>
  /\ seq' = IF c.op = "pop_front" THEN Tail(seq) ELSE Front(seq)
  /\ call' = [call EXCEPT ![p].done = TRUE,
                          ![p].item = IF c.op = "pop_front" THEN Head(seq) ELSE Last(seq)]
  /\ UNCHANGED out

Return(p) ==
  /\ call[p].done
  /\ out' = IF IsPush(call[p].op) THEN out ELSE out \cup {call[p].item}
  /\ call' = [call EXCEPT ![p] = NoCall]
  /\ UNCHANGED seq

Refuse(p) ==
  /\ call[p].op # None /\ ~call[p].done
  /\ out' = IF IsPush(call[p].op) THEN out \cup {call[p].item} ELSE out
  /\ call' = [call EXCEPT ![p] = NoCall]
  /\ UNCHANGED seq

AbsNext == \E p \in Procs : Begin(p) \/ Put(p) \/ Take(p) \/ Return(p) \/ Refuse(p)
AbsSpec == AbsInit /\ [][AbsNext]_absVars
=============================================================================

----------------------------- MODULE TrieValues -----------------------------
(***************************************************************************)
(* What Trie (trie.hpp) promises as a type: every object has a value of    *)
(* its own, the paths it leads to with their end flags, and each operation *)
(* changes the values of its operands only.  A move leaves its source      *)
(* without a value, and to use that is undefined.                          *)
(***************************************************************************)
EXTENDS Naturals, Sequences

CONSTANTS
  Tries,      \* names of objects
  Paths,      \* what is inserted, as sequences of segments
  Destroyed,  \* the value of no object
  MovedFrom   \* and of one without a tree

VARIABLES value, crashed

vars == <<value, crashed>>

Empty == [q \in {<<>>} |-> FALSE]

Init == value = [t \in Tries |-> Destroyed] /\ crashed = FALSE

\* v once Insert(p) has made k iterations.
Walked(v, p, k) ==
  LET seen == {SubSeq(p, 1, i) : i \in 1..k}
  IN  [q \in DOMAIN v \cup seen |-> q \in DOMAIN v \ seen /\ v[q]]

Exists(t) == value[t] # Destroyed
Usable(t) == value[t] \notin {Destroyed, MovedFrom}

Construct(t) == ~Exists(t) /\ value' = [value EXCEPT ![t] = Empty]

MoveConstruct(t, u) ==
  /\ ~Exists(t) /\ Exists(u)
  /\ value' = [value EXCEPT ![t] = value[u], ![u] = MovedFrom]

\* Also from itself, which changes nothing.
Assign(t, u) ==
  /\ Exists(t) /\ Exists(u)
  /\ value' = [[value EXCEPT ![u] = MovedFrom] EXCEPT ![t] = value[u]]

AssignNew(t) == Exists(t) /\ value' = [value EXCEPT ![t] = Empty]

Swap(t, u) ==
  /\ Exists(t) /\ Exists(u)
  /\ value' = [value EXCEPT ![t] = value[u], ![u] = value[t]]

Destroy(t) == Exists(t) /\ value' = [value EXCEPT ![t] = Destroyed]

Insert(t, p) ==
  /\ Usable(t)
  /\ value' = [value EXCEPT ![t] = [Walked(@, p, Len(p)) EXCEPT ![p] = TRUE]]

\* Insert may throw for want of memory: what it has done until then remains.
InsertThrows(t, p) ==
  /\ Usable(t)
  /\ \E k \in 0..(Len(p) - 1) : value' = [value EXCEPT ![t] = Walked(@, p, k)]

Crash(t) == value[t] = MovedFrom /\ crashed' = TRUE /\ UNCHANGED value

Next ==
  /\ ~crashed
  /\ \/ \E t \in Tries : Crash(t)
     \/ /\ \/ \E t \in Tries : Construct(t) \/ AssignNew(t) \/ Destroy(t)
           \/ \E t, u \in Tries : MoveConstruct(t, u) \/ Assign(t, u) \/ Swap(t, u)
           \/ \E t \in Tries, p \in Paths : Insert(t, p) \/ InsertThrows(t, p)
        /\ UNCHANGED crashed

Spec == Init /\ [][Next]_vars
=============================================================================

---------------------------- MODULE PrefixIndex ----------------------------
(***************************************************************************)
(* What a Trie (include/splitter/trie.hpp) promises its caller, without    *)
(* nodes or flags: the paths inserted so far, in order, determine every    *)
(* answer.  Trie.tla is shown to implement this specification.             *)
(***************************************************************************)
EXTENDS SequencesExt

CONSTANTS
  Path,        \* the segment sequences a caller may pass
  MaxInserts   \* bound on the number of insertions of a behaviour

VARIABLES
  log,     \* the paths inserted, oldest first
  call,    \* the method running, or "idle"
  path,    \* its argument
  reply    \* what the last finished query returned

vars == <<log, call, path, reply>>

Queries == {"SearchPrefix", "Search"}

\* Some inserted path runs through q.
Covered(q) == q = <<>> \/ \E i \in DOMAIN log : IsPrefix(q, log[i])

\* q was inserted, and since then no path that passes through q and goes on.
\* The empty path names the root, which no insertion passes through.
Listed(q) ==
  \E i \in DOMAIN log :
    /\ log[i] = q
    /\ q # <<>> => \A j \in DOMAIN log : j > i => ~(IsStrictPrefix(q, log[j]))

\* q is the longest prefix of p that some inserted path runs through.
LongestCovered(q, p) ==
  /\ IsPrefix(q, p)
  /\ Covered(q)
  /\ \A o \in Prefixes(p) : Covered(o) => Len(o) <= Len(q)

Init ==
  /\ log = <<>>
  /\ call = "idle"
  /\ path = <<>>
  /\ reply = [op |-> "none"]

Call(op, p) ==
  /\ call = "idle"
  /\ op = "Insert" => Len(log) < MaxInserts
  /\ call' = op
  /\ path' = p
  /\ UNCHANGED <<log, reply>>

ReturnInsert ==
  /\ call = "Insert"
  /\ log' = Append(log, path)
  /\ call' = "idle"
  /\ UNCHANGED <<path, reply>>

ReturnPrefix ==
  /\ call = "SearchPrefix"
  /\ \E q \in Prefixes(path) :
       /\ LongestCovered(q, path)
       /\ reply' = [op |-> "SearchPrefix", path |-> path, prefix |-> q]
  /\ call' = "idle"
  /\ UNCHANGED <<log, path>>

ReturnSearch ==
  /\ call = "Search"
  /\ reply' = [op |-> "Search", path |-> path, found |-> Listed(path)]
  /\ call' = "idle"
  /\ UNCHANGED <<log, path>>

Return == ReturnInsert \/ ReturnPrefix \/ ReturnSearch

Next ==
  \/ \E op \in {"Insert"} \cup Queries, p \in Path : Call(op, p)
  \/ Return

Safety == Init /\ [][Next]_vars

\* Every call returns.
Spec == Safety /\ WF_vars(Return)
=============================================================================

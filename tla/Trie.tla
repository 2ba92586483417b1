-------------------------------- MODULE Trie --------------------------------
(***************************************************************************)
(* class Trie of include/splitter/trie.hpp: Insert, SearchPrefix and       *)
(* Search, one step per iteration of their loops.                          *)
(*                                                                         *)
(* A TrieNode is named by the segments on its way from root_, so that      *)
(*   current->children.find(s) == current->children.end()                  *)
(* reads Append(current, s) \notin nodes, and end is the set of nodes      *)
(* whose flag is set.  The tree is only ever used by one thread.           *)
(***************************************************************************)
EXTENDS SequencesExt

CONSTANTS
  Raw,         \* the strings callers pass
  Segment,     \* the path segments those strings are made of
  Slashed,     \* Slashed[r]: r with every backslash made a slash
  Parts,       \* Parts[r]: the segments that iterating fs::path(r) yields
  MaxInserts   \* bound on the number of insertions of a behaviour

ASSUME TrieAssumption ==
  /\ Slashed \in [Raw -> Raw]
  /\ Parts \in [Raw -> Seq(Segment)]
  /\ MaxInserts \in Nat

VARIABLES
  nodes,    \* the allocated nodes; <<>> is root_
  end,      \* those whose end flag is set
  current,  \* the local variable of the running method
  call,     \* the method running, or "idle"
  path,     \* the segments that its loop iterates over
  reply,    \* what the last finished query returned
  argument, \* history: the string that the caller passed
  log       \* history: the paths that the finished insertions were asked for,
            \* oldest first, a backslash in them taken for a slash

vars == <<nodes, end, current, call, path, reply, argument, log>>

Methods == {"Insert", "SearchPrefix", "Search"}

NoReply     == [op |-> "none"]
PrefixReply == [op : {"SearchPrefix"}, path : Seq(Segment), prefix : Seq(Segment)]
SearchReply == [op : {"Search"}, path : Seq(Segment), found : BOOLEAN]

TypeOK ==
  /\ nodes \in SUBSET Seq(Segment)
  /\ end \in SUBSET nodes
  /\ current \in nodes
  /\ call \in Methods \cup {"idle"}
  /\ path \in Seq(Segment)
  /\ reply \in {NoReply} \cup PrefixReply \cup SearchReply
  /\ argument \in Raw \cup {<<>>}
  /\ log \in Seq(Seq(Segment))

Init ==
  /\ nodes = {<<>>}
  /\ end = {}
  /\ current = <<>>
  /\ call = "idle"
  /\ path = <<>>
  /\ reply = NoReply
  /\ argument = <<>>
  /\ log = <<>>

\* The child of current that the loop looks up next.
MoreSegments == Len(current) < Len(path)
Child == Append(current, path[Len(current) + 1])

\* A search stops at the end of its path or at the first missing child.
SearchStops == MoreSegments => Child \notin nodes

\* Entry of a method: current = root_.  Only Insert turns backslashes.
Enter(op, r, segments) ==
  /\ call = "idle"
  /\ call' = op
  /\ argument' = r
  /\ path' = segments
  /\ current' = <<>>
  /\ UNCHANGED <<nodes, end, reply, log>>

MInsertKeepsBackslashes(r) ==
  /\ Len(log) < MaxInserts
  /\ Enter("Insert", r, Parts[r])

Insert(r) ==
  /\ Len(log) < MaxInserts
  /\ Enter("Insert", r, Parts[Slashed[r]])

SearchPrefix(r) == Enter("SearchPrefix", r, Parts[r])

Search(r) == Enter("Search", r, Parts[r])

\* One iteration of Insert: a missing child is allocated, with end false; an
\* existing one loses its end flag.
MAddForgetsLink ==
  /\ call = "Insert" /\ MoreSegments
  /\ current' = Child
  /\ UNCHANGED <<nodes, end, call, path, reply, argument, log>>

MAddKeepsEnd ==
  /\ call = "Insert" /\ MoreSegments
  /\ nodes' = nodes \cup {Child}
  /\ current' = Child
  /\ UNCHANGED <<end, call, path, reply, argument, log>>

AddSegment ==
  /\ call = "Insert" /\ MoreSegments
  /\ \/ /\ Child \notin nodes
        /\ nodes' = nodes \cup {Child}
        /\ UNCHANGED end
     \/ /\ Child \in nodes
        /\ end' = end \ {Child}
        /\ UNCHANGED nodes
  /\ current' = Child
  /\ UNCHANGED <<call, path, reply, argument, log>>

InsertReturns ==
  /\ call = "Insert"
  /\ ~MoreSegments
  /\ end' = end \cup {current}
  /\ log' = Append(log, Parts[Slashed[argument]])
  /\ call' = "idle"
  /\ UNCHANGED <<nodes, current, path, reply, argument>>

\* One iteration of SearchPrefix or Search that finds the child.  In
\* SearchPrefix the local variable prefix grows with current.
Descend ==
  /\ call \in {"SearchPrefix", "Search"} /\ MoreSegments
  /\ Child \in nodes
  /\ current' = Child
  /\ UNCHANGED <<nodes, end, call, path, reply, argument, log>>

\* SearchPrefix returns prefix, at the first missing child or at the end.
PrefixReturns ==
  /\ call = "SearchPrefix"
  /\ SearchStops
  /\ reply' = [op |-> "SearchPrefix", path |-> path, prefix |-> current]
  /\ call' = "idle"
  /\ UNCHANGED <<nodes, end, current, path, argument, log>>

\* Search returns false at the first missing child, current->end at the end.
MSearchIgnoresEnd ==
  /\ call = "Search"
  /\ SearchStops
  /\ reply' = [op |-> "Search", path |-> path, found |-> ~MoreSegments]
  /\ call' = "idle"
  /\ UNCHANGED <<nodes, end, current, path, argument, log>>

SearchReturns ==
  /\ call = "Search"
  /\ SearchStops
  /\ reply' = [op |-> "Search", path |-> path,
               found |-> ~MoreSegments /\ current \in end]
  /\ call' = "idle"
  /\ UNCHANGED <<nodes, end, current, path, argument, log>>

Run == AddSegment \/ InsertReturns \/ Descend \/ PrefixReturns \/ SearchReturns

Next == (\E r \in Raw : Insert(r) \/ SearchPrefix(r) \/ Search(r)) \/ Run

Spec == Init /\ [][Next]_vars

\* A method that was called runs to its return: it never blocks.
FairSpec == Spec /\ WF_vars(Run)

-----------------------------------------------------------------------------
\* What the class promises, in terms of the insertions alone.
Index == INSTANCE PrefixIndex WITH Path <- {Parts[r] : r \in Raw}

\* Insert, SearchPrefix and Search answer as the abstract index does, and
\* every call returns: the nodes and end flags that one insertion leaves
\* half-changed between two iterations are never visible in an answer.
ImplementsIndex == Index!Spec

\* The paths that a claim about the tree has to look at: every other path is
\* neither a node nor a prefix of what was inserted.
Known == nodes \cup UNION {Prefixes(log[i]) : i \in DOMAIN log}

\* The segments that a running Insert has walked down.
Walked(q) == call = "Insert" /\ IsPrefix(q, current)

\* Between calls the tree holds the paths that callers inserted, whichever
\* separator they wrote, and their prefixes, and nothing else: no insertion
\* loses a node or leaves one nobody asked for.
\* While Insert runs, the path down to current is there as well.
NodesAreCovered ==
  \A q \in Known : q \in nodes <=> Index!Covered(q) \/ Walked(q)

\* The end flag of a node says that its path was inserted and not passed
\* through since; the nodes that a running Insert has passed are cleared.
EndIsListed ==
  \A q \in Known :
    q \in end <=> Index!Listed(q) /\ ~(Walked(q) /\ q # <<>>)

\* trie.hpp:68-70 says of Search "search if a directory path is in the trie
\* tree ... return true if found": it finds what was inserted, nothing else.
SearchFindsInserted ==
  [][SearchReturns => (reply'.found <=> path \in ToSet(log))]_vars
=============================================================================

--------------------------- MODULE TrieOwnership ----------------------------
(***************************************************************************)
(* The nodes of Trie objects (trie.hpp) on the heap: who points to them,   *)
(* through construction, moves, assignment, swap, insertions that may run  *)
(* out of memory, and the recursive deletion.  Places on the heap are used *)
(* again.  What the searches answer is in module Trie; here they are calls *)
(* that only matter if the object has no tree.                             *)
(***************************************************************************)
EXTENDS Integers, FiniteSets, SequencesExt

CONSTANTS
  Tries,
  Node,      \* places for a TrieNode
  Null,      \* nullptr
  Paths,     \* arguments of Insert, as sequences of segments
  Destroyed, MovedFrom, NoCall

ASSUME OwnershipAssumption ==
  /\ Null \notin Node
  /\ \A p \in Paths : p \in Seq(Range(p))
  /\ <<>> \in Paths
  /\ \A p \in Paths \ {<<>>} : Front(p) \in Paths
  /\ Destroyed # MovedFrom
  /\ \A D \in SUBSET Paths : {Destroyed, MovedFrom} \cap [D -> BOOLEAN] = {}
  /\ NoCall \notin [trie : Tries, path : Paths, done : Nat, current : Node,
                    before : UNION {[D -> BOOLEAN] : D \in SUBSET Paths}]

VARIABLES
  alive,      \* the objects constructed and not destroyed
  root_,
  allocated,  \* the nodes that new returned and delete did not free
  children,   \* children[n]: a function from segments to nodes
  end,
  leaked,     \* history: nodes that no pointer ever led to
  call,       \* the Insert that runs, or NoCall
  frames,     \* the calls of deleteTrie, each with the children to come
  crashed     \* a null pointer was used

vars == <<alive, root_, allocated, children, end, leaked, call, frames, crashed>>

Segments == UNION {Range(p) : p \in Paths}
Childless == [s \in {} |-> Null]

TypeOK ==
  /\ alive \subseteq Tries
  /\ root_ \in [Tries -> allocated \cup {Null}]
  /\ leaked \subseteq allocated /\ allocated \subseteq Node
  /\ DOMAIN children = Node
  /\ \A n \in Node : DOMAIN children[n] \subseteq Segments /\ Range(children[n]) \subseteq Node
  /\ end \in [Node -> BOOLEAN]
  /\ call # NoCall => /\ call.trie \in alive /\ call.path \in Paths
                      /\ call.done \in 0..Len(call.path) /\ call.current \in allocated
  /\ \A i \in DOMAIN frames : /\ frames[i].node \in allocated
                              /\ frames[i].rest \subseteq DOMAIN children[frames[i].node]
  /\ crashed \in BOOLEAN

Init ==
  /\ alive = {}
  /\ root_ = [t \in Tries |-> Null]
  /\ allocated = {}
  /\ children = [n \in Node |-> Childless]
  /\ end = [n \in Node |-> FALSE]
  /\ leaked = {}
  /\ call = NoCall
  /\ frames = <<>>
  /\ crashed = FALSE

\* What is left of a path from one of its nodes on.
Trails == UNION {{SubSeq(p, i, Len(p)) : i \in 1..(Len(p) + 1)} : p \in Paths}

\* The node that each trail leads to from n, or Null.
Reached(n) ==
  LET at[p \in Trails] ==
        IF p = <<>> THEN n
        ELSE LET m == at[Front(p)]
             IN  IF m # Null /\ Last(p) \in DOMAIN children[m]
                 THEN children[m][Last(p)] ELSE Null
  IN  at

\* The tree below n as a function from its paths to their flags.
Content(n) ==
  LET at == Reached(n) IN [p \in {q \in Paths : at[q] # Null} |-> end[at[p]]]

Idle == call = NoCall /\ frames = <<>> /\ ~crashed

Frame(n) == [node |-> n, rest |-> DOMAIN children[n]]

\* deleteTrie(n)
Delete(n) == frames' = IF n = Null THEN <<>> ELSE <<Frame(n)>>

-----------------------------------------------------------------------------
\* Trie(): the root is new.  If new throws there is no object.
Construct(t) ==
  /\ Idle /\ t \notin alive
  /\ \E n \in Node \ allocated :
       allocated' = allocated \cup {n} /\ root_' = [root_ EXCEPT ![t] = n]
  /\ alive' = alive \cup {t}
  /\ UNCHANGED <<children, end, leaked, call, frames, crashed>>

\* Trie t(std::move(u)), and what returns a trie by value.
MoveConstruct(t, u) ==
  /\ Idle /\ t \notin alive /\ u \in alive
  /\ alive' = alive \cup {t}
  /\ root_' = [root_ EXCEPT ![t] = root_[u], ![u] = Null]
  /\ UNCHANGED <<allocated, children, end, leaked, call, frames, crashed>>

\* t = std::move(u): copy, the argument, takes the tree of u, swaps it with
\* that of t, which is u if it is assigned to itself, and is destroyed.
MAssignKeepsBoth(t, u) ==
  /\ Idle /\ {t, u} \subseteq alive
  /\ root_' = [root_ EXCEPT ![t] = root_[u], ![u] = Null]
  /\ Delete(root_[t])
  /\ UNCHANGED <<alive, allocated, children, end, leaked, call, crashed>>

Assign(t, u) ==
  /\ Idle /\ {t, u} \subseteq alive
  /\ LET copied == [root_ EXCEPT ![u] = Null]
     IN  root_' = [copied EXCEPT ![t] = root_[u]] /\ Delete(copied[t])
  /\ UNCHANGED <<alive, allocated, children, end, leaked, call, crashed>>

\* t = Trie()
MAssignNewForgets(t) ==
  /\ Idle /\ t \in alive
  /\ \E n \in Node \ allocated :
       allocated' = allocated \cup {n} /\ root_' = [root_ EXCEPT ![t] = n]
  /\ UNCHANGED <<alive, children, end, leaked, call, frames, crashed>>

AssignNew(t) ==
  /\ Idle /\ t \in alive
  /\ \E n \in Node \ allocated :
       allocated' = allocated \cup {n} /\ root_' = [root_ EXCEPT ![t] = n]
  /\ Delete(root_[t])
  /\ UNCHANGED <<alive, children, end, leaked, call, crashed>>

Swap(t, u) ==
  /\ Idle /\ {t, u} \subseteq alive
  /\ root_' = [root_ EXCEPT ![t] = root_[u], ![u] = root_[t]]
  /\ UNCHANGED <<alive, allocated, children, end, leaked, call, frames, crashed>>

Destroy(t) ==
  /\ Idle /\ t \in alive
  /\ alive' = alive \ {t}
  /\ root_' = [root_ EXCEPT ![t] = Null]
  /\ Delete(root_[t])
  /\ UNCHANGED <<allocated, children, end, leaked, call, crashed>>

\* The recursive call for one of the children, in the order of a hash map.
MDeleteForgetsParent ==
  /\ frames # <<>>
  /\ LET f == Last(frames) IN
       \E s \in f.rest : frames' = Append(Front(frames), Frame(children[f.node][s]))
  /\ UNCHANGED <<alive, root_, allocated, children, end, leaked, call, crashed>>

MDeleteAgain ==
  /\ frames # <<>>
  /\ LET f == Last(frames) IN
       \E s \in f.rest : frames' = Append(frames, Frame(children[f.node][s]))
  /\ UNCHANGED <<alive, root_, allocated, children, end, leaked, call, crashed>>

DeleteChild ==
  /\ frames # <<>>
  /\ LET f == Last(frames) IN
       \E s \in f.rest :
         frames' = Front(frames) \o <<[f EXCEPT !.rest = @ \ {s}], Frame(children[f.node][s])>>
  /\ UNCHANGED <<alive, root_, allocated, children, end, leaked, call, crashed>>

\* delete, when all are done, and the return to the parent's loop.
DeleteNode ==
  /\ frames # <<>>
  /\ LET f == Last(frames) IN
       /\ f.rest = {}
       /\ allocated' = allocated \ {f.node}
       /\ children' = [children EXCEPT ![f.node] = Childless]
       /\ end' = [end EXCEPT ![f.node] = FALSE]
  /\ frames' = Front(frames)
  /\ UNCHANGED <<alive, root_, leaked, call, crashed>>

\* Insert: root_ is used at once, for its children or its flag.
Insert(t, p) ==
  /\ Idle /\ t \in alive /\ root_[t] # Null
  /\ call' = [trie |-> t, path |-> p, done |-> 0, current |-> root_[t],
              before |-> Content(root_[t])]
  /\ UNCHANGED <<alive, root_, allocated, children, end, leaked, frames, crashed>>

\* Insert or a search of a trie that was moved from.
UseMovedFrom(t) ==
  /\ Idle /\ t \in alive /\ root_[t] = Null
  /\ crashed' = TRUE
  /\ UNCHANGED <<alive, root_, allocated, children, end, leaked, call, frames>>

Inserting == call # NoCall /\ call.done < Len(call.path)
Segment == call.path[call.done + 1]
\* The children c with n at s.
Linked(c, s, n) == [x \in DOMAIN c \cup {s} |-> IF x = s THEN n ELSE c[x]]
Continue(n) == call' = [call EXCEPT !.done = @ + 1, !.current = n]

PassSegment ==
  /\ Inserting /\ Segment \in DOMAIN children[call.current]
  /\ LET child == children[call.current][Segment]
     IN  end' = [end EXCEPT ![child] = FALSE] /\ Continue(child)
  /\ UNCHANGED <<alive, root_, allocated, children, leaked, frames, crashed>>

AddSegment ==
  /\ Inserting /\ Segment \notin DOMAIN children[call.current]
  /\ \E n \in Node \ allocated :
       /\ allocated' = allocated \cup {n}
       /\ children' = [children EXCEPT ![call.current] = Linked(@, Segment, n)]
       /\ Continue(n)
  /\ UNCHANGED <<alive, root_, end, leaked, frames, crashed>>

\* In C++17 the right side of children[segmentStr] = new TrieNode() comes
\* first: when it throws, or the string before it, there is no entry, and
\* when operator[] throws, nobody has the node.
MThrowLeavesNull ==
  /\ Inserting
  /\ children' = [children EXCEPT ![call.current] = Linked(@, Segment, Null)]
  /\ call' = NoCall
  /\ UNCHANGED <<alive, root_, allocated, end, leaked, frames, crashed>>

InsertThrows ==
  /\ Inserting
  /\ \/ UNCHANGED <<allocated, leaked>>
     \/ /\ Segment \notin DOMAIN children[call.current]
        /\ \E n \in Node \ allocated :
             allocated' = allocated \cup {n} /\ leaked' = leaked \cup {n}
  /\ call' = NoCall
  /\ UNCHANGED <<alive, root_, children, end, frames, crashed>>

InsertReturns ==
  /\ call # NoCall /\ call.done = Len(call.path)
  /\ end' = [end EXCEPT ![call.current] = TRUE]
  /\ call' = NoCall
  /\ UNCHANGED <<alive, root_, allocated, children, leaked, frames, crashed>>

Step == \/ DeleteChild \/ DeleteNode
        \/ PassSegment \/ AddSegment \/ InsertThrows \/ InsertReturns

Next ==
  \/ \E t \in Tries : Construct(t) \/ AssignNew(t) \/ Destroy(t) \/ UseMovedFrom(t)
  \/ \E t, u \in Tries : MoveConstruct(t, u) \/ Assign(t, u) \/ Swap(t, u)
  \/ \E t \in Tries, p \in Paths : Insert(t, p)
  \/ Step

Spec == Init /\ [][Next]_vars

FairSpec == Spec /\ WF_vars(Step)

-----------------------------------------------------------------------------
\* The children of m that deleteTrie has not gone to.
Waiting(m) ==
  {s \in DOMAIN children[m] : \A i \in DOMAIN frames : frames[i].node = m => s \in frames[i].rest}

\* Who will free n: an object, a node above it, or a running deleteTrie.
ByRoot(n)   == {t \in alive : root_[t] = n}
ByParent(n) == {e \in allocated \X Segments : e[2] \in Waiting(e[1]) /\ children[e[1]][e[2]] = n}
ByFrame(n)  == {i \in DOMAIN frames : frames[i].node = n}

Single(S) == \E x \in S : S = {x}

\* In every state, also while nodes are freed, each node is freed by one call
\* to come: it has one pointer, unless it was freed or lost, when it has none.
OneOwner ==
  \A n \in Node :
    LET r == ByRoot(n) p == ByParent(n) f == ByFrame(n) IN
      IF n \in allocated \ leaked
      THEN \/ Single(r) /\ p = {} /\ f = {}
           \/ Single(p) /\ r = {} /\ f = {}
           \/ Single(f) /\ r = {} /\ p = {}
      ELSE r = {} /\ p = {} /\ f = {}

\* The pointers that still count: roots, and children deleteTrie will visit.
Pointers ==
  {<<<<t>>, root_[t]>> : t \in {u \in alive : root_[u] # Null}} \cup
  UNION {{<<<<i, s>>, children[frames[i].node][s]>> : s \in frames[i].rest} :
           i \in DOMAIN frames}

\* The ways to node n: from a pointer along a trail, or as one being deleted.
Ways(n) ==
  {w \in Pointers \X Trails : Reached(w[1][2])[w[2]] = n} \cup
  {<<i>> : i \in {j \in DOMAIN frames : frames[j].node = n}}

\* Every node that was allocated and not yet freed has exactly one owner that
\* leads to it along one trail, so that deleteTrie frees it once, and no
\* pointer leads to one that was freed; but for the nodes that a failed
\* insertion lost, nothing is leaked.
NodesOwned ==
  \A n \in Node :
    Cardinality(Ways(n)) = IF n \in allocated \ leaked THEN 1 ELSE 0

\* Objects have values: an operation changes those of its operands, whatever
\* the pointers are shared or moved in between, an insertion that throws
\* leaves a prefix of its work, and only a trie moved from is unusable.
Values == INSTANCE TrieValues WITH
  value <- [t \in Tries |->
              IF t \notin alive THEN Destroyed
              ELSE IF root_[t] = Null THEN MovedFrom
              ELSE IF call # NoCall /\ call.trie = t THEN call.before
              ELSE Content(root_[t])]

ImplementsValues == Values!Spec

\* Insertion and deletion end.
Returns == (call # NoCall \/ frames # <<>>) ~> (call = NoCall /\ frames = <<>>)
=============================================================================

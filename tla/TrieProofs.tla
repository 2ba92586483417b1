----------------------------- MODULE TrieProofs -----------------------------
(***************************************************************************)
(* Theorems about Trie, for every set of strings and segments and any      *)
(* number of insertions.                                                   *)
(***************************************************************************)
EXTENDS Trie, TLAPS

(***************************************************************************)
(* IsPrefix, pointwise.                                                    *)
(***************************************************************************)
LEMMA PrefixPointwise ==
  ASSUME NEW S, NEW p \in Seq(S), NEW q \in Seq(S)
  PROVE  IsPrefix(p, q) <=> /\ Len(p) <= Len(q)
                            /\ \A i \in 1..Len(p) : p[i] = q[i]
<1>1. SubSeq(p, 1, Len(p)) = p
  OBVIOUS
<1>2. ASSUME Len(p) <= Len(q)
      PROVE  /\ Len(SubSeq(q, 1, Len(p))) = Len(p)
             /\ \A i \in 1..Len(p) : SubSeq(q, 1, Len(p))[i] = q[i]
             /\ SubSeq(q, 1, Len(p)) \in Seq(S)
  BY <1>2
<1>3. ASSUME IsPrefix(p, q)
      PROVE  Len(p) <= Len(q) /\ \A i \in 1..Len(p) : p[i] = q[i]
  BY <1>1, <1>2, <1>3 DEF IsPrefix
<1>4. ASSUME Len(p) <= Len(q), \A i \in 1..Len(p) : p[i] = q[i]
      PROVE  IsPrefix(p, q)
  <2>1. SubSeq(q, 1, Len(p)) = p
    BY <1>2, <1>4
  <2>2. QED
    BY <1>1, <1>4, <2>1 DEF IsPrefix
<1>5. QED
  BY <1>3, <1>4

LEMMA PrefixReflexive ==
  ASSUME NEW S, NEW p \in Seq(S)
  PROVE  IsPrefix(p, p)
BY PrefixPointwise

LEMMA PrefixTransitive ==
  ASSUME NEW S, NEW p \in Seq(S), NEW q \in Seq(S), NEW r \in Seq(S),
         IsPrefix(p, q), IsPrefix(q, r)
  PROVE  IsPrefix(p, r)
BY PrefixPointwise

LEMMA PrefixOfEqualLength ==
  ASSUME NEW S, NEW p \in Seq(S), NEW q \in Seq(S), IsPrefix(p, q), Len(p) = Len(q)
  PROVE  p = q
BY PrefixPointwise

LEMMA PrefixEmpty ==
  ASSUME NEW S, NEW p \in Seq(S)
  PROVE  /\ IsPrefix(<<>>, p)
         /\ IsPrefix(p, <<>>) <=> p = <<>>
<1>1. <<>> \in Seq(S) /\ Len(<<>>) = 0
  OBVIOUS
<1>2. IsPrefix(<<>>, p)
  <2> DEFINE e == <<>>
  <2>1. e \in Seq(S) /\ Len(e) <= Len(p) /\ \A i \in 1..Len(e) : e[i] = p[i]
    BY <1>1
  <2> HIDE DEF e
  <2>2. IsPrefix(e, p)
    BY <2>1, PrefixPointwise
  <2>3. QED
    BY <2>2 DEF e
<1>3. ASSUME IsPrefix(p, <<>>)
      PROVE  p = <<>>
  <2>1. Len(p) <= 0
    BY <1>1, <1>3, PrefixPointwise
  <2>2. QED
    BY <2>1
<1>4. QED
  BY <1>1, <1>2, <1>3

(***************************************************************************)
(* One step of the loops: the child of c on the way to p.                  *)
(***************************************************************************)
LEMMA PrefixOfChild ==
  ASSUME NEW S, NEW c \in Seq(S), NEW p \in Seq(S), IsPrefix(c, p), Len(c) < Len(p)
  PROVE  LET d == Append(c, p[Len(c) + 1]) IN
           /\ d \in Seq(S)
           /\ d # <<>>
           /\ IsPrefix(d, p)
           /\ \A q \in Seq(S) : IsPrefix(q, d) <=> IsPrefix(q, c) \/ q = d
           /\ \A q \in Seq(S) : IsPrefix(q, p) /\ Len(q) > Len(c) => IsPrefix(d, q)
<1> DEFINE d == Append(c, p[Len(c) + 1])
<1>1. /\ d \in Seq(S)
      /\ Len(d) = Len(c) + 1
      /\ \A i \in 1..Len(c) : d[i] = c[i]
      /\ d[Len(c) + 1] = p[Len(c) + 1]
  OBVIOUS
<1>2. d # <<>>
  BY <1>1
<1> HIDE DEF d
<1>3. \A i \in 1..Len(d) : d[i] = p[i]
  BY <1>1, PrefixPointwise
<1>4. IsPrefix(d, p)
  BY <1>1, <1>3, PrefixPointwise
<1>5. ASSUME NEW q \in Seq(S), IsPrefix(q, d), q # d
      PROVE  IsPrefix(q, c)
  <2>1. Len(q) <= Len(d) /\ \A i \in 1..Len(q) : q[i] = d[i]
    BY <1>1, <1>5, PrefixPointwise
  <2>2. Len(q) # Len(d)
    BY <1>1, <1>5, PrefixOfEqualLength
  <2>3. Len(q) <= Len(c)
    BY <1>1, <2>1, <2>2
  <2>4. \A i \in 1..Len(q) : q[i] = c[i]
    BY <1>1, <2>1, <2>3
  <2>5. QED
    BY <2>3, <2>4, PrefixPointwise
<1>6. ASSUME NEW q \in Seq(S), IsPrefix(q, c) \/ q = d
      PROVE  IsPrefix(q, d)
  BY <1>1, <1>6, PrefixPointwise
<1>7. ASSUME NEW q \in Seq(S), IsPrefix(q, p), Len(q) > Len(c)
      PROVE  IsPrefix(d, q)
  <2>1. Len(d) <= Len(q) /\ \A i \in 1..Len(q) : q[i] = p[i]
    BY <1>1, <1>7, PrefixPointwise
  <2>2. \A i \in 1..Len(d) : d[i] = q[i]
    BY <1>1, <1>3, <2>1
  <2>3. QED
    BY <1>1, <2>1, <2>2, PrefixPointwise
<1>8. QED
  BY <1>1, <1>2, <1>4, <1>5, <1>6, <1>7 DEF d

(***************************************************************************)
(* What the abstract index says of a log, and what one insertion adds.     *)
(***************************************************************************)
CoveredBy(q, l) == q = <<>> \/ \E i \in 1..Len(l) : IsPrefix(q, l[i])

ListedIn(q, l) ==
  \E i \in 1..Len(l) :
    /\ l[i] = q
    /\ q # <<>> => \A j \in 1..Len(l) :
                     j > i => ~(IsPrefix(q, l[j]) /\ q # l[j])

LEMMA IndexOfLog ==
  ASSUME log \in Seq(Seq(Segment)), NEW q
  PROVE  /\ Index!Covered(q) <=> CoveredBy(q, log)
         /\ Index!Listed(q) <=> ListedIn(q, log)
<1>1. DOMAIN log = 1..Len(log)
  OBVIOUS
<1>2. \A p, r : Index!IsPrefix(p, r) <=> IsPrefix(p, r)
  BY DEF Index!IsPrefix, IsPrefix
<1>3. Index!Covered(q) <=> CoveredBy(q, log)
  BY <1>1, <1>2, Zenon DEF Index!Covered, CoveredBy
<1>4. Index!Listed(q) <=> ListedIn(q, log)
  <2>1. \A p, r : Index!IsStrictPrefix(p, r) <=> IsPrefix(p, r) /\ p # r
    BY <1>2, Zenon DEF Index!IsStrictPrefix
  <2>2. ASSUME Index!Listed(q)
        PROVE  ListedIn(q, log)
    BY <1>1, <2>1, <2>2 DEF Index!Listed, ListedIn
  <2>3. ASSUME ListedIn(q, log)
        PROVE  Index!Listed(q)
    <3>1. PICK i \in 1..Len(log) :
            /\ log[i] = q
            /\ q # <<>> => \A j \in 1..Len(log) :
                             j > i => ~(IsPrefix(q, log[j]) /\ q # log[j])
      BY <2>3 DEF ListedIn
    <3>2. q # <<>> => \A j \in DOMAIN log : j > i => ~Index!IsStrictPrefix(q, log[j])
      BY <1>1, <2>1, <3>1
    <3>3. QED
      BY <1>1, <3>1, <3>2 DEF Index!Listed
  <2>4. QED
    BY <2>2, <2>3
<1>5. QED
  BY <1>3, <1>4

LEMMA CoveredByAppend ==
  ASSUME NEW S, NEW l \in Seq(Seq(S)), NEW p \in Seq(S), NEW q \in Seq(S)
  PROVE  CoveredBy(q, Append(l, p)) <=> CoveredBy(q, l) \/ IsPrefix(q, p)
<1> DEFINE m == Append(l, p)
<1>1. /\ Len(m) = Len(l) + 1
      /\ m[Len(m)] = p
      /\ \A i \in 1..Len(l) : m[i] = l[i]
  OBVIOUS
<1> HIDE DEF m
<1>2. 1..Len(m) = 1..Len(l) \cup {Len(m)}
  BY <1>1
<1>3. CoveredBy(q, m) <=> CoveredBy(q, l) \/ IsPrefix(q, p)
  BY <1>1, <1>2 DEF CoveredBy
<1>4. QED
  BY <1>3 DEF m

LEMMA ListedInAppend ==
  ASSUME NEW S, NEW l \in Seq(Seq(S)), NEW p \in Seq(S), NEW q \in Seq(S)
  PROVE  ListedIn(q, Append(l, p)) <=>
           \/ q = p
           \/ ListedIn(q, l) /\ (q = <<>> \/ ~IsPrefix(q, p))
<1> DEFINE m == Append(l, p)
<1>1. /\ Len(m) = Len(l) + 1
      /\ m[Len(m)] = p
      /\ \A i \in 1..Len(l) : m[i] = l[i]
      /\ Len(l) \in Nat
  OBVIOUS
<1> HIDE DEF m
<1>2. 1..Len(m) = 1..Len(l) \cup {Len(m)}
  BY <1>1
<1>3. ASSUME q = p
      PROVE  ListedIn(q, m)
  BY <1>1, <1>2, <1>3 DEF ListedIn
<1>4. ASSUME ListedIn(q, l), q = <<>> \/ ~IsPrefix(q, p)
      PROVE  ListedIn(q, m)
  BY <1>1, <1>2, <1>4 DEF ListedIn
<1>5. ASSUME ListedIn(q, m), q # p
      PROVE  ListedIn(q, l) /\ (q = <<>> \/ ~IsPrefix(q, p))
  <2>1. PICK i \in 1..Len(m) :
          /\ m[i] = q
          /\ q # <<>> => \A j \in 1..Len(m) :
                           j > i => ~(IsPrefix(q, m[j]) /\ q # m[j])
    BY <1>5 DEF ListedIn
  <2>2. i \in 1..Len(l) /\ Len(m) > i
    BY <1>1, <1>2, <1>5, <2>1
  <2>3. QED
    BY <1>1, <1>2, <1>5, <2>1, <2>2 DEF ListedIn
<1>6. QED
  BY <1>3, <1>4, <1>5 DEF m

LEMMA ListedIsCovered ==
  ASSUME NEW S, NEW l \in Seq(Seq(S)), NEW q \in Seq(S), ListedIn(q, l)
  PROVE  CoveredBy(q, l)
BY PrefixReflexive DEF ListedIn, CoveredBy

LEMMA CoveredIsClosed ==
  ASSUME NEW S, NEW l \in Seq(Seq(S)), NEW q \in Seq(S), NEW p \in Seq(S),
         IsPrefix(p, q), CoveredBy(q, l)
  PROVE  CoveredBy(p, l)
<1>1. CASE q = <<>>
  BY <1>1, PrefixEmpty DEF CoveredBy
<1>2. CASE q # <<>>
  <2>1. PICK i \in 1..Len(l) : IsPrefix(q, l[i])
    BY <1>2 DEF CoveredBy
  <2>2. l[i] \in Seq(S)
    OBVIOUS
  <2>3. IsPrefix(p, l[i])
    BY <2>1, <2>2, PrefixTransitive
  <2>4. QED
    BY <2>3 DEF CoveredBy
<1>3. QED
  BY <1>1, <1>2

(***************************************************************************)
(* The inductive invariant.  NodesAreCovered and EndIsListed speak of the  *)
(* known paths; the proof needs them of every path, and needs to know that *)
(* the loops never leave the path of the call, which for Insert is that of *)
(* the caller's string with its backslashes turned.                        *)
(***************************************************************************)
EveryNodeIsCovered ==
  \A q \in Seq(Segment) : q \in nodes <=> CoveredBy(q, log) \/ Walked(q)

EveryEndIsListed ==
  \A q \in Seq(Segment) :
    q \in end <=> ListedIn(q, log) /\ ~(Walked(q) /\ q # <<>>)

IInv ==
  /\ TypeOK
  /\ IsPrefix(current, path)
  /\ call = "Insert" => path = Parts[Slashed[argument]]
  /\ EveryNodeIsCovered
  /\ EveryEndIsListed

LEMMA ChildFacts ==
  ASSUME TypeOK, IsPrefix(current, path), MoreSegments
  PROVE  /\ Child \in Seq(Segment)
         /\ Child # <<>>
         /\ IsPrefix(Child, path)
         /\ \A q \in Seq(Segment) : IsPrefix(q, Child) <=> IsPrefix(q, current) \/ q = Child
         /\ \A q \in Seq(Segment) : IsPrefix(q, path) /\ Len(q) > Len(current)
                                      => IsPrefix(Child, q)
<1>1. current \in Seq(Segment) /\ path \in Seq(Segment)
  BY DEF TypeOK
<1>2. Len(current) < Len(path)
  BY DEF MoreSegments
<1>3. QED
  BY <1>1, <1>2, PrefixOfChild DEF Child

LEMMA AtTheEnd ==
  ASSUME TypeOK, IsPrefix(current, path), ~MoreSegments
  PROVE  current = path
<1>1. current \in Seq(Segment) /\ path \in Seq(Segment)
  BY DEF TypeOK
<1>2. Len(current) = Len(path)
  BY <1>1, PrefixPointwise DEF MoreSegments
<1>3. QED
  BY <1>1, <1>2, PrefixOfEqualLength

LEMMA InitIInv ==
  ASSUME TrieAssumption, Init
  PROVE  IInv
<1>1. /\ <<>> \in Seq(Segment)
      /\ log \in Seq(Seq(Segment)) /\ Len(log) = 0
  BY DEF Init
<1>2. TypeOK
  BY <1>1 DEF Init, TypeOK, Methods, NoReply
<1>3. IsPrefix(current, path)
  BY <1>1, PrefixEmpty DEF Init
<1>4. EveryNodeIsCovered
  BY <1>1 DEF Init, EveryNodeIsCovered, CoveredBy, Walked
<1>5. EveryEndIsListed
  BY <1>1 DEF Init, EveryEndIsListed, ListedIn
<1>6. call # "Insert"
  BY DEF Init
<1>7. QED
  BY <1>2, <1>3, <1>4, <1>5, <1>6 DEF IInv

LEMMA EnterIInv ==
  ASSUME IInv, NEW op \in Methods, NEW r \in Raw, NEW p \in Seq(Segment),
         Enter(op, r, p), op = "Insert" => p = Parts[Slashed[r]]
  PROVE  IInv'
<1>1. <<>> \in nodes /\ <<>> \in Seq(Segment)
  <2>1. <<>> \in Seq(Segment)
    OBVIOUS
  <2>2. QED
    BY <2>1 DEF IInv, EveryNodeIsCovered, CoveredBy
<1>2. TypeOK'
  BY <1>1 DEF IInv, TypeOK, Enter
<1>3. IsPrefix(current, path)'
  BY <1>1, PrefixEmpty DEF Enter
<1>4. \A q \in Seq(Segment) : IsPrefix(q, <<>>) <=> q = <<>>
  BY PrefixEmpty
<1>5. EveryNodeIsCovered'
  BY <1>4, Zenon DEF IInv, EveryNodeIsCovered, Enter, Walked, CoveredBy
<1>6. EveryEndIsListed'
  BY <1>4 DEF IInv, EveryEndIsListed, Enter, Walked
<1>7. (call = "Insert" => path = Parts[Slashed[argument]])'
  BY DEF Enter
<1>8. QED
  BY <1>2, <1>3, <1>5, <1>6, <1>7 DEF IInv

LEMMA AddSegmentIInv ==
  ASSUME IInv, AddSegment
  PROVE  IInv'
<1> USE DEF IInv
<1>1. /\ call = "Insert" /\ MoreSegments
      /\ current' = Child
      /\ UNCHANGED <<call, path, reply, argument, log>>
      /\ nodes' = nodes \cup {Child}
      /\ end' = end \ {Child} \/ (Child \notin nodes /\ end' = end)
  BY DEF AddSegment
<1>2. /\ Child \in Seq(Segment) /\ Child # <<>>
      /\ IsPrefix(Child, path)
      /\ \A q \in Seq(Segment) :
           IsPrefix(q, Child) <=> IsPrefix(q, current) \/ q = Child
  BY <1>1, ChildFacts
<1>3. TypeOK'
  BY <1>1, <1>2 DEF TypeOK
<1>4. \A q \in Seq(Segment) : Walked(q)' <=> Walked(q) \/ q = Child
  BY <1>1, <1>2 DEF Walked
<1>5. EveryNodeIsCovered'
  BY <1>1, <1>2, <1>4 DEF EveryNodeIsCovered
<1>6. end' = end \ {Child}
  BY <1>1 DEF TypeOK
<1>7. EveryEndIsListed'
  BY <1>1, <1>2, <1>4, <1>6 DEF EveryEndIsListed
<1>8. QED
  BY <1>1, <1>2, <1>3, <1>5, <1>7

LEMMA InsertReturnsIInv ==
  ASSUME IInv, InsertReturns
  PROVE  IInv'
<1> USE DEF IInv
<1>1. /\ call = "Insert" /\ call' = "idle"
      /\ end' = end \cup {path}
      /\ log' = Append(log, path)
      /\ UNCHANGED <<nodes, current, path, reply, argument>>
      /\ current = path
  BY AtTheEnd DEF InsertReturns
<1>2. path \in Seq(Segment) /\ log \in Seq(Seq(Segment)) /\ path \in nodes
  BY <1>1 DEF TypeOK
<1>3. log' \in Seq(Seq(Segment))
  BY <1>1, <1>2
<1>4. TypeOK'
  BY <1>1, <1>2, <1>3 DEF TypeOK
<1>5. \A q \in Seq(Segment) : CoveredBy(q, log') <=> CoveredBy(q, log) \/ IsPrefix(q, path)
  BY <1>1, <1>2, CoveredByAppend
<1>6. \A q \in Seq(Segment) :
        ListedIn(q, log') <=>
          \/ q = path
          \/ ListedIn(q, log) /\ (q = <<>> \/ ~IsPrefix(q, path))
  <2> SUFFICES ASSUME NEW q \in Seq(Segment)
               PROVE  ListedIn(q, Append(log, path)) <=>
                        \/ q = path
                        \/ ListedIn(q, log) /\ (q = <<>> \/ ~IsPrefix(q, path))
    BY <1>1
  <2>1. QED
    BY <1>2, ListedInAppend
<1>7. \A q \in Seq(Segment) : (Walked(q) <=> IsPrefix(q, path)) /\ ~Walked(q)'
  BY <1>1 DEF Walked
<1>8. EveryNodeIsCovered'
  BY <1>1, <1>5, <1>7 DEF EveryNodeIsCovered
<1>9. EveryEndIsListed'
  <2> SUFFICES ASSUME NEW q \in Seq(Segment)
               PROVE  q \in end' <=> ListedIn(q, log') /\ ~(Walked(q)' /\ q # <<>>)
    BY DEF EveryEndIsListed
  <2>1. q \in end <=> ListedIn(q, log) /\ ~(IsPrefix(q, path) /\ q # <<>>)
    BY <1>7 DEF EveryEndIsListed
  <2>2. ~Walked(q)'
    BY <1>7
  <2>3. QED
    BY <1>1, <1>6, <2>1, <2>2
<1>10. QED
  BY <1>1, <1>4, <1>8, <1>9

LEMMA DescendIInv ==
  ASSUME IInv, Descend
  PROVE  IInv'
<1> USE DEF IInv
<1>1. /\ call # "Insert" /\ MoreSegments
      /\ Child \in nodes
      /\ current' = Child
      /\ UNCHANGED <<nodes, end, call, path, reply, argument, log>>
  BY DEF Descend
<1>2. IsPrefix(Child, path)
  BY <1>1, ChildFacts
<1>3. TypeOK'
  BY <1>1 DEF TypeOK
<1>4. EveryNodeIsCovered' /\ EveryEndIsListed'
  BY <1>1 DEF EveryNodeIsCovered, EveryEndIsListed, Walked
<1>5. QED
  BY <1>1, <1>2, <1>3, <1>4

LEMMA QueryReturnsIInv ==
  ASSUME IInv, PrefixReturns \/ SearchReturns
  PROVE  IInv'
<1> USE DEF IInv
<1>1. /\ call # "Insert" /\ call' = "idle"
      /\ UNCHANGED <<nodes, end, current, path, argument, log>>
  BY DEF PrefixReturns, SearchReturns
<1>2. path \in Seq(Segment) /\ current \in Seq(Segment)
  BY DEF TypeOK
<1>3. reply' \in {NoReply} \cup PrefixReply \cup SearchReply
  <2>1. CASE PrefixReturns
    BY <1>2, <2>1 DEF PrefixReturns, PrefixReply
  <2>2. CASE SearchReturns
    <3> DEFINE found == ~MoreSegments /\ current \in end
    <3>1. found \in BOOLEAN
      OBVIOUS
    <3>2. reply' = [op |-> "Search", path |-> path, found |-> found]
      BY <2>2 DEF SearchReturns
    <3> HIDE DEF found
    <3>3. QED
      BY <1>2, <3>1, <3>2 DEF SearchReply
  <2>3. QED
    BY <2>1, <2>2
<1>4. TypeOK'
  BY <1>1, <1>3 DEF TypeOK
<1>5. EveryNodeIsCovered' /\ EveryEndIsListed'
  BY <1>1 DEF EveryNodeIsCovered, EveryEndIsListed, Walked
<1>6. QED
  BY <1>1, <1>4, <1>5

LEMMA StutterIInv ==
  ASSUME IInv, UNCHANGED vars
  PROVE  IInv'
BY DEF IInv, vars, TypeOK, EveryNodeIsCovered, EveryEndIsListed, Walked

LEMMA NextIInv ==
  ASSUME TrieAssumption, IInv, Next
  PROVE  IInv'
<1>1. ASSUME NEW r \in Raw, Insert(r) \/ SearchPrefix(r) \/ Search(r)
      PROVE  IInv'
  <2>1. Parts[r] \in Seq(Segment) /\ Parts[Slashed[r]] \in Seq(Segment)
    BY DEF TrieAssumption
  <2>2. CASE Insert(r)
    BY <2>1, <2>2, EnterIInv DEF Insert, Methods
  <2>3. CASE SearchPrefix(r)
    BY <2>1, <2>3, EnterIInv DEF SearchPrefix, Methods
  <2>4. CASE Search(r)
    BY <2>1, <2>4, EnterIInv DEF Search, Methods
  <2>5. QED
    BY <1>1, <2>2, <2>3, <2>4
<1>2. CASE AddSegment
  BY <1>2, AddSegmentIInv
<1>3. CASE InsertReturns
  BY <1>3, InsertReturnsIInv
<1>4. CASE Descend
  BY <1>4, DescendIInv
<1>5. CASE PrefixReturns \/ SearchReturns
  BY <1>5, QueryReturnsIInv
<1>6. QED
  BY <1>1, <1>2, <1>3, <1>4, <1>5 DEF Next, Run

\* The invariant is inductive, so it holds in every reachable state.
THEOREM InvariantHolds == Spec => []IInv
<1>1. Init => IInv
  BY TrieAssumption, InitIInv
<1>2. IInv /\ [Next]_vars => IInv'
  BY TrieAssumption, NextIInv, StutterIInv
<1>3. QED
  BY <1>1, <1>2, PTL DEF Spec

\* Type correctness of the trie: root_ and every node that a loop reaches
\* exist, and only nodes carry an end flag.
THEOREM TypeCorrect == Spec => []TypeOK
BY InvariantHolds, PTL DEF IInv

LEMMA KnownArePaths ==
  ASSUME TypeOK
  PROVE  Known \subseteq Seq(Segment)
<1>1. ASSUME NEW i \in DOMAIN log, NEW q \in Prefixes(log[i])
      PROVE  q \in Seq(Segment)
  <2>1. log[i] \in Seq(Segment)
    BY DEF TypeOK
  <2>2. PICK n \in 0..Len(log[i]) : q = SubSeq(log[i], 1, n)
    BY DEF Prefixes
  <2>3. QED
    BY <2>1, <2>2
<1>2. QED
  BY <1>1 DEF Known, TypeOK

\* Insert (trie.hpp:28-47) leaves exactly the inserted paths, backslashes
\* turned, and their prefixes in the tree, whatever was inserted and in
\* whatever order.
THEOREM NodesCorrect == Spec => []NodesAreCovered
<1>1. IInv => NodesAreCovered
  <2> SUFFICES ASSUME IInv, NEW q \in Known
               PROVE  q \in nodes <=> Index!Covered(q) \/ Walked(q)
    BY DEF NodesAreCovered
  <2>1. q \in Seq(Segment) /\ log \in Seq(Seq(Segment))
    BY KnownArePaths DEF IInv, TypeOK
  <2>2. QED
    BY <2>1, IndexOfLog DEF IInv, EveryNodeIsCovered
<1>2. QED
  BY <1>1, InvariantHolds, PTL

\* The end flag of a node (trie.hpp:42 and 46) is set exactly when its path
\* was inserted and no longer path was inserted through it afterwards.
THEOREM EndCorrect == Spec => []EndIsListed
<1>1. IInv => EndIsListed
  <2> SUFFICES ASSUME IInv, NEW q \in Known
               PROVE  q \in end <=> Index!Listed(q) /\ ~(Walked(q) /\ q # <<>>)
    BY DEF EndIsListed
  <2>1. q \in Seq(Segment) /\ log \in Seq(Seq(Segment))
    BY KnownArePaths DEF IInv, TypeOK
  <2>2. QED
    BY <2>1, IndexOfLog DEF IInv, EveryEndIsListed
<1>2. QED
  BY <1>1, InvariantHolds, PTL

(***************************************************************************)
(* The trie implements the abstract index: every step of a loop is a step  *)
(* of the index or leaves it unchanged.                                    *)
(***************************************************************************)
LEMMA NothingBeyondStop ==
  ASSUME IInv, call # "Insert", MoreSegments, SearchStops,
         NEW q \in Seq(Segment), IsPrefix(q, path), Len(q) > Len(current)
  PROVE  ~CoveredBy(q, log)
<1>1. Child \in Seq(Segment) /\ IsPrefix(Child, q)
  BY ChildFacts DEF IInv
<1>2. Child \notin nodes /\ ~Walked(Child)
  BY DEF SearchStops, Walked
<1>3. log \in Seq(Seq(Segment))
  BY DEF IInv, TypeOK
<1>4. ~CoveredBy(Child, log)
  BY <1>1, <1>2 DEF IInv, EveryNodeIsCovered
<1>5. QED
  BY <1>1, <1>3, <1>4, CoveredIsClosed

LEMMA EnterImplements ==
  ASSUME TrieAssumption, NEW r \in Raw, Insert(r) \/ SearchPrefix(r) \/ Search(r)
  PROVE  Index!Next
<1>1. Parts[r] \in {Parts[s] : s \in Raw} /\ Parts[Slashed[r]] \in {Parts[s] : s \in Raw}
  BY DEF TrieAssumption
<1>2. \E op \in {"Insert"} \cup Index!Queries, p \in {Parts[s] : s \in Raw} :
        Index!Call(op, p)
  <2>1. CASE Insert(r)
    <3>1. Index!Call("Insert", Parts[Slashed[r]])
      BY <2>1 DEF Insert, Enter, Index!Call
    <3>2. QED
      BY <1>1, <3>1
  <2>2. CASE SearchPrefix(r)
    <3>1. Index!Call("SearchPrefix", Parts[r])
      BY <2>2 DEF SearchPrefix, Enter, Index!Call
    <3>2. QED
      BY <1>1, <3>1 DEF Index!Queries
  <2>3. CASE Search(r)
    <3>1. Index!Call("Search", Parts[r])
      BY <2>3 DEF Search, Enter, Index!Call
    <3>2. QED
      BY <1>1, <3>1 DEF Index!Queries
  <2>4. QED
    BY <2>1, <2>2, <2>3
<1>3. QED
  BY <1>2 DEF Index!Next

LEMMA PrefixReturnsImplements ==
  ASSUME IInv, PrefixReturns
  PROVE  Index!ReturnPrefix
<1>1. /\ current \in Seq(Segment) /\ current \in nodes
      /\ path \in Seq(Segment)
      /\ log \in Seq(Seq(Segment))
      /\ IsPrefix(current, path)
      /\ call = "SearchPrefix" /\ SearchStops
  BY DEF IInv, TypeOK, PrefixReturns
<1>2. \A p, q : Index!IsPrefix(p, q) <=> IsPrefix(p, q)
  BY DEF Index!IsPrefix, IsPrefix
<1>3. Index!Covered(current)
  BY <1>1, IndexOfLog DEF IInv, EveryNodeIsCovered, Walked
<1>4. ASSUME NEW o \in Index!Prefixes(path), Index!Covered(o)
      PROVE  Len(o) <= Len(current)
  <2>1. PICK n \in 0..Len(path) : o = SubSeq(path, 1, n)
    BY DEF Index!Prefixes
  <2>2. /\ o \in Seq(Segment) /\ Len(o) = n
        /\ \A i \in 1..n : o[i] = path[i]
    BY <1>1, <2>1
  <2>3. IsPrefix(o, path)
    BY <1>1, <2>2, PrefixPointwise
  <2>4. CoveredBy(o, log)
    BY <1>1, <1>4, IndexOfLog
  <2>5. CASE MoreSegments
    BY <1>1, <2>2, <2>3, <2>4, <2>5, NothingBeyondStop
  <2>6. CASE ~MoreSegments
    BY <1>1, <2>2, <2>6 DEF MoreSegments
  <2>7. QED
    BY <2>5, <2>6
<1>5. current \in Index!Prefixes(path)
  <2>1. Len(current) \in 0..Len(path)
    BY <1>1, PrefixPointwise
  <2>2. current = SubSeq(path, 1, Len(current))
    BY <1>1, <2>1, PrefixPointwise
  <2>3. QED
    BY <2>1, <2>2 DEF Index!Prefixes
<1>6. Index!LongestCovered(current, path)
  BY <1>1, <1>2, <1>3, <1>4 DEF Index!LongestCovered
<1>7. QED
  BY <1>5, <1>6 DEF Index!ReturnPrefix, PrefixReturns

LEMMA SearchReturnsImplements ==
  ASSUME IInv, SearchReturns
  PROVE  Index!ReturnSearch
<1>1. /\ path \in Seq(Segment)
      /\ log \in Seq(Seq(Segment))
      /\ call = "Search" /\ SearchStops
  BY DEF IInv, TypeOK, SearchReturns
<1>2. (~MoreSegments /\ current \in end) <=> ListedIn(path, log)
  <2>1. CASE MoreSegments
    <3>1. IsPrefix(path, path) /\ Len(path) > Len(current)
      BY <1>1, <2>1, PrefixReflexive DEF MoreSegments, IInv, TypeOK
    <3>2. ~CoveredBy(path, log)
      BY <1>1, <2>1, <3>1, NothingBeyondStop
    <3>3. QED
      BY <1>1, <2>1, <3>2, ListedIsCovered
  <2>2. CASE ~MoreSegments
    <3>1. current = path
      BY <2>2, AtTheEnd DEF IInv
    <3>2. QED
      BY <1>1, <2>2, <3>1 DEF IInv, EveryEndIsListed, Walked
  <2>3. QED
    BY <2>1, <2>2
<1>3. Index!Listed(path) <=> ListedIn(path, log)
  BY <1>1, IndexOfLog
<1>4. (~MoreSegments /\ current \in end) = Index!Listed(path)
  BY <1>2, <1>3 DEF Index!Listed
<1>5. QED
  BY <1>4, Zenon DEF SearchReturns, Index!ReturnSearch

\* Every answer of Search and SearchPrefix (trie.hpp:52-82) is the one the
\* abstract index gives: the safety half of ImplementsIndex.
THEOREM TrieImplementsIndex == Spec => Index!Safety
<1>1. Init => Index!Init
  BY DEF Init, NoReply, Index!Init
<1>2. ASSUME IInv, [Next]_vars
      PROVE  [Index!Next]_Index!vars
  <2>1. ASSUME NEW r \in Raw, Insert(r) \/ SearchPrefix(r) \/ Search(r)
        PROVE  Index!Next
    BY <2>1, TrieAssumption, EnterImplements
  <2>2. CASE AddSegment \/ Descend
    BY <2>2 DEF AddSegment, Descend, Index!vars
  <2>3. CASE InsertReturns
    BY <1>2, <2>3 DEF IInv, InsertReturns, Index!ReturnInsert, Index!Return, Index!Next
  <2>4. CASE PrefixReturns
    BY <1>2, <2>4, PrefixReturnsImplements DEF Index!Return, Index!Next
  <2>5. CASE SearchReturns
    BY <1>2, <2>5, SearchReturnsImplements DEF Index!Return, Index!Next
  <2>6. CASE UNCHANGED vars
    BY <2>6 DEF vars, Index!vars
  <2>7. QED
    BY <1>2, <2>1, <2>2, <2>3, <2>4, <2>5, <2>6 DEF Next, Run
<1>3. QED
  BY <1>1, <1>2, InvariantHolds, PTL DEF Spec, Index!Safety
=============================================================================

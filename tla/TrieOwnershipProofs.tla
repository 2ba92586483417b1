------------------------ MODULE TrieOwnershipProofs ------------------------
(***************************************************************************)
(* Theorems about TrieOwnership, for any objects, any heap and any paths:  *)
(* no pointer dangles, each node is freed by one call to come and along    *)
(* one trail, and objects have values of their own.                        *)
(***************************************************************************)
EXTENDS TrieOwnership, SequenceTheorems, FiniteSetTheorems, TLAPS

Data == INSTANCE Lemmas

FrameSet == [node : Node, rest : SUBSET Segments]

\* t, the entry s of m, or frame i leads to n.
FromRoot(t, n)   == t \in alive /\ root_[t] = n
FromNode(m, s, n) == m \in allocated /\ s \in Waiting(m) /\ children[m][s] = n
FromFrame(i, n)  == i \in DOMAIN frames /\ frames[i].node = n

\* The pointers to n.
Unowned(n) ==
  /\ \A t \in Tries : ~FromRoot(t, n)
  /\ \A m \in Node, s \in Segments : ~FromNode(m, s, n)
  /\ \A i \in Nat : ~FromFrame(i, n)

Owned(n) ==
  \/ \E t \in Tries : FromRoot(t, n)
  \/ \E m \in Node, s \in Segments : FromNode(m, s, n)
  \/ \E i \in Nat : FromFrame(i, n)

OwnedOnce(n) ==
  /\ \A t, u \in Tries : FromRoot(t, n) /\ FromRoot(u, n) => t = u
  /\ \A m, k \in Node, s, x \in Segments :
       FromNode(m, s, n) /\ FromNode(k, x, n) => m = k /\ s = x
  /\ \A i, j \in Nat : FromFrame(i, n) /\ FromFrame(j, n) => i = j
  /\ \A t \in Tries, m \in Node, s \in Segments : ~(FromRoot(t, n) /\ FromNode(m, s, n))
  /\ \A t \in Tries, i \in Nat : ~(FromRoot(t, n) /\ FromFrame(i, n))
  /\ \A m \in Node, s \in Segments, i \in Nat : ~(FromNode(m, s, n) /\ FromFrame(i, n))

Owners ==
  \A n \in Node :
    /\ n \notin allocated \ leaked => Unowned(n)
    /\ n \in allocated \ leaked => Owned(n)
    /\ OwnedOnce(n)

(***************************************************************************)
(* The inductive invariant: types, of which the pointers into the heap are *)
(* no part, what is known of nodes that are free or lost, and the owners.  *)
(***************************************************************************)
Shape ==
  /\ alive \subseteq Tries
  /\ root_ \in [Tries -> Node \cup {Null}]
  /\ \A t \in Tries \ alive : root_[t] = Null
  /\ leaked \subseteq allocated /\ allocated \subseteq Node
  /\ DOMAIN children = Node
  /\ \A n \in Node : /\ DOMAIN children[n] \subseteq Segments
                     /\ \A s \in DOMAIN children[n] : children[n][s] \in Node
  /\ \A n \in Node \ (allocated \ leaked) : DOMAIN children[n] = {}
  /\ end \in [Node -> BOOLEAN]
  /\ frames \in Seq(FrameSet)
  /\ \A i \in DOMAIN frames : frames[i].rest \subseteq DOMAIN children[frames[i].node]
  /\ crashed \in BOOLEAN

CallShape ==
  call # NoCall =>
    /\ frames = <<>>
    /\ call \in [trie : Tries, path : Paths, done : Nat, current : Node, before : {call.before}]
    /\ call.trie \in alive /\ call.path \in Paths
    /\ call.done \in 0..Len(call.path)
    /\ call.current \in allocated \ leaked

IInv == Shape /\ CallShape /\ Owners

LEMMA FrameFacts ==
  ASSUME NEW fs \in Seq(FrameSet)
  PROVE  /\ Len(fs) \in Nat /\ DOMAIN fs = 1..Len(fs)
         /\ \A i \in DOMAIN fs : i \in Nat /\ fs[i].node \in Node /\ fs[i].rest \subseteq Segments
<1>1. Len(fs) \in Nat /\ DOMAIN fs = 1..Len(fs) /\ \A i \in DOMAIN fs : fs[i] \in FrameSet
  OBVIOUS
<1>2. \A f \in FrameSet : f.node \in Node /\ f.rest \subseteq Segments
  BY DEF FrameSet
<1>3. QED
  BY <1>1, <1>2

LEMMA InvariantImplies ==
  ASSUME OwnershipAssumption, IInv
  PROVE  TypeOK
<1>1. root_ \in [Tries -> allocated \cup {Null}]
  <2>1. SUFFICES ASSUME NEW t \in Tries, root_[t] # Null
                 PROVE  root_[t] \in allocated
    BY DEF IInv, Shape
  <2>2. root_[t] \in Node /\ FromRoot(t, root_[t])
    BY <2>1 DEF IInv, Shape, FromRoot
  <2>3. QED
    BY <2>2 DEF IInv, Owners, Unowned
<1>2. \A i \in DOMAIN frames : frames[i].node \in allocated
  <2>1. SUFFICES ASSUME NEW i \in DOMAIN frames
                 PROVE  frames[i].node \in allocated
    OBVIOUS
  <2>2. i \in Nat /\ frames[i].node \in Node /\ FromFrame(i, frames[i].node)
    BY FrameFacts DEF IInv, Shape, FromFrame
  <2>3. QED
    BY <2>2 DEF IInv, Owners, Unowned
<1>3. \A n \in Node : Range(children[n]) \subseteq Node
  BY DEF IInv, Shape, Range
<1>4. QED
  BY <1>1, <1>2, <1>3 DEF TypeOK, IInv, Shape, CallShape

LEMMA InitIInv ==
  ASSUME OwnershipAssumption, Init
  PROVE  IInv
<1>1. \A n \in Node : DOMAIN children[n] = {}
  BY DEF Init, Childless
<1>2. frames \in Seq(FrameSet) /\ DOMAIN frames = {}
  BY DEF Init
<1>3. Shape
  BY <1>1, <1>2 DEF Init, Shape
<1>4. \A n \in Node : Unowned(n)
  BY <1>1, <1>2 DEF Init, Unowned, FromRoot, FromNode, FromFrame
<1>5. Owners
  BY <1>4 DEF Owners, OwnedOnce, Unowned, Init
<1>6. QED
  BY <1>3, <1>5 DEF Init, IInv, CallShape

(***************************************************************************)
(* The pieces that steps are made of.                                      *)
(***************************************************************************)
\* Outside deleteTrie all children of a node are still to be freed.
LEMMA WaitingIdle ==
  ASSUME frames = <<>>
  PROVE  /\ \A m : Waiting(m) = DOMAIN children[m]
         /\ \A i, n : ~FromFrame(i, n)
BY DEF Waiting, FromFrame

\* deleteTrie(d) begins: its frame takes over from whoever had d.
LEMMA DeleteBegins ==
  ASSUME Shape, frames = <<>>, NEW d \in Node \cup {Null}, Delete(d), children' = children,
         OwnershipAssumption
  PROVE  /\ frames' \in Seq(FrameSet)
         /\ \A i \in DOMAIN frames' : frames'[i].rest \subseteq DOMAIN children'[frames'[i].node]
         /\ \A m : Waiting(m)' = Waiting(m)
         /\ \A i \in Nat, n \in Node : FromFrame(i, n)' <=> i = 1 /\ n = d
<1>1. \A m : Waiting(m) = DOMAIN children[m]
  BY WaitingIdle
<1>2. CASE d = Null
  <2>1. frames' = <<>>
    BY <1>2 DEF Delete
  <2>2. QED
    BY <2>1, <1>1, <1>2 DEF Waiting, FromFrame, OwnershipAssumption
<1>3. CASE d \in Node
  <2>1. frames' = <<Frame(d)>> /\ d # Null
    BY <1>3 DEF Delete, OwnershipAssumption
  <2>2. Frame(d) \in FrameSet /\ Frame(d).node = d /\ Frame(d).rest = DOMAIN children[d]
    BY <1>3 DEF Frame, FrameSet, Shape
  <2>3. frames' \in Seq(FrameSet) /\ DOMAIN frames' = {1} /\ frames'[1] = Frame(d)
    BY <2>1, <2>2
  <2>4. \A m : Waiting(m)' = Waiting(m)
    BY <2>2, <2>3, <1>1 DEF Waiting
  <2>5. QED
    BY <2>2, <2>3, <2>4 DEF FromFrame
<1>4. QED
  BY <1>2, <1>3

\* The entries of nodes change with allocated, children and what is waiting.
LEMMA NodesSame ==
  ASSUME Shape, allocated \subseteq allocated', children' = children,
         \A m : Waiting(m)' = Waiting(m),
         \A m \in allocated' \ allocated : DOMAIN children[m] = {}
  PROVE  \A m \in Node, s \in Segments, n \in Node : FromNode(m, s, n)' <=> FromNode(m, s, n)
<1>1. \A m \in allocated' \ allocated : Waiting(m) = {}
  BY DEF Waiting
<1>2. QED
  BY <1>1 DEF FromNode

LEMMA FramesSame ==
  ASSUME frames' = frames
  PROVE  \A i \in Nat, n \in Node : FromFrame(i, n)' <=> FromFrame(i, n)
BY DEF FromFrame

LEMMA WaitingSame ==
  ASSUME frames' = frames, children' = children
  PROVE  \A m : Waiting(m)' = Waiting(m)
BY DEF Waiting

(***************************************************************************)
(* The steps, one lemma each.                                              *)
(***************************************************************************)
LEMMA ConstructKeeps ==
  ASSUME OwnershipAssumption, IInv, NEW t \in Tries, Construct(t)
  PROVE  IInv'
<1>1. PICK n \in Node \ allocated :
        allocated' = allocated \cup {n} /\ root_' = [root_ EXCEPT ![t] = n]
  BY DEF Construct
<1>2. /\ t \notin alive /\ alive' = alive \cup {t} /\ call = NoCall /\ frames = <<>>
      /\ UNCHANGED <<children, end, leaked, call, frames, crashed>>
  BY DEF Construct, Idle
<1>3. Shape /\ Owners
  BY DEF IInv
<1>4. \A u \in Tries, x \in Node : FromRoot(u, x)' <=> FromRoot(u, x) \/ (u = t /\ x = n)
  BY <1>1, <1>2, <1>3 DEF FromRoot, Shape
<1>5. \A m \in Node, s \in Segments, x \in Node : FromNode(m, s, x)' <=> FromNode(m, s, x)
  BY <1>1, <1>2, <1>3, WaitingSame, NodesSame DEF Shape
<1>6. \A i \in Nat, x \in Node : FromFrame(i, x)' <=> FromFrame(i, x)
  BY <1>2, FramesSame
<1>7. Unowned(n) /\ n \notin leaked
  BY <1>1, <1>3 DEF Owners, Shape
<1>8. ASSUME NEW x \in Node
      PROVE  /\ x \notin allocated' \ leaked' => Unowned(x)'
             /\ x \in allocated' \ leaked' => Owned(x)'
             /\ OwnedOnce(x)'
  <2>1. /\ x \notin allocated \ leaked => Unowned(x)
        /\ x \in allocated \ leaked => Owned(x)
        /\ OwnedOnce(x)
    BY <1>3 DEF Owners
  <2>2. CASE x = n
    BY <2>2, <1>1, <1>2, <1>4, <1>5, <1>6, <1>7 DEF Unowned, Owned, OwnedOnce
  <2>3. CASE x # n
    BY <2>1, <2>3, <1>1, <1>2, <1>4, <1>5, <1>6 DEF Unowned, Owned, OwnedOnce
  <2>4. QED
    BY <2>2, <2>3
<1>9. Shape'
  BY <1>1, <1>2, <1>3 DEF Shape
<1>10. QED
  BY <1>2, <1>8, <1>9 DEF IInv, CallShape, Owners

LEMMA MoveConstructKeeps ==
  ASSUME OwnershipAssumption, IInv, NEW t \in Tries, NEW u \in Tries, MoveConstruct(t, u)
  PROVE  IInv'
<1>1. /\ t \notin alive /\ u \in alive /\ alive' = alive \cup {t}
      /\ root_' = [root_ EXCEPT ![t] = root_[u], ![u] = Null] /\ call = NoCall
      /\ UNCHANGED <<allocated, children, end, leaked, call, frames, crashed>>
  BY DEF MoveConstruct, Idle
<1>2. Shape /\ Owners
  BY DEF IInv
<1>3. \A v \in Tries, x \in Node :
        FromRoot(v, x)' <=> (v = t /\ FromRoot(u, x)) \/ (v \notin {t, u} /\ FromRoot(v, x))
  BY <1>1, <1>2 DEF FromRoot, Shape, OwnershipAssumption
<1>4. \A m \in Node, s \in Segments, x \in Node : FromNode(m, s, x)' <=> FromNode(m, s, x)
  BY <1>1, <1>2, WaitingSame, NodesSame
<1>5. \A i \in Nat, x \in Node : FromFrame(i, x)' <=> FromFrame(i, x)
  BY <1>1, FramesSame
<1>6. \A x \in Node : ~FromRoot(t, x)
  BY <1>1 DEF FromRoot
<1>7. ASSUME NEW x \in Node
      PROVE  /\ x \notin allocated' \ leaked' => Unowned(x)'
             /\ x \in allocated' \ leaked' => Owned(x)'
             /\ OwnedOnce(x)'
  <2>1. /\ x \notin allocated \ leaked => Unowned(x)
        /\ x \in allocated \ leaked => Owned(x)
        /\ OwnedOnce(x)
    BY <1>2 DEF Owners
  <2>2. QED
    BY <2>1, <1>1, <1>3, <1>4, <1>5, <1>6 DEF Unowned, Owned, OwnedOnce
<1>8. Shape'
  BY <1>1, <1>2 DEF Shape
<1>9. QED
  BY <1>1, <1>7, <1>8 DEF IInv, CallShape, Owners

LEMMA SwapKeeps ==
  ASSUME IInv, NEW t \in Tries, NEW u \in Tries, Swap(t, u)
  PROVE  IInv'
<1>1. /\ t \in alive /\ u \in alive /\ call = NoCall
      /\ root_' = [root_ EXCEPT ![t] = root_[u], ![u] = root_[t]]
      /\ UNCHANGED <<alive, allocated, children, end, leaked, call, frames, crashed>>
  BY DEF Swap, Idle
<1>2. Shape /\ Owners
  BY DEF IInv
<1>3. \A v \in Tries, x \in Node :
        FromRoot(v, x)' <=> \/ v = t /\ FromRoot(u, x)
                            \/ v = u /\ FromRoot(t, x)
                            \/ v \notin {t, u} /\ FromRoot(v, x)
  BY <1>1, <1>2 DEF FromRoot, Shape
<1>4. \A m \in Node, s \in Segments, x \in Node : FromNode(m, s, x)' <=> FromNode(m, s, x)
  BY <1>1, <1>2, WaitingSame, NodesSame
<1>5. \A i \in Nat, x \in Node : FromFrame(i, x)' <=> FromFrame(i, x)
  BY <1>1, FramesSame
<1>6. ASSUME NEW x \in Node
      PROVE  /\ x \notin allocated' \ leaked' => Unowned(x)'
             /\ x \in allocated' \ leaked' => Owned(x)'
             /\ OwnedOnce(x)'
  <2>1. /\ x \notin allocated \ leaked => Unowned(x)
        /\ x \in allocated \ leaked => Owned(x)
        /\ OwnedOnce(x)
    BY <1>2 DEF Owners
  <2>2. QED
    BY <2>1, <1>1, <1>3, <1>4, <1>5 DEF Unowned, Owned, OwnedOnce
<1>7. Shape'
  BY <1>1, <1>2 DEF Shape
<1>8. QED
  BY <1>1, <1>6, <1>7 DEF IInv, CallShape, Owners

\* An object loses the tree d, which deleteTrie is to free.
LEMMA AssignKeeps ==
  ASSUME OwnershipAssumption, IInv, NEW t \in Tries, NEW u \in Tries, Assign(t, u)
  PROVE  IInv'
<1> DEFINE d == [root_ EXCEPT ![u] = Null][t]
<1>1. /\ t \in alive /\ u \in alive /\ call = NoCall /\ frames = <<>>
      /\ root_' = [[root_ EXCEPT ![u] = Null] EXCEPT ![t] = root_[u]] /\ Delete(d)
      /\ UNCHANGED <<alive, allocated, children, end, leaked, call, crashed>>
  BY DEF Assign, Idle
<1>2. Shape /\ Owners
  BY DEF IInv
<1>3. d \in Node \cup {Null} /\ (d # Null => t # u /\ FromRoot(t, d))
  BY <1>1, <1>2 DEF Shape, FromRoot
<1>4. /\ d = Null => \A x \in Node : t # u => ~FromRoot(t, x)
      /\ \A x \in Node : FromRoot(t, x) => t = u \/ x = d
  BY <1>1, <1>2 DEF Shape, FromRoot, OwnershipAssumption
<1>5. \A v \in Tries, x \in Node :
        FromRoot(v, x)' <=> (v = t /\ FromRoot(u, x)) \/ (v \notin {t, u} /\ FromRoot(v, x))
  BY <1>1, <1>2 DEF FromRoot, Shape, OwnershipAssumption
<1> HIDE DEF d
<1>6. /\ frames' \in Seq(FrameSet)
      /\ \A i \in DOMAIN frames' : frames'[i].rest \subseteq DOMAIN children'[frames'[i].node]
      /\ \A m : Waiting(m)' = Waiting(m)
      /\ \A i \in Nat, n \in Node : FromFrame(i, n)' <=> i = 1 /\ n = d
  BY <1>1, <1>2, <1>3, DeleteBegins
<1>7. \A m \in Node, s \in Segments, x \in Node : FromNode(m, s, x)' <=> FromNode(m, s, x)
  BY <1>1, <1>2, <1>6, NodesSame
<1>8. \A i \in Nat, x \in Node : ~FromFrame(i, x)
  BY <1>1, WaitingIdle
<1>9. ASSUME NEW x \in Node
      PROVE  /\ x \notin allocated' \ leaked' => Unowned(x)'
             /\ x \in allocated' \ leaked' => Owned(x)'
             /\ OwnedOnce(x)'
  <2>1. /\ x \notin allocated \ leaked => Unowned(x)
        /\ x \in allocated \ leaked => Owned(x)
        /\ OwnedOnce(x)
    BY <1>2 DEF Owners
  <2>2. CASE x = d
    BY <2>1, <2>2, <1>1, <1>3, <1>4, <1>5, <1>6, <1>7, <1>8, SMTT(20) DEF Unowned, Owned, OwnedOnce
  <2>3. CASE x # d
    BY <2>1, <2>3, <1>1, <1>3, <1>4, <1>5, <1>6, <1>7, <1>8 DEF Unowned, Owned, OwnedOnce
  <2>4. QED
    BY <2>2, <2>3
<1>10. Shape'
  BY <1>1, <1>2, <1>6 DEF Shape
<1>11. QED
  BY <1>1, <1>9, <1>10 DEF IInv, CallShape, Owners

LEMMA AssignNewKeeps ==
  ASSUME OwnershipAssumption, IInv, NEW t \in Tries, AssignNew(t)
  PROVE  IInv'
<1> DEFINE d == root_[t]
<1>1. PICK n \in Node \ allocated :
        allocated' = allocated \cup {n} /\ root_' = [root_ EXCEPT ![t] = n]
  BY DEF AssignNew
<1>2. Shape /\ Owners
  BY DEF IInv
<1>3. /\ t \in alive /\ call = NoCall /\ frames = <<>> /\ Delete(d)
      /\ UNCHANGED <<alive, children, end, leaked, call, crashed>>
  BY DEF AssignNew, Idle
<1>4. d \in Node \cup {Null} /\ \A x \in Node : FromRoot(t, x) <=> x = d
  BY <1>2, <1>3 DEF Shape, FromRoot
<1>5. \A v \in Tries, x \in Node :
        FromRoot(v, x)' <=> (v = t /\ x = n) \/ (v # t /\ FromRoot(v, x))
  BY <1>1, <1>2, <1>3 DEF FromRoot, Shape
<1> HIDE DEF d
<1>6. /\ frames' \in Seq(FrameSet)
      /\ \A i \in DOMAIN frames' : frames'[i].rest \subseteq DOMAIN children'[frames'[i].node]
      /\ \A m : Waiting(m)' = Waiting(m)
      /\ \A i \in Nat, x \in Node : FromFrame(i, x)' <=> i = 1 /\ x = d
  BY <1>2, <1>3, <1>4, DeleteBegins
<1>7. \A m \in Node, s \in Segments, x \in Node : FromNode(m, s, x)' <=> FromNode(m, s, x)
  BY <1>1, <1>2, <1>3, <1>6, NodesSame DEF Shape
<1>8. \A i \in Nat, x \in Node : ~FromFrame(i, x)
  BY <1>3, WaitingIdle
<1>9. Unowned(n) /\ n \notin leaked /\ n # d
  BY <1>1, <1>2, <1>4 DEF Owners, Shape, Unowned
<1>10. ASSUME NEW x \in Node
      PROVE  /\ x \notin allocated' \ leaked' => Unowned(x)'
             /\ x \in allocated' \ leaked' => Owned(x)'
             /\ OwnedOnce(x)'
  <2>1. /\ x \notin allocated \ leaked => Unowned(x)
        /\ x \in allocated \ leaked => Owned(x)
        /\ OwnedOnce(x)
    BY <1>2 DEF Owners
  <2>2. CASE x = n
    BY <2>1, <2>2, <1>1, <1>3, <1>4, <1>5, <1>6, <1>7, <1>8, <1>9 DEF Unowned, Owned, OwnedOnce
  <2>3. CASE x = d
    BY <2>1, <2>3, <1>1, <1>3, <1>4, <1>5, <1>6, <1>7, <1>8, <1>9 DEF Unowned, Owned, OwnedOnce
  <2>4. CASE x \notin {n, d}
    BY <2>1, <2>4, <1>1, <1>3, <1>4, <1>5, <1>6, <1>7, <1>8, <1>9 DEF Unowned, Owned, OwnedOnce
  <2>5. QED
    BY <2>2, <2>3, <2>4
<1>11. Shape'
  BY <1>1, <1>2, <1>3, <1>6 DEF Shape
<1>12. QED
  BY <1>3, <1>10, <1>11 DEF IInv, CallShape, Owners

LEMMA DestroyKeeps ==
  ASSUME OwnershipAssumption, IInv, NEW t \in Tries, Destroy(t)
  PROVE  IInv'
<1> DEFINE d == root_[t]
<1>1. /\ t \in alive /\ alive' = alive \ {t} /\ call = NoCall /\ frames = <<>>
      /\ root_' = [root_ EXCEPT ![t] = Null] /\ Delete(d)
      /\ UNCHANGED <<allocated, children, end, leaked, call, crashed>>
  BY DEF Destroy, Idle
<1>2. Shape /\ Owners
  BY DEF IInv
<1>3. d \in Node \cup {Null} /\ \A x \in Node : FromRoot(t, x) <=> x = d
  BY <1>1, <1>2 DEF Shape, FromRoot
<1>4. \A v \in Tries, x \in Node : FromRoot(v, x)' <=> v # t /\ FromRoot(v, x)
  BY <1>1, <1>2 DEF FromRoot, Shape
<1> HIDE DEF d
<1>5. /\ frames' \in Seq(FrameSet)
      /\ \A i \in DOMAIN frames' : frames'[i].rest \subseteq DOMAIN children'[frames'[i].node]
      /\ \A m : Waiting(m)' = Waiting(m)
      /\ \A i \in Nat, x \in Node : FromFrame(i, x)' <=> i = 1 /\ x = d
  BY <1>1, <1>2, <1>3, DeleteBegins
<1>6. \A m \in Node, s \in Segments, x \in Node : FromNode(m, s, x)' <=> FromNode(m, s, x)
  BY <1>1, <1>2, <1>5, NodesSame
<1>7. \A i \in Nat, x \in Node : ~FromFrame(i, x)
  BY <1>1, WaitingIdle
<1>8. ASSUME NEW x \in Node
      PROVE  /\ x \notin allocated' \ leaked' => Unowned(x)'
             /\ x \in allocated' \ leaked' => Owned(x)'
             /\ OwnedOnce(x)'
  <2>1. /\ x \notin allocated \ leaked => Unowned(x)
        /\ x \in allocated \ leaked => Owned(x)
        /\ OwnedOnce(x)
    BY <1>2 DEF Owners
  <2>2. CASE x = d
    BY <2>1, <2>2, <1>1, <1>3, <1>4, <1>5, <1>6, <1>7 DEF Unowned, Owned, OwnedOnce
  <2>3. CASE x # d
    BY <2>1, <2>3, <1>1, <1>3, <1>4, <1>5, <1>6, <1>7 DEF Unowned, Owned, OwnedOnce
  <2>4. QED
    BY <2>2, <2>3
<1>9. Shape'
  BY <1>1, <1>2, <1>5 DEF Shape
<1>10. QED
  BY <1>1, <1>8, <1>9 DEF IInv, CallShape, Owners

\* The stack of frames.
LEMMA PushFrame ==
  ASSUME frames \in Seq(FrameSet), frames # <<>>, NEW a \in FrameSet, NEW b \in FrameSet,
         frames' = Front(frames) \o <<a, b>>
  PROVE  /\ Len(frames) \in Nat \ {0} /\ Len(frames) \in DOMAIN frames
         /\ Last(frames) = frames[Len(frames)]
         /\ frames' \in Seq(FrameSet) /\ DOMAIN frames' = DOMAIN frames \cup {Len(frames) + 1}
         /\ frames'[Len(frames)] = a /\ frames'[Len(frames) + 1] = b
         /\ \A i \in DOMAIN frames \ {Len(frames)} : frames'[i] = frames[i]
         /\ DOMAIN frames = 1..Len(frames)
<1> DEFINE k == Len(frames)
<1>1. k \in Nat \ {0} /\ DOMAIN frames = 1..k /\ Last(frames) = frames[k]
  BY DEF Last
<1>2. /\ Front(frames) \in Seq(FrameSet) /\ Len(Front(frames)) = k - 1
      /\ \A i \in 1..(k - 1) : Front(frames)[i] = frames[i]
  BY <1>1 DEF Front
<1>3. <<a, b>> \in Seq(FrameSet) /\ Len(<<a, b>>) = 2
  OBVIOUS
<1> HIDE DEF Front, k
<1>4. frames' \in Seq(FrameSet) /\ Len(frames') = k + 1
  BY <1>1, <1>2, <1>3
<1>5. DOMAIN frames' = 1..(k + 1)
  BY <1>1, <1>4
<1>6. frames'[k] = a /\ frames'[k + 1] = b /\ \A i \in 1..(k - 1) : frames'[i] = frames[i]
  <2>1. PICK hd : hd = Front(frames)
    OBVIOUS
  <2>2. frames' = hd \o <<a, b>> /\ hd \in Seq(FrameSet) /\ Len(hd) = k - 1
    BY <2>1, <1>2
  <2>3. frames'[k] = a /\ frames'[k + 1] = b /\ \A i \in 1..(k - 1) : frames'[i] = hd[i]
    BY <2>2, <1>1
  <2>4. QED
    BY <2>1, <2>3, <1>2
<1>7. DOMAIN frames' = DOMAIN frames \cup {k + 1}
  BY <1>1, <1>5
<1>8. \A i \in DOMAIN frames \ {k} : i \in 1..(k - 1)
  BY <1>1
<1>9. k \in DOMAIN frames /\ \A i \in DOMAIN frames \ {k} : frames'[i] = frames[i]
  <2>1. k \in DOMAIN frames
    BY <1>1
  <2>2. \A i \in DOMAIN frames \ {k} : frames'[i] = frames[i]
    BY <1>6, <1>8
  <2>3. QED
    BY <2>1, <2>2
<1>10. k = Len(frames)
  BY DEF k
<1>11. QED
  BY <1>1, <1>4, <1>6, <1>7, <1>9, <1>10

LEMMA PopFrame ==
  ASSUME NEW fs \in Seq(FrameSet), fs # <<>>, NEW k, k = Len(fs)
  PROVE  /\ k \in Nat \ {0} /\ k \in DOMAIN fs /\ Last(fs) = fs[k]
         /\ Front(fs) \in Seq(FrameSet) /\ DOMAIN Front(fs) = DOMAIN fs \ {k}
         /\ \A i \in DOMAIN fs \ {k} : Front(fs)[i] = fs[i]
<1>1. k \in Nat \ {0} /\ DOMAIN fs = 1..k /\ Last(fs) = fs[k]
  BY DEF Last
<1>2. Front(fs) \in Seq(FrameSet) /\ Len(Front(fs)) = k - 1 /\ \A i \in 1..(k - 1) : Front(fs)[i] = fs[i]
  BY <1>1 DEF Front
<1>3. DOMAIN Front(fs) = 1..(k - 1)
  BY <1>1, <1>2
<1>4. QED
  BY <1>1, <1>2, <1>3

\* deleteTrie goes down: the entry of the parent is its frame's to forget,
\* and the child has a frame of its own.
LEMMA DeleteChildKeeps ==
  ASSUME IInv, DeleteChild
  PROVE  IInv'
<1> DEFINE k == Len(frames)
           f == Last(frames)
<1>1. PICK s \in f.rest :
        frames' = Front(frames) \o <<[f EXCEPT !.rest = @ \ {s}], Frame(children[f.node][s])>>
  BY DEF DeleteChild
<1>2. Shape /\ Owners /\ frames # <<>> /\ call = NoCall
  BY DEF IInv, CallShape, DeleteChild
<1>3. UNCHANGED <<alive, root_, allocated, children, end, leaked, call, crashed>>
  BY DEF DeleteChild
<1> DEFINE c == children[f.node][s]
           g == [f EXCEPT !.rest = @ \ {s}]
<1> HIDE DEF g
<1>4. /\ f \in FrameSet /\ f.node \in Node /\ f.rest \subseteq DOMAIN children[f.node]
      /\ s \in DOMAIN children[f.node] /\ s \in Segments /\ c \in Node
  <2>1. k \in DOMAIN frames /\ f = frames[k]
    <3>1. frames \in Seq(FrameSet) /\ frames # <<>>
      BY <1>2 DEF Shape
    <3>2. QED
      BY <3>1, PopFrame
  <2>2. frames[k] \in FrameSet /\ frames[k].rest \subseteq DOMAIN children[frames[k].node]
    BY <2>1, <1>2 DEF Shape
  <2>3. frames[k].node \in Node
    BY <2>2 DEF FrameSet
  <2>4. f \in FrameSet /\ f.node \in Node /\ f.rest \subseteq DOMAIN children[f.node]
    BY <2>1, <2>2, <2>3
  <2>5. QED
    BY <2>4, <1>1, <1>2 DEF Shape
<1>5. g \in FrameSet /\ g.node = f.node /\ g.rest = f.rest \ {s}
  <2> HIDE DEF f
  <2>1. QED
    BY <1>4 DEF FrameSet, g
<1>6. Frame(c) \in FrameSet /\ Frame(c).node = c /\ Frame(c).rest = DOMAIN children[c]
  BY <1>2, <1>4 DEF Frame, FrameSet, Shape
<1> HIDE DEF c
<1>7. /\ k \in Nat \ {0} /\ k \in DOMAIN frames /\ f = frames[k]
      /\ frames' \in Seq(FrameSet) /\ DOMAIN frames' = DOMAIN frames \cup {k + 1}
      /\ frames'[k] = g /\ frames'[k + 1] = Frame(c)
      /\ \A i \in DOMAIN frames \ {k} : frames'[i] = frames[i]
      /\ DOMAIN frames = 1..k
  <2>1. frames' = Front(frames) \o <<g, Frame(c)>>
    BY <1>1 DEF g, c
  <2>2. frames \in Seq(FrameSet) /\ frames # <<>>
    BY <1>2 DEF Shape
  <2>3. PICK a \in FrameSet, b \in FrameSet : a = g /\ b = Frame(c)
    BY <1>5, <1>6
  <2>4. frames' = Front(frames) \o <<a, b>>
    BY <2>1, <2>3
  <2>5. /\ Len(frames) \in Nat \ {0} /\ Len(frames) \in DOMAIN frames
        /\ Last(frames) = frames[Len(frames)]
        /\ frames' \in Seq(FrameSet) /\ DOMAIN frames' = DOMAIN frames \cup {Len(frames) + 1}
        /\ frames'[Len(frames)] = a /\ frames'[Len(frames) + 1] = b
        /\ \A i \in DOMAIN frames \ {Len(frames)} : frames'[i] = frames[i]
        /\ DOMAIN frames = 1..Len(frames)
    BY <2>2, <2>4, PushFrame
  <2>6. QED
    BY <2>3, <2>5
<1> HIDE DEF k, f
<1>8. \A i \in DOMAIN frames : frames[i].node = f.node => i = k
  <2>1. FromFrame(k, f.node)
    BY <1>7 DEF FromFrame
  <2>2. QED
    BY <2>1, <1>2, <1>4, <1>7 DEF Owners, OwnedOnce, FromFrame
<1>9. f.node \in allocated /\ FromNode(f.node, s, c)
  <2>1. f.node \in allocated
    BY <1>2, <1>4, <1>7 DEF Owners, Unowned, FromFrame
  <2>2. s \in Waiting(f.node)
    BY <1>1, <1>4, <1>7, <1>8 DEF Waiting
  <2>3. QED
    BY <2>1, <2>2 DEF FromNode, c
<1>10. c \in allocated \ leaked /\ \A i \in DOMAIN frames : frames[i].node # c
  BY <1>2, <1>4, <1>7, <1>9 DEF Owners, Unowned, OwnedOnce, FromFrame
<1>11. \A m \in Node : Waiting(m)' = IF m = f.node THEN Waiting(m) \ {s} ELSE Waiting(m)
  <2>1. SUFFICES ASSUME NEW m \in Node
                 PROVE  Waiting(m)' = IF m = f.node THEN Waiting(m) \ {s} ELSE Waiting(m)
    OBVIOUS
  <2>2. CASE m = f.node
    BY <2>2, <1>3, <1>5, <1>6, <1>7, <1>8, <1>10 DEF Waiting
  <2>3. CASE m = c /\ m # f.node
    BY <2>3, <1>3, <1>5, <1>6, <1>7, <1>10 DEF Waiting
  <2>4. CASE m # c /\ m # f.node
    BY <2>4, <1>3, <1>5, <1>6, <1>7 DEF Waiting
  <2>5. QED
    BY <2>2, <2>3, <2>4
<1>12. \A m \in Node, y \in Segments, x \in Node :
         FromNode(m, y, x)' <=> FromNode(m, y, x) /\ ~(m = f.node /\ y = s)
  BY <1>3, <1>11 DEF FromNode
<1>13. \A i \in Nat, x \in Node : FromFrame(i, x)' <=> FromFrame(i, x) \/ (i = k + 1 /\ x = c)
  BY <1>5, <1>6, <1>7 DEF FromFrame
<1>14. \A t \in Tries, x \in Node : FromRoot(t, x)' <=> FromRoot(t, x)
  BY <1>3 DEF FromRoot
<1>15. \A i \in Nat : ~FromFrame(i, c)
  BY <1>10 DEF FromFrame
<1>16. \A x \in Node : FromNode(f.node, s, x) => x = c
  BY DEF FromNode, c
<1>17. ASSUME NEW x \in Node
      PROVE  /\ x \notin allocated' \ leaked' => Unowned(x)'
             /\ x \in allocated' \ leaked' => Owned(x)'
             /\ OwnedOnce(x)'
  <2>1. /\ x \notin allocated \ leaked => Unowned(x)
        /\ x \in allocated \ leaked => Owned(x)
        /\ OwnedOnce(x)
    BY <1>2 DEF Owners
  <2>2. CASE x = c
    BY <2>1, <2>2, <1>3, <1>4, <1>7, <1>9, <1>10, <1>12, <1>13, <1>14, <1>15, <1>16 DEF Unowned, Owned, OwnedOnce
  <2>3. CASE x # c
    BY <2>1, <2>3, <1>3, <1>4, <1>7, <1>9, <1>10, <1>12, <1>13, <1>14, <1>15, <1>16 DEF Unowned, Owned, OwnedOnce
  <2>4. QED
    BY <2>2, <2>3
<1>18. Shape'
  <2>1. ASSUME NEW i \in DOMAIN frames'
        PROVE  frames'[i].rest \subseteq DOMAIN children[frames'[i].node]
    BY <2>1, <1>2, <1>4, <1>5, <1>6, <1>7 DEF Shape
  <2>2. QED
    BY <2>1, <1>2, <1>3, <1>7 DEF Shape
<1>19. QED
  BY <1>2, <1>3, <1>17, <1>18 DEF IInv, CallShape, Owners

LEMMA DeleteNodeKeeps ==
  ASSUME IInv, DeleteNode
  PROVE  IInv'
<1> DEFINE k == Len(frames)
           d == Last(frames).node
<1>1. /\ Last(frames).rest = {} /\ allocated' = allocated \ {d}
      /\ children' = [children EXCEPT ![d] = Childless]
      /\ end' = [end EXCEPT ![d] = FALSE]
      /\ frames' = Front(frames)
      /\ UNCHANGED <<alive, root_, leaked, call, crashed>>
  BY DEF DeleteNode
<1>2. Shape /\ Owners /\ frames # <<>> /\ call = NoCall
  BY DEF IInv, CallShape, DeleteNode
<1>3. /\ k \in Nat \ {0} /\ k \in DOMAIN frames /\ Last(frames) = frames[k]
      /\ frames' \in Seq(FrameSet) /\ DOMAIN frames' = DOMAIN frames \ {k}
      /\ \A i \in DOMAIN frames \ {k} : frames'[i] = frames[i]
  <2>1. frames \in Seq(FrameSet) /\ frames # <<>>
    BY <1>2 DEF Shape
  <2>2. QED
    BY <2>1, <1>1, PopFrame
<1>4. d \in Node /\ frames[k].node = d /\ frames[k].rest = {} /\ FromFrame(k, d)
  BY <1>1, <1>2, <1>3, FrameFacts DEF Shape, FromFrame
<1> HIDE DEF k, d
<1>5. d \in allocated \ leaked /\ \A i \in DOMAIN frames \ {k} : frames[i].node # d
  <2>1. \A i \in DOMAIN frames : i \in Nat
    BY <1>2, FrameFacts DEF Shape
  <2>2. QED
    BY <2>1, <1>2, <1>3, <1>4 DEF Owners, Unowned, OwnedOnce, FromFrame
<1>6. Waiting(d) = {}
  BY <1>3, <1>4 DEF Waiting
<1>7. \A m \in Node \ {d} : Waiting(m)' = Waiting(m) /\ children'[m] = children[m]
  BY <1>1, <1>2, <1>3, <1>4 DEF Waiting, Shape
<1>8. \A m \in Node, s \in Segments, x \in Node : FromNode(m, s, x)' <=> FromNode(m, s, x)
  BY <1>1, <1>6, <1>7 DEF FromNode
<1>9. \A i \in Nat, x \in Node : FromFrame(i, x)' <=> FromFrame(i, x) /\ i # k
  BY <1>3 DEF FromFrame
<1>10. \A t \in Tries, x \in Node : FromRoot(t, x)' <=> FromRoot(t, x)
  BY <1>1 DEF FromRoot
<1>11. \A x \in Node : FromFrame(k, x) => x = d
  BY <1>4 DEF FromFrame
<1>12. k \in Nat
  BY <1>3
<1>13. ASSUME NEW x \in Node
      PROVE  /\ x \notin allocated' \ leaked' => Unowned(x)'
             /\ x \in allocated' \ leaked' => Owned(x)'
             /\ OwnedOnce(x)'
  <2>1. /\ x \notin allocated \ leaked => Unowned(x)
        /\ x \in allocated \ leaked => Owned(x)
        /\ OwnedOnce(x)
    BY <1>2 DEF Owners
  <2>2. CASE x = d
    BY <2>1, <2>2, <1>1, <1>4, <1>5, <1>8, <1>9, <1>10, <1>11, <1>12 DEF Unowned, Owned, OwnedOnce
  <2>3. CASE x # d
    BY <2>1, <2>3, <1>1, <1>4, <1>5, <1>8, <1>9, <1>10, <1>11, <1>12 DEF Unowned, Owned, OwnedOnce
  <2>4. QED
    BY <2>2, <2>3
<1>14. Shape'
  <2>1. DOMAIN children'[d] = {} /\ DOMAIN children' = Node
    BY <1>1, <1>2, <1>4 DEF Shape, Childless
  <2>2. \A i \in DOMAIN frames' : frames'[i].rest \subseteq DOMAIN children'[frames'[i].node]
    BY <1>2, <1>3, <1>5, <1>7, FrameFacts DEF Shape
  <2>3. \A n \in Node : /\ DOMAIN children'[n] \subseteq Segments
                        /\ \A s \in DOMAIN children'[n] : children'[n][s] \in Node
    BY <2>1, <1>2, <1>7 DEF Shape
  <2>4. \A n \in Node \ (allocated' \ leaked') : DOMAIN children'[n] = {}
    BY <2>1, <1>1, <1>2, <1>7 DEF Shape
  <2>5. leaked' \subseteq allocated' /\ allocated' \subseteq Node /\ end' \in [Node -> BOOLEAN]
    BY <1>1, <1>2, <1>5 DEF Shape
  <2>6. QED
    BY <2>1, <2>2, <2>3, <2>4, <2>5, <1>1, <1>2, <1>3 DEF Shape
<1>15. QED
  BY <1>1, <1>2, <1>13, <1>14 DEF IInv, CallShape, Owners

\* Steps that leave the pointers alone.
LEMMA PointersSame ==
  ASSUME IInv, CallShape', end' \in [Node -> BOOLEAN], crashed' \in BOOLEAN,
         UNCHANGED <<alive, root_, allocated, children, leaked, frames>>
  PROVE  IInv'
<1>1. Shape /\ Owners
  BY DEF IInv
<1>2. Shape'
  BY <1>1 DEF Shape
<1>3. \A m \in Node, s \in Segments, x \in Node : FromNode(m, s, x)' <=> FromNode(m, s, x)
  BY <1>1, WaitingSame, NodesSame
<1>4. \A i \in Nat, x \in Node : FromFrame(i, x)' <=> FromFrame(i, x)
  BY FramesSame
<1>5. \A t \in Tries, x \in Node : FromRoot(t, x)' <=> FromRoot(t, x)
  BY DEF FromRoot
<1>6. ASSUME NEW x \in Node
      PROVE  /\ x \notin allocated' \ leaked' => Unowned(x)'
             /\ x \in allocated' \ leaked' => Owned(x)'
             /\ OwnedOnce(x)'
  <2>1. /\ x \notin allocated \ leaked => Unowned(x)
        /\ x \in allocated \ leaked => Owned(x)
        /\ OwnedOnce(x)
    BY <1>1 DEF Owners
  <2>2. QED
    BY <2>1, <1>3, <1>4, <1>5 DEF Unowned, Owned, OwnedOnce
<1>7. QED
  BY <1>2, <1>6 DEF IInv, Owners

LEMMA InsertKeeps ==
  ASSUME OwnershipAssumption, IInv, NEW t \in Tries, NEW p \in Paths, Insert(t, p)
  PROVE  IInv'
<1>1. PICK b : call' = [trie |-> t, path |-> p, done |-> 0, current |-> root_[t], before |-> b]
  BY DEF Insert
<1>2. /\ t \in alive /\ root_[t] # Null /\ frames = <<>>
      /\ UNCHANGED <<alive, root_, allocated, children, end, leaked, frames, crashed>>
  BY DEF Insert, Idle
<1>3. Shape /\ Owners
  BY DEF IInv
<1>4. root_[t] \in Node /\ root_[t] \in allocated \ leaked
  BY <1>2, <1>3 DEF Shape, Owners, Unowned, FromRoot
<1>5. p \in Seq(Range(p))
  BY DEF OwnershipAssumption
<1>6. 0 \in 0..Len(p)
  BY <1>5
<1>7. CallShape'
  BY <1>1, <1>2, <1>4, <1>6 DEF CallShape
<1>8. QED
  BY <1>2, <1>3, <1>7, PointersSame DEF Shape

LEMMA UseMovedFromKeeps ==
  ASSUME IInv, NEW t \in Tries, UseMovedFrom(t)
  PROVE  IInv'
<1>1. /\ call' = call /\ call = NoCall /\ crashed' \in BOOLEAN /\ end' = end
      /\ UNCHANGED <<alive, root_, allocated, children, leaked, frames>>
  BY DEF UseMovedFrom, Idle
<1>2. CallShape' /\ end' \in [Node -> BOOLEAN]
  BY <1>1 DEF IInv, CallShape, Shape
<1>3. QED
  BY <1>1, <1>2, PointersSame

LEMMA SegmentFacts ==
  ASSUME OwnershipAssumption, CallShape, Inserting
  PROVE  /\ Segment \in Segments /\ call.done \in Nat /\ call.done + 1 \in 0..Len(call.path)
         /\ frames = <<>> /\ call.current \in allocated \ leaked
<1>1. /\ call.path \in Paths /\ call.done \in 0..Len(call.path) /\ call.done < Len(call.path)
      /\ frames = <<>> /\ call.current \in allocated \ leaked
  BY DEF Inserting, CallShape
<1>2. call.path \in Seq(Range(call.path))
  BY <1>1 DEF OwnershipAssumption
<1>3. call.done \in Nat /\ call.done + 1 \in 1..Len(call.path)
  BY <1>1, <1>2
<1>4. call.path[call.done + 1] \in Range(call.path)
  BY <1>2, <1>3
<1>5. QED
  BY <1>1, <1>3, <1>4 DEF Segment, Segments

LEMMA ContinueShape ==
  ASSUME OwnershipAssumption, CallShape, Inserting, NEW n \in Node, Continue(n),
         UNCHANGED <<alive, frames>>, n \in allocated' \ leaked'
  PROVE  CallShape'
<1> DEFINE passed == [call EXCEPT !.done = call.done + 1]
<1>1. call' = [passed EXCEPT !.current = n]
  BY DEF Continue
<1>2. /\ call \in [trie : Tries, path : Paths, done : Nat, current : Node, before : {call.before}]
      /\ call.trie \in alive /\ call.path \in Paths /\ frames = <<>>
  BY DEF CallShape, Inserting
<1>3. call.done + 1 \in 0..Len(call.path) /\ call.done \in Nat
  BY SegmentFacts
<1>4. /\ passed \in [trie : Tries, path : Paths, done : Nat, current : Node, before : {call.before}]
      /\ passed.trie = call.trie /\ passed.path = call.path /\ passed.done = call.done + 1
      /\ passed.before = call.before
  BY <1>2, <1>3
<1> HIDE DEF passed
<1>5. /\ call' \in [trie : Tries, path : Paths, done : Nat, current : Node, before : {call.before}]
      /\ call'.trie = call.trie /\ call'.path = call.path /\ call'.done = call.done + 1
      /\ call'.current = n /\ call'.before = call.before
  BY <1>1, <1>4
<1>6. QED
  BY <1>2, <1>3, <1>5 DEF CallShape

LEMMA PassSegmentKeeps ==
  ASSUME OwnershipAssumption, IInv, PassSegment
  PROVE  IInv'
<1> DEFINE c == children[call.current][Segment]
<1>1. /\ Inserting /\ Segment \in DOMAIN children[call.current]
      /\ end' = [end EXCEPT ![c] = FALSE] /\ Continue(c)
      /\ UNCHANGED <<alive, root_, allocated, children, leaked, frames, crashed>>
  BY DEF PassSegment
<1>2. Shape /\ Owners /\ CallShape
  BY DEF IInv
<1>3. Segment \in Segments /\ frames = <<>> /\ call.current \in allocated \ leaked
  BY <1>1, <1>2, SegmentFacts
<1>4. c \in Node /\ call.current \in Node /\ Segment \in Waiting(call.current)
  BY <1>1, <1>2, <1>3, WaitingIdle DEF Shape
<1>5. FromNode(call.current, Segment, c)
  BY <1>3, <1>4 DEF FromNode
<1>6. c \in allocated \ leaked
  BY <1>2, <1>3, <1>4, <1>5 DEF Owners, Unowned
<1> HIDE DEF c
<1>7. CallShape'
  BY <1>1, <1>2, <1>4, <1>6, ContinueShape
<1>8. end' \in [Node -> BOOLEAN] /\ crashed' \in BOOLEAN
  BY <1>1, <1>2, <1>4 DEF Shape
<1>9. QED
  BY <1>1, <1>7, <1>8, PointersSame

\* Insert links a new node: the entry is its one owner.
LEMMA AddSegmentKeeps ==
  ASSUME OwnershipAssumption, IInv, AddSegment
  PROVE  IInv'
<1> DEFINE k == call.current
           y == Segment
<1>1. PICK n \in Node \ allocated :
        /\ allocated' = allocated \cup {n}
        /\ children' = [children EXCEPT ![k] = Linked(@, y, n)]
        /\ Continue(n)
  BY DEF AddSegment
<1>2. /\ Inserting /\ y \notin DOMAIN children[k]
      /\ UNCHANGED <<alive, root_, end, leaked, frames, crashed>>
  BY DEF AddSegment
<1>3. Shape /\ Owners /\ CallShape
  BY DEF IInv
<1>4. y \in Segments /\ frames = <<>> /\ k \in allocated \ leaked /\ k \in Node /\ k # n
  BY <1>1, <1>2, <1>3, SegmentFacts DEF Shape
<1> HIDE DEF k, y
<1>5. /\ DOMAIN children'[k] = DOMAIN children[k] \cup {y}
      /\ children'[k][y] = n /\ \A s \in DOMAIN children[k] : children'[k][s] = children[k][s]
  <2>1. children'[k] = Linked(children[k], y, n)
    BY <1>1, <1>3, <1>4 DEF Shape
  <2>2. QED
    BY <2>1, <1>2 DEF Linked
<1>6. DOMAIN children' = Node /\ \A m \in Node \ {k} : children'[m] = children[m]
  BY <1>1, <1>3 DEF Shape
<1>7. /\ \A m : Waiting(m) = DOMAIN children[m]
      /\ \A m : Waiting(m)' = DOMAIN children'[m]
  BY <1>2, <1>4 DEF Waiting
<1>8. DOMAIN children[n] = {} /\ n \notin leaked
  BY <1>1, <1>3 DEF Shape
<1>9. \A m \in Node, s \in Segments, x \in Node :
        FromNode(m, s, x)' <=> FromNode(m, s, x) \/ (m = k /\ s = y /\ x = n)
  <2>1. SUFFICES ASSUME NEW m \in Node, NEW s \in Segments, NEW x \in Node
                 PROVE  FromNode(m, s, x)' <=> FromNode(m, s, x) \/ (m = k /\ s = y /\ x = n)
    OBVIOUS
  <2>2. CASE m = k
    BY <2>2, <1>1, <1>2, <1>4, <1>5, <1>7 DEF FromNode
  <2>3. CASE m # k
    BY <2>3, <1>1, <1>6, <1>7, <1>8 DEF FromNode
  <2>4. QED
    BY <2>2, <2>3
<1>10. \A i \in Nat, x \in Node : FromFrame(i, x)' <=> FromFrame(i, x)
  BY <1>2, FramesSame
<1>11. \A t \in Tries, x \in Node : FromRoot(t, x)' <=> FromRoot(t, x)
  BY <1>2 DEF FromRoot
<1>12. Unowned(n) /\ \A x \in Node : ~FromNode(k, y, x)
  BY <1>1, <1>2, <1>3, <1>7 DEF Owners, FromNode
<1>13. ASSUME NEW x \in Node
       PROVE  /\ x \notin allocated' \ leaked' => Unowned(x)'
              /\ x \in allocated' \ leaked' => Owned(x)'
              /\ OwnedOnce(x)'
  <2>1. /\ x \notin allocated \ leaked => Unowned(x)
        /\ x \in allocated \ leaked => Owned(x)
        /\ OwnedOnce(x)
    BY <1>3 DEF Owners
  <2>2. CASE x = n
    BY <2>2, <1>1, <1>2, <1>4, <1>8, <1>9, <1>10, <1>11, <1>12 DEF Unowned, Owned, OwnedOnce
  <2>3. CASE x # n
    BY <2>1, <2>3, <1>1, <1>2, <1>9, <1>10, <1>11 DEF Unowned, Owned, OwnedOnce
  <2>4. QED
    BY <2>2, <2>3
<1>14. \A m \in Node : /\ DOMAIN children'[m] \subseteq Segments
                       /\ \A s \in DOMAIN children'[m] : children'[m][s] \in Node
  <2>1. SUFFICES ASSUME NEW m \in Node
                 PROVE  /\ DOMAIN children'[m] \subseteq Segments
                        /\ \A s \in DOMAIN children'[m] : children'[m][s] \in Node
    OBVIOUS
  <2>2. CASE m = k
    BY <2>2, <1>1, <1>3, <1>4, <1>5 DEF Shape
  <2>3. CASE m # k
    BY <2>3, <1>3, <1>6 DEF Shape
  <2>4. QED
    BY <2>2, <2>3
<1>15. \A m \in Node \ (allocated' \ leaked') : DOMAIN children'[m] = {}
  BY <1>1, <1>2, <1>3, <1>4, <1>6 DEF Shape
<1>16. frames' \in Seq(FrameSet) /\ DOMAIN frames' = {}
  BY <1>2, <1>4
<1>17. Shape'
  BY <1>1, <1>2, <1>3, <1>6, <1>14, <1>15, <1>16 DEF Shape
<1>18. CallShape'
  <2>1. n \in allocated' \ leaked' /\ n \in Node
    BY <1>1, <1>2, <1>8
  <2>2. QED
    BY <2>1, <1>1, <1>2, <1>3, ContinueShape
<1>19. QED
  BY <1>13, <1>17, <1>18 DEF IInv, Owners

LEMMA InsertThrowsKeeps ==
  ASSUME IInv, InsertThrows
  PROVE  IInv'
<1>1. call' = NoCall /\ UNCHANGED <<alive, root_, children, end, frames, crashed>>
  BY DEF InsertThrows
<1>2. Shape /\ Owners /\ CallShape'
  BY <1>1 DEF IInv, CallShape
<1>3. CASE UNCHANGED <<allocated, leaked>>
  <2>1. end' \in [Node -> BOOLEAN] /\ crashed' \in BOOLEAN
    BY <1>1, <1>2 DEF Shape
  <2>2. QED
    BY <2>1, <1>1, <1>2, <1>3, PointersSame
<1>4. ASSUME NEW n \in Node \ allocated, allocated' = allocated \cup {n}, leaked' = leaked \cup {n}
      PROVE  IInv'
  <2>1. n \notin leaked /\ DOMAIN children[n] = {} /\ allocated' \ leaked' = allocated \ leaked
    BY <1>2, <1>4 DEF Shape
  <2>2. \A m : Waiting(m)' = Waiting(m)
    BY <1>1, WaitingSame
  <2>3. \A m \in Node, s \in Segments, x \in Node : FromNode(m, s, x)' <=> FromNode(m, s, x)
    <3>1. \A m \in allocated' \ allocated : DOMAIN children[m] = {}
      BY <2>1, <1>4
    <3>2. QED
      BY <3>1, <2>2, <1>1, <1>2, <1>4, NodesSame
  <2>4. \A i \in Nat, x \in Node : FromFrame(i, x)' <=> FromFrame(i, x)
    BY <1>1, FramesSame
  <2>5. \A t \in Tries, x \in Node : FromRoot(t, x)' <=> FromRoot(t, x)
    BY <1>1 DEF FromRoot
  <2>6. ASSUME NEW x \in Node
        PROVE  /\ x \notin allocated' \ leaked' => Unowned(x)'
               /\ x \in allocated' \ leaked' => Owned(x)'
               /\ OwnedOnce(x)'
    <3>1. /\ x \notin allocated \ leaked => Unowned(x)
          /\ x \in allocated \ leaked => Owned(x)
          /\ OwnedOnce(x)
      BY <1>2 DEF Owners
    <3>2. QED
      BY <3>1, <2>1, <2>3, <2>4, <2>5 DEF Unowned, Owned, OwnedOnce
  <2>7. Shape'
    BY <2>1, <1>1, <1>2, <1>4 DEF Shape
  <2>8. QED
    BY <2>6, <2>7, <1>2 DEF IInv, Owners
<1>5. QED
  BY <1>3, <1>4 DEF InsertThrows

LEMMA InsertReturnsKeeps ==
  ASSUME IInv, InsertReturns
  PROVE  IInv'
<1>1. /\ call # NoCall /\ call' = NoCall /\ end' = [end EXCEPT ![call.current] = TRUE]
      /\ UNCHANGED <<alive, root_, allocated, children, leaked, frames, crashed>>
  BY DEF InsertReturns
<1>2. CallShape' /\ end' \in [Node -> BOOLEAN] /\ crashed' \in BOOLEAN
  BY <1>1 DEF IInv, Shape, CallShape
<1>3. QED
  BY <1>1, <1>2, PointersSame

LEMMA StutterKeeps ==
  ASSUME IInv, UNCHANGED vars
  PROVE  IInv'
<1>1. UNCHANGED <<alive, root_, allocated, children, end, leaked, call, frames, crashed>>
  BY DEF vars
<1>2. CallShape' /\ end' \in [Node -> BOOLEAN] /\ crashed' \in BOOLEAN
  BY <1>1 DEF IInv, Shape, CallShape
<1>3. QED
  BY <1>1, <1>2, PointersSame

-----------------------------------------------------------------------------
\* IInv holds of every state: no step of an object's functions, of Insert or
\* of deleteTrie leaves a node without its owner or with two.
THEOREM Invariance == Spec => []IInv
<1>1. Init => IInv
  BY InitIInv, OwnershipAssumption
<1>2. IInv /\ [Next]_vars => IInv'
  <2>1. SUFFICES ASSUME IInv, [Next]_vars
                 PROVE  IInv'
    OBVIOUS
  <2>2. ASSUME NEW t \in Tries, Construct(t) \/ AssignNew(t) \/ Destroy(t) \/ UseMovedFrom(t)
        PROVE  IInv'
    BY <2>1, <2>2, ConstructKeeps, AssignNewKeeps, DestroyKeeps, UseMovedFromKeeps, OwnershipAssumption
  <2>3. ASSUME NEW t \in Tries, NEW u \in Tries, MoveConstruct(t, u) \/ Assign(t, u) \/ Swap(t, u)
        PROVE  IInv'
    BY <2>1, <2>3, MoveConstructKeeps, AssignKeeps, SwapKeeps, OwnershipAssumption
  <2>4. ASSUME NEW t \in Tries, NEW p \in Paths, Insert(t, p)
        PROVE  IInv'
    BY <2>1, <2>4, InsertKeeps, OwnershipAssumption
  <2>5. CASE DeleteChild
    BY <2>1, <2>5, DeleteChildKeeps
  <2>6. CASE DeleteNode
    BY <2>1, <2>6, DeleteNodeKeeps
  <2>7. CASE PassSegment
    BY <2>1, <2>7, PassSegmentKeeps, OwnershipAssumption
  <2>8. CASE AddSegment
    BY <2>1, <2>8, AddSegmentKeeps, OwnershipAssumption
  <2>9. CASE InsertThrows
    BY <2>1, <2>9, InsertThrowsKeeps
  <2>10. CASE InsertReturns
    BY <2>1, <2>10, InsertReturnsKeeps
  <2>11. CASE UNCHANGED vars
    BY <2>1, <2>11, StutterKeeps
  <2>12. QED
    BY <2>1, <2>2, <2>3, <2>4, <2>5, <2>6, <2>7, <2>8, <2>9, <2>10, <2>11 DEF Next, Step
<1>3. QED
  BY <1>1, <1>2, PTL DEF Spec

\* The type invariant: roots, running insertions and deletions never use a
\* node that was freed.
THEOREM TypeCorrect == Spec => []TypeOK
<1>1. IInv => TypeOK
  BY InvariantImplies, OwnershipAssumption
<1>2. QED
  BY <1>1, Invariance, PTL

LEMMA OwnersAreOne ==
  ASSUME IInv
  PROVE  OneOwner
<1>1. SUFFICES ASSUME NEW n \in Node
               PROVE  IF n \in allocated \ leaked
                      THEN \/ Single(ByRoot(n)) /\ ByParent(n) = {} /\ ByFrame(n) = {}
                           \/ Single(ByParent(n)) /\ ByRoot(n) = {} /\ ByFrame(n) = {}
                           \/ Single(ByFrame(n)) /\ ByRoot(n) = {} /\ ByParent(n) = {}
                      ELSE ByRoot(n) = {} /\ ByParent(n) = {} /\ ByFrame(n) = {}
  BY DEF OneOwner
<1>2. Shape /\ Owners
  BY DEF IInv
<1>3. \A t : t \in ByRoot(n) <=> t \in Tries /\ FromRoot(t, n)
  BY <1>2 DEF ByRoot, FromRoot, Shape
<1>4. \A i : i \in ByFrame(n) <=> i \in Nat /\ FromFrame(i, n)
  BY <1>2, FrameFacts DEF ByFrame, FromFrame, Shape
<1>5. /\ \A e \in ByParent(n) : e[1] \in Node /\ e[2] \in Segments /\ FromNode(e[1], e[2], n)
                                /\ e = <<e[1], e[2]>>
      /\ \A m \in Node, s \in Segments : FromNode(m, s, n) => <<m, s>> \in ByParent(n)
  BY <1>2 DEF ByParent, FromNode, Shape
<1>6. OwnedOnce(n)
  BY <1>2 DEF Owners
<1>7. CASE n \notin allocated \ leaked
  <2>1. Unowned(n)
    BY <1>2, <1>7 DEF Owners
  <2>2. ByRoot(n) = {} /\ ByParent(n) = {} /\ ByFrame(n) = {}
    BY <2>1, <1>3, <1>4, <1>5 DEF Unowned
  <2>3. QED
    BY <2>2, <1>7
<1>8. ASSUME n \in allocated \ leaked, NEW t \in Tries, FromRoot(t, n)
      PROVE  Single(ByRoot(n)) /\ ByParent(n) = {} /\ ByFrame(n) = {}
  <2>1. ByRoot(n) = {t} /\ ByParent(n) = {} /\ ByFrame(n) = {}
    BY <1>3, <1>4, <1>5, <1>6, <1>8 DEF OwnedOnce
  <2>2. QED
    BY <2>1 DEF Single
<1>9. ASSUME n \in allocated \ leaked, NEW m \in Node, NEW s \in Segments, FromNode(m, s, n)
      PROVE  Single(ByParent(n)) /\ ByRoot(n) = {} /\ ByFrame(n) = {}
  <2>1. ByParent(n) = {<<m, s>>}
    BY <1>5, <1>6, <1>9 DEF OwnedOnce
  <2>2. ByRoot(n) = {} /\ ByFrame(n) = {}
    BY <1>3, <1>4, <1>6, <1>9 DEF OwnedOnce
  <2>3. QED
    BY <2>1, <2>2 DEF Single
<1>10. ASSUME n \in allocated \ leaked, NEW i \in Nat, FromFrame(i, n)
      PROVE  Single(ByFrame(n)) /\ ByRoot(n) = {} /\ ByParent(n) = {}
  <2>1. ByFrame(n) = {i} /\ ByRoot(n) = {} /\ ByParent(n) = {}
    BY <1>3, <1>4, <1>5, <1>6, <1>10 DEF OwnedOnce
  <2>2. QED
    BY <2>1 DEF Single
<1>11. n \in allocated \ leaked => Owned(n)
  BY <1>2 DEF Owners
<1>12. QED
  BY <1>7, <1>8, <1>9, <1>10, <1>11 DEF Owned

\* For any objects, heap and paths, in every state, those in the middle of an
\* insertion or a deletion included: a node in use is to be freed by one call,
\* of one owner, and nothing leads to a node that was freed or lost.
THEOREM OwnersCorrect == Spec => []OneOwner
<1>1. IInv => OneOwner
  BY OwnersAreOne
<1>2. QED
  BY <1>1, Invariance, PTL


(***************************************************************************)
(* Trails.                                                                 *)
(***************************************************************************)
LEMMA FrontFacts ==
  ASSUME NEW C, NEW s \in Seq(C), s # <<>>
  PROVE  /\ Front(s) \in Seq(C) /\ Len(Front(s)) = Len(s) - 1 /\ Len(s) \in Nat /\ Len(s) >= 1
         /\ \A i \in 1..(Len(s) - 1) : Front(s)[i] = s[i]
         /\ Last(s) \in C /\ s = Append(Front(s), Last(s))
<1> DEFINE l == Len(s)
<1>1. l \in Nat /\ l >= 1 /\ 1 \in Int /\ l - 1 \in Int
  OBVIOUS
<1>0. \A i \in 1..(Len(s) - 1) : s[i] \in C
  BY <1>1
<1> DEFINE u == SubSeq(s, 1, l - 1)
<1>9. /\ u \in Seq(C) /\ Len(u) = IF 1 <= l - 1 THEN (l - 1) - 1 + 1 ELSE 0
      /\ \A i \in 1..((l - 1) - 1 + 1) : u[i] = s[1 + i - 1]
  BY <1>0, <1>1, SubSeqProperties
<1>10. u \in Seq(C) /\ Len(u) = l - 1 /\ \A i \in 1..(l - 1) : u[i] = s[i]
  <2> HIDE DEF u, l
  <2>1. (l - 1) - 1 + 1 = l - 1
    BY <1>1
  <2>6. Len(u) = IF 1 <= l - 1 THEN (l - 1) - 1 + 1 ELSE 0
    BY <1>9
  <2>2. Len(u) = l - 1
    BY <1>1, <2>6
  <2>3. \A i \in 1..(l - 1) : u[i] = s[1 + i - 1]
    BY <1>9, <2>1
  <2>4. \A i \in 1..(l - 1) : 1 + i - 1 = i
    OBVIOUS
  <2>5. QED
    BY <1>9, <2>2, <2>3, <2>4
<1>11. u = Front(s)
  BY DEF Front
<1> HIDE DEF u
<1>2. Front(s) \in Seq(C) /\ Len(Front(s)) = Len(s) - 1
  BY <1>10, <1>11
<1>3. Last(s) \in C
  BY <1>1 DEF Last
<1>4. \A i \in 1..(Len(s) - 1) : Front(s)[i] = s[i]
  BY <1>10, <1>11
<1> DEFINE t == Append(Front(s), Last(s))
<1>5. t \in Seq(C) /\ Len(t) = Len(s)
  BY <1>1, <1>2, <1>3
<1>6. \A i \in 1..Len(s) : t[i] = s[i]
  BY <1>1, <1>2, <1>3, <1>4 DEF Last
<1> HIDE DEF t
<1>7. s = t
  BY <1>5, <1>6, SeqEqual
<1>8. QED
  BY <1>1, <1>2, <1>3, <1>4, <1>7 DEF t

LEMMA FrontOfSuffix ==
  ASSUME NEW C, NEW s \in Seq(C), NEW i \in 1..Len(s)
  PROVE  Front(SubSeq(s, i, Len(s))) = SubSeq(Front(s), i, Len(Front(s)))
<1>1. Len(s) \in Nat /\ Len(s) >= 1 /\ s # <<>>
  OBVIOUS
<1> DEFINE u == SubSeq(s, i, Len(s))  f == Front(s)
           a == SubSeq(u, 1, Len(u) - 1)  b == SubSeq(f, i, Len(f))
<1>2. u \in Seq(C) /\ Len(u) = Len(s) - i + 1 /\ \A j \in 1..(Len(s) - i + 1) : u[j] = s[i + j - 1]
  BY <1>1
<1>3. f \in Seq(C) /\ Len(f) = Len(s) - 1 /\ \A j \in 1..(Len(s) - 1) : f[j] = s[j]
  BY <1>1, FrontFacts
<1> HIDE DEF u, f
<1>4. a \in Seq(C) /\ Len(a) = Len(s) - i /\ \A j \in 1..(Len(s) - i) : a[j] = s[i + j - 1]
  BY <1>1, <1>2
<1>5. b \in Seq(C) /\ Len(b) = Len(s) - i /\ \A j \in 1..(Len(s) - i) : b[j] = s[i + j - 1]
  BY <1>1, <1>3
<1> HIDE DEF a, b
<1>6. a = b
  BY <1>4, <1>5, SeqEqual
<1>7. QED
  BY <1>6 DEF a, b, u, f, Front

LEMMA PathFacts ==
  ASSUME NEW p \in Paths
  PROVE  p \in Seq(Segments) /\ Len(p) \in Nat /\ p \in Trails
<1>1. p \in Seq(Range(p))
  BY OwnershipAssumption
<1>2. Range(p) \subseteq Segments
  BY DEF Segments
<1>3. p \in Seq(Segments)
  BY <1>1, <1>2, SeqMonotonic
<1>4. SubSeq(p, 1, Len(p)) = p /\ Len(p) \in Nat
  BY <1>3, SubSeqFull
<1>5. 1 \in 1..(Len(p) + 1)
  BY <1>4
<1>6. QED
  BY <1>3, <1>4, <1>5 DEF Trails

LEMMA TrailIntro ==
  ASSUME NEW p \in Paths, NEW i \in 1..(Len(p) + 1)
  PROVE  SubSeq(p, i, Len(p)) \in Trails
<1> DEFINE n == Len(p)
<1>1. SubSeq(p, i, Len(p)) \in {SubSeq(p, j, Len(p)) : j \in 1..(Len(p) + 1)}
  OBVIOUS
<1>2. QED
  BY <1>1 DEF Trails

LEMMA TrailFacts ==
  ASSUME NEW p \in Trails
  PROVE  /\ p \in Seq(Segments) /\ Len(p) \in Nat
         /\ p # <<>> => /\ Front(p) \in Trails /\ Len(Front(p)) = Len(p) - 1
                        /\ Last(p) \in Segments /\ p = Append(Front(p), Last(p))
<1>0. PICK r \in Paths : \E i \in 1..(Len(r) + 1) : p = SubSeq(r, i, Len(r))
  BY DEF Trails
<1>1. PICK i \in 1..(Len(r) + 1) : p = SubSeq(r, i, Len(r))
  BY <1>0
<1>2. r \in Seq(Segments) /\ Len(r) \in Nat
  BY PathFacts
<1>3. p \in Seq(Segments) /\ Len(p) \in Nat
  BY <1>1, <1>2
<1>4. ASSUME p # <<>>
      PROVE  Front(p) \in Trails
  <2>1. i \in 1..Len(r) /\ r # <<>>
    <3>1. i # Len(r) + 1
      BY <1>1, <1>2, <1>4
    <3>2. QED
      BY <1>2, <3>1
  <2>2. Front(p) = SubSeq(Front(r), i, Len(Front(r)))
    BY <1>1, <1>2, <2>1, FrontOfSuffix
  <2>3. Front(r) \in Paths /\ Len(Front(r)) = Len(r) - 1
    BY <1>2, <2>1, FrontFacts, OwnershipAssumption
  <2>4. i \in 1..(Len(Front(r)) + 1)
    BY <1>2, <2>1, <2>3
  <2>5. QED
    <3> DEFINE f == Front(r)
    <3>1. f \in Paths /\ i \in 1..(Len(f) + 1) /\ Front(p) = SubSeq(f, i, Len(f))
      BY <2>2, <2>3, <2>4
    <3> HIDE DEF f
    <3>2. QED
      BY <3>1, TrailIntro
<1>5. QED
  BY <1>3, <1>4, FrontFacts

(***************************************************************************)
(* The recursion of Reached.                                               *)
(***************************************************************************)
\* The node one segment further than the walk at, and Null from Null.
Onward(ch, at, n, p) ==
  IF p = <<>> THEN n
  ELSE LET m == at[Front(p)]
       IN  IF m # Null /\ Last(p) \in DOMAIN ch[m]
           THEN ch[m][Last(p)] ELSE Null

Walks(ch, at, n, l) == at = [p \in {q \in Trails : Len(q) <= l} |-> Onward(ch, at, n, p)]

LEMMA OnwardAgrees ==
  ASSUME NEW ch, NEW g, NEW h, NEW n, NEW p, p # <<>> => g[Front(p)] = h[Front(p)]
  PROVE  Onward(ch, g, n, p) = Onward(ch, h, n, p)
BY DEF Onward

LEMMA WalkExists ==
  ASSUME NEW ch, NEW n, NEW l \in Nat
  PROVE  \E at : Walks(ch, at, n, l)
<1> DEFINE T == {m \in Nat : ~\E at : Walks(ch, at, n, m)}
<1> SUFFICES ASSUME l \in T
             PROVE  FALSE
  OBVIOUS
<1>1. PICK m \in T : \A j \in T : m <= j
  BY Data!LeastNat
<1>2. m # 0
  <2>1. ASSUME m = 0
        PROVE  FALSE
    <3> DEFINE g == [p \in {q \in Trails : Len(q) <= 0} |-> n]
    <3>1. \A p \in Trails : Len(p) <= 0 => p = <<>>
      BY TrailFacts
    <3>2. \A p \in {q \in Trails : Len(q) <= 0} : Onward(ch, g, n, p) = n
      BY <3>1 DEF Onward
    <3> DEFINE h == [p \in {q \in Trails : Len(q) <= 0} |-> Onward(ch, g, n, p)]
    <3>3. g = h
      BY <3>2
    <3>4. Walks(ch, g, n, 0)
      BY <3>3 DEF Walks
    <3>5. QED
      BY <1>1, <2>1, <3>4
  <2>2. QED
    BY <2>1
<1>3. m \in Nat /\ m - 1 \in Nat /\ m - 1 \notin T
  BY <1>1, <1>2
<1>4. PICK g : Walks(ch, g, n, m - 1)
  BY <1>3
<1> DEFINE h == [p \in {q \in Trails : Len(q) <= m} |-> Onward(ch, g, n, p)]
<1>5. \A p \in {q \in Trails : Len(q) <= m} : Onward(ch, g, n, p) = Onward(ch, h, n, p)
  <2>1. SUFFICES ASSUME NEW p \in Trails, Len(p) <= m, p # <<>>
                 PROVE  g[Front(p)] = h[Front(p)]
    <3> HIDE DEF h
    <3>1. QED
      BY OnwardAgrees
  <2>2. Front(p) \in Trails /\ Len(Front(p)) <= m - 1 /\ Len(Front(p)) <= m
    <3>1. Front(p) \in Trails /\ Len(Front(p)) = Len(p) - 1 /\ Len(p) \in Nat
      BY <2>1, TrailFacts
    <3>2. QED
      BY <1>3, <2>1, <3>1
  <2>3. g[Front(p)] = Onward(ch, g, n, Front(p))
    BY <1>4, <2>2 DEF Walks
  <2>4. h[Front(p)] = Onward(ch, g, n, Front(p))
    BY <2>2
  <2>5. QED
    BY <2>3, <2>4
<1>6. h = [p \in {q \in Trails : Len(q) <= m} |-> Onward(ch, h, n, p)]
  <2> DEFINE k == [p \in {q \in Trails : Len(q) <= m} |-> Onward(ch, h, n, p)]
  <2>1. h = k
    BY <1>5
  <2>2. QED
    BY <2>1
<1>7. Walks(ch, h, n, m)
  <2> HIDE DEF h
  <2>1. QED
    BY <1>6 DEF Walks
<1>8. QED
  BY <1>1, <1>7

LEMMA WalkUnique ==
  ASSUME NEW ch, NEW n, NEW l \in Nat, NEW m \in Nat,
         NEW g, NEW h, Walks(ch, g, n, l), Walks(ch, h, n, m),
         NEW p \in Trails, Len(p) <= l, Len(p) <= m
  PROVE  g[p] = h[p]
<1> DEFINE Differ(q) == q \in Trails /\ Len(q) <= l /\ Len(q) <= m /\ g[q] # h[q]
           T == {i \in Nat : \E q \in Trails : Differ(q) /\ Len(q) = i}
<1> SUFFICES ASSUME Differ(p)
             PROVE  FALSE
  OBVIOUS
<1>1. Len(p) \in T
  BY TrailFacts
<1>2. PICK i \in T : \A j \in T : i <= j
  <2>1. T \subseteq Nat
    OBVIOUS
  <2> HIDE DEF T
  <2>2. QED
    BY <1>1, <2>1, Data!LeastNat
<1>3. PICK q \in Trails : Differ(q) /\ Len(q) = i
  BY <1>2
<1>4. g[q] = Onward(ch, g, n, q) /\ h[q] = Onward(ch, h, n, q)
  BY <1>3 DEF Walks
<1>5. q # <<>>
  BY <1>3, <1>4 DEF Onward
<1>6. Front(q) \in Trails /\ Len(Front(q)) = Len(q) - 1 /\ Len(q) \in Nat /\ Len(q) - 1 \in Nat
  <2>1. Front(q) \in Trails /\ Len(Front(q)) = Len(q) - 1 /\ Len(q) \in Nat
    BY <1>5, TrailFacts
  <2>2. Len(Front(q)) \in Nat
    BY <2>1, TrailFacts
  <2>3. QED
    BY <2>1, <2>2
<1>7. ~Differ(Front(q))
  <2>1. ASSUME Differ(Front(q)) PROVE FALSE
    <3>1. Len(Front(q)) \in T
      BY <1>6, <2>1
    <3> HIDE DEF T
    <3>2. i <= Len(q) - 1
      BY <1>2, <1>6, <3>1
    <3>3. QED
      BY <1>3, <1>6, <3>2
  <2>2. QED
    BY <2>1
<1>8. g[Front(q)] = h[Front(q)]
  BY <1>3, <1>6, <1>7
<1>9. QED
  BY <1>3, <1>4, <1>8, OnwardAgrees

\* at leads from n, with the children ch.
Leads(ch, at, n) == at = [p \in Trails |-> Onward(ch, at, n, p)]

LEMMA LeadsExists ==
  ASSUME NEW ch, NEW n
  PROVE  \E at : Leads(ch, at, n)
<1> DEFINE at(l) == CHOOSE g : Walks(ch, g, n, l)
           G == [p \in Trails |-> at(Len(p))[p]]
           H == [p \in Trails |-> Onward(ch, G, n, p)]
<1>1. \A l \in Nat : Walks(ch, at(l), n, l)
  BY WalkExists
<1> HIDE DEF at
<1>2. \A p \in Trails : G[p] = Onward(ch, G, n, p)
  <2>1. SUFFICES ASSUME NEW p \in Trails
                 PROVE  at(Len(p))[p] = Onward(ch, G, n, p)
    OBVIOUS
  <2>2. Len(p) \in Nat
    BY TrailFacts
  <2>3. Walks(ch, at(Len(p)), n, Len(p))
    BY <1>1, <2>2
  <2>4. at(Len(p))[p] = Onward(ch, at(Len(p)), n, p)
    BY <2>2, <2>3 DEF Walks
  <2>5. ASSUME p # <<>>
        PROVE  at(Len(p))[Front(p)] = G[Front(p)]
    <3>1. Front(p) \in Trails /\ Len(Front(p)) <= Len(p) /\ Len(Front(p)) \in Nat
      <4>1. Front(p) \in Trails /\ Len(Front(p)) = Len(p) - 1
        BY <2>5, TrailFacts
      <4>2. Len(Front(p)) \in Nat
        BY <4>1, TrailFacts
      <4>3. QED
        BY <2>2, <4>1, <4>2
    <3>2. Walks(ch, at(Len(Front(p))), n, Len(Front(p)))
      BY <1>1, <3>1
    <3>0. Len(Front(p)) <= Len(Front(p))
      BY <3>1
    <3>3. at(Len(p))[Front(p)] = at(Len(Front(p)))[Front(p)]
      <4> DEFINE q == Front(p)  g == at(Len(p))  h == at(Len(q))  l == Len(p)  m == Len(q)
      <4>1. /\ l \in Nat /\ m \in Nat /\ q \in Trails /\ Len(q) <= l /\ Len(q) <= m
            /\ Walks(ch, g, n, l) /\ Walks(ch, h, n, m)
        BY <2>2, <2>3, <3>0, <3>1, <3>2
      <4> HIDE DEF q, g, h, l, m
      <4>2. g[q] = h[q]
        BY <4>1, WalkUnique
      <4>3. QED
        BY <4>2 DEF q, g, h, l, m
    <3>4. QED
      BY <3>1, <3>3
  <2> HIDE DEF G
  <2>6. QED
    BY <2>4, <2>5, OnwardAgrees
<1>3. G = H
  BY <1>2
<1>4. Leads(ch, G, n)
  <2>1. G = [p \in Trails |-> Onward(ch, G, n, p)]
    BY <1>3
  <2> HIDE DEF G
  <2>2. QED
    BY <2>1 DEF Leads
<1>5. QED
  BY <1>4

LEMMA LeadsUnique ==
  ASSUME NEW ch, NEW n, NEW g, NEW h, Leads(ch, g, n), Leads(ch, h, n)
  PROVE  g = h
<1> DEFINE Differ(q) == q \in Trails /\ g[q] # h[q]
           T == {i \in Nat : \E q \in Trails : Differ(q) /\ Len(q) = i}
<1>1. ASSUME NEW p \in Trails, Differ(p)
      PROVE  FALSE
  <2>1. T \subseteq Nat /\ Len(p) \in T
    BY <1>1, TrailFacts
  <2>2. PICK i \in T : \A j \in T : i <= j
    <3> HIDE DEF T
    <3>1. QED
      BY <2>1, Data!LeastNat
  <2>3. PICK q \in Trails : Differ(q) /\ Len(q) = i
    BY <2>2
  <2>4. g[q] = Onward(ch, g, n, q) /\ h[q] = Onward(ch, h, n, q)
    BY <2>3 DEF Leads
  <2>5. q # <<>>
    BY <2>3, <2>4 DEF Onward
  <2>6. Front(q) \in Trails /\ Len(Front(q)) = Len(q) - 1 /\ Len(q) \in Nat
    BY <2>5, TrailFacts
  <2>7. Len(Front(q)) \in Nat
    BY <2>6, TrailFacts
  <2>8. g[Front(q)] # h[Front(q)]
    BY <2>3, <2>4, OnwardAgrees
  <2>9. Len(Front(q)) \in T
    BY <2>6, <2>7, <2>8
  <2> HIDE DEF T
  <2>10. i <= Len(Front(q))
    BY <2>2, <2>9
  <2>11. QED
    BY <2>3, <2>6, <2>10
<1>2. DOMAIN g = Trails /\ DOMAIN h = Trails /\ g = [p \in Trails |-> g[p]] /\ h = [p \in Trails |-> h[p]]
  BY DEF Leads
<1>3. QED
  BY <1>1, <1>2

LEMMA ReachedLeads ==
  ASSUME NEW n
  PROVE  Leads(children, Reached(n), n)
<1>1. Reached(n) = CHOOSE g : g = [p \in Trails |-> Onward(children, g, n, p)]
  BY DEF Reached, Onward
<1>2. PICK G : G = [p \in Trails |-> Onward(children, G, n, p)]
  BY LeadsExists DEF Leads
<1>3. QED
  BY <1>1, <1>2 DEF Leads

LEMMA ReachedIs ==
  ASSUME NEW n
  PROVE  /\ DOMAIN Reached(n) = Trails
         /\ \A p \in Trails : Reached(n)[p] = Onward(children, Reached(n), n, p)
BY ReachedLeads DEF Leads

\* What leads with the children to be is what is reached in the next state.
LEMMA ReachedNext ==
  ASSUME NEW n, NEW G, Leads(children', G, n)
  PROVE  Reached(n)' = G
<1>1. Reached(n)' = CHOOSE g : g = [p \in Trails |-> Onward(children', g, n, p)]
  BY DEF Reached, Onward
<1>2. Leads(children', Reached(n)', n)
  BY <1>1 DEF Leads
<1>3. QED
  BY <1>2, LeadsUnique

(***************************************************************************)
(* Prefixes and suffixes of paths.                                         *)
(***************************************************************************)
LEMMA PrefixIsPath ==
  ASSUME NEW p \in Paths, NEW i \in 0..Len(p)
  PROVE  SubSeq(p, 1, i) \in Paths
<1> DEFINE T == {j \in Nat : j <= Len(p) /\ SubSeq(p, 1, Len(p) - j) \notin Paths}
<1>1. p \in Seq(Segments) /\ Len(p) \in Nat /\ SubSeq(p, 1, Len(p)) = p
  BY PathFacts, SubSeqFull
<1> SUFFICES ASSUME SubSeq(p, 1, i) \notin Paths
             PROVE  FALSE
  OBVIOUS
<1>2. Len(p) - i \in T
  <2> DEFINE j == Len(p) - i
  <2>1. j \in Nat /\ j <= Len(p) /\ Len(p) - j = i
    BY <1>1
  <2> HIDE DEF j
  <2>2. j \in T
    BY <2>1
  <2>3. QED
    BY <2>2 DEF j
<1>3. T \subseteq Nat
  OBVIOUS
<1>4. PICK j \in T : \A l \in T : j <= l
  <2> HIDE DEF T
  <2>1. QED
    BY <1>2, <1>3, Data!LeastNat
<1>5. j \in Nat /\ j <= Len(p) /\ SubSeq(p, 1, Len(p) - j) \notin Paths
  OBVIOUS
<1>6. j # 0
  <2>1. Len(p) - 0 = Len(p)
    BY <1>1
  <2>2. QED
    BY <1>1, <1>5, <2>1
<1> DEFINE l == j - 1  n == Len(p) - l  u == SubSeq(p, 1, n)
<1>7. l \in Nat /\ l <= Len(p) /\ l < j /\ n \in 1..Len(p) /\ n - 1 = Len(p) - j
  BY <1>1, <1>5, <1>6
<1>8. l \notin T
  <2> HIDE DEF T, l
  <2>1. QED
    BY <1>3, <1>4, <1>7
<1>9. u \in Paths
  <2> HIDE DEF l
  <2>1. QED
    BY <1>7, <1>8
<1>10. u \in Seq(Segments) /\ Len(u) = n /\ \A x \in 1..n : u[x] = p[x]
  <2> HIDE DEF l, n
  <2>1. QED
    BY <1>1, <1>7
<1>11. u # <<>>
  <2> HIDE DEF u, n, l
  <2>1. QED
    BY <1>7, <1>10
<1>12. Front(u) \in Paths /\ Front(u) \in Seq(Segments) /\ Len(Front(u)) = n - 1
       /\ \A x \in 1..(n - 1) : Front(u)[x] = u[x]
  <2> HIDE DEF u, n, l
  <2>1. Front(u) \in Paths
    BY <1>9, <1>11, OwnershipAssumption
  <2>2. /\ Front(u) \in Seq(Segments) /\ Len(Front(u)) = Len(u) - 1
        /\ \A x \in 1..(Len(u) - 1) : Front(u)[x] = u[x]
    BY <1>10, <1>11, FrontFacts
  <2>3. QED
    BY <1>10, <2>1, <2>2
<1> DEFINE v == SubSeq(p, 1, n - 1)
<1>13. v \in Seq(Segments) /\ Len(v) = n - 1 /\ \A x \in 1..(n - 1) : v[x] = p[x]
  <2>1. n - 1 \in 0..Len(p)
    BY <1>1, <1>7
  <2> HIDE DEF l, n
  <2>2. QED
    BY <1>1, <2>1
<1>14. v = Front(u)
  <2> HIDE DEF u, v, l, n
  <2>1. \A x \in 1..(n - 1) : x \in 1..n
    BY <1>7
  <2>2. \A x \in 1..(n - 1) : v[x] = Front(u)[x]
    BY <1>10, <1>12, <1>13, <2>1
  <2>3. QED
    BY <1>12, <1>13, <2>2, SeqEqual
<1>15. QED
  BY <1>5, <1>7, <1>12, <1>14

LEMMA PrefixGrows ==
  ASSUME NEW p \in Paths, NEW i \in Nat, i < Len(p)
  PROVE  /\ SubSeq(p, 1, i + 1) = Append(SubSeq(p, 1, i), p[i + 1]) /\ SubSeq(p, 1, i + 1) \in Paths
         /\ p[i + 1] \in Segments /\ Len(SubSeq(p, 1, i)) = i
<1>1. p \in Seq(Segments) /\ Len(p) \in Nat
  BY PathFacts
<1> DEFINE j == i + 1
<1>2. j \in 1..Len(p) /\ j - 1 = i /\ j \in 0..Len(p) /\ p[j] \in Segments /\ i \in 0..Len(p)
  BY <1>1
<1>3. SubSeq(p, 1, j) \in Paths
  BY <1>2, PrefixIsPath
<1> DEFINE u == SubSeq(p, 1, j)  v == Append(SubSeq(p, 1, i), p[j])
<1>4. u \in Seq(Segments) /\ Len(u) = j /\ \A x \in 1..j : u[x] = p[x]
  BY <1>1, <1>2
<1>5. SubSeq(p, 1, i) \in Seq(Segments) /\ Len(SubSeq(p, 1, i)) = i
      /\ \A x \in 1..i : SubSeq(p, 1, i)[x] = p[x]
  BY <1>1, <1>2
<1>6. v \in Seq(Segments) /\ Len(v) = j /\ \A x \in 1..j : v[x] = p[x]
  BY <1>2, <1>5
<1>7. u = v
  <2> HIDE DEF u, v, j
  <2>1. QED
    BY <1>4, <1>6, SeqEqual
<1>8. QED
  BY <1>2, <1>3, <1>5, <1>7

\* What follows the beginning of a path is a trail.
LEMMA SuffixIsTrail ==
  ASSUME NEW u \in Seq(Segments), NEW v \in Seq(Segments), u \o v \in Paths
  PROVE  v \in Trails
<1> DEFINE r == u \o v  i == Len(u) + 1  w == SubSeq(r, i, Len(r))
<1>1. r \in Seq(Segments) /\ Len(r) = Len(u) + Len(v) /\ Len(u) \in Nat /\ Len(v) \in Nat
      /\ \A x \in 1..Len(v) : r[Len(u) + x] = v[x]
  OBVIOUS
<1>2. i \in 1..(Len(r) + 1)
  BY <1>1
<1>3. w \in Trails
  <2> HIDE DEF i
  <2>1. r \in Paths
    OBVIOUS
  <2> HIDE DEF r
  <2>2. QED
    BY <1>2, <2>1, TrailIntro
<1>4. w \in Seq(Segments) /\ Len(w) = Len(v) /\ \A x \in 1..Len(v) : w[x] = r[i + x - 1]
  <2> HIDE DEF r
  <2>1. QED
    BY <1>1, <1>2
<1>5. \A x \in 1..Len(v) : i + x - 1 = Len(u) + x
  BY <1>1
<1>6. \A x \in 1..Len(v) : w[x] = v[x]
  BY <1>1, <1>4, <1>5
<1>7. w = v
  <2> HIDE DEF w
  <2>1. QED
    BY <1>4, <1>6, SeqEqual
<1>8. QED
  BY <1>3, <1>7

(***************************************************************************)
(* The trees: each node has a path of its own.                             *)
(***************************************************************************)
Done == SubSeq(call.path, 1, call.done)

Named(name) ==
  /\ name \in [Node -> Paths]
  /\ \A t \in Tries : root_[t] # Null => name[root_[t]] = <<>>
  /\ \A m \in Node : \A s \in DOMAIN children[m] : name[children[m][s]] = Append(name[m], s)
  /\ call # NoCall => name[call.current] = Done

Forest == \E name : Named(name)

\* A node in use that deleteTrie has not come to.
Top(n) == n \in allocated \ leaked /\ \A i \in DOMAIN frames : frames[i].node # n

LEMMA TopChild ==
  ASSUME IInv, NEW m \in Node, Top(m), NEW s \in DOMAIN children[m]
  PROVE  /\ s \in Segments /\ children[m][s] \in Node /\ children[m][s] # Null
         /\ FromNode(m, s, children[m][s]) /\ Top(children[m][s])
<1> DEFINE c == children[m][s]
<1>1. Shape /\ Owners
  BY DEF IInv
<1>2. s \in Segments /\ c \in Node /\ c # Null
  BY <1>1, OwnershipAssumption DEF Shape
<1>3. FromNode(m, s, c)
  BY DEF Top, Waiting, FromNode
<1> HIDE DEF c
<1>4. c \in allocated \ leaked
  BY <1>1, <1>2, <1>3 DEF Owners, Unowned
<1>5. \A i \in DOMAIN frames : frames[i].node # c
  BY <1>1, <1>2, <1>3, FrameFacts DEF Owners, OwnedOnce, Shape, FromFrame
<1>6. QED
  BY <1>2, <1>3, <1>4, <1>5 DEF c, Top

LEMMA ReachedRoot ==
  ASSUME NEW n
  PROVE  <<>> \in Trails /\ Reached(n)[<<>>] = n
<1>1. <<>> \in Trails
  BY PathFacts, OwnershipAssumption
<1>2. QED
  BY <1>1, ReachedIs DEF Onward

LEMMA ReachedFurther ==
  ASSUME NEW n, NEW q \in Trails, q # <<>>, Reached(n)[q] # Null
  PROVE  /\ Front(q) \in Trails /\ Last(q) \in Segments /\ Reached(n)[Front(q)] # Null
         /\ Last(q) \in DOMAIN children[Reached(n)[Front(q)]]
         /\ Reached(n)[q] = children[Reached(n)[Front(q)]][Last(q)]
<1>1. Reached(n)[q] = Onward(children, Reached(n), n, q)
  BY ReachedIs
<1>2. Front(q) \in Trails /\ Last(q) \in Segments
  BY TrailFacts
<1>3. QED
  BY <1>1, <1>2 DEF Onward

\* What a walk down from a node in use comes to is in use.
LEMMA DownIsTop ==
  ASSUME IInv, NEW x \in Node, Top(x), NEW q \in Trails, Reached(x)[q] # Null
  PROVE  Reached(x)[q] \in Node /\ Top(Reached(x)[q])
<1> DEFINE Bad(r) == r \in Trails /\ Reached(x)[r] # Null
                     /\ ~(Reached(x)[r] \in Node /\ Top(Reached(x)[r]))
           T == {i \in Nat : \E r \in Trails : Bad(r) /\ Len(r) = i}
<1> SUFFICES ASSUME Bad(q)
             PROVE  FALSE
  OBVIOUS
<1>1. T \subseteq Nat /\ Len(q) \in T
  BY TrailFacts
<1>2. PICK i \in T : \A j \in T : i <= j
  <2> HIDE DEF T
  <2>1. QED
    BY <1>1, Data!LeastNat
<1>3. PICK r \in Trails : Bad(r) /\ Len(r) = i
  BY <1>2
<1>4. r # <<>>
  BY <1>3, ReachedRoot
<1>5. Front(r) \in Trails /\ Len(Front(r)) = Len(r) - 1 /\ Len(r) \in Nat /\ Len(Front(r)) \in Nat
  <2>1. Front(r) \in Trails /\ Len(Front(r)) = Len(r) - 1 /\ Len(r) \in Nat
    BY <1>4, TrailFacts
  <2>2. Len(Front(r)) \in Nat
    BY <2>1, TrailFacts
  <2>3. QED
    BY <2>1, <2>2
<1>6. ~Bad(Front(r))
  <2>1. ASSUME Bad(Front(r)) PROVE FALSE
    <3>1. Len(Front(r)) \in T
      BY <1>5, <2>1
    <3> HIDE DEF T
    <3>2. i <= Len(Front(r))
      BY <1>2, <3>1
    <3>3. QED
      BY <1>3, <1>5, <3>2
  <2>2. QED
    BY <2>1
<1> DEFINE m == Reached(x)[Front(r)]
<1>7. /\ m # Null /\ Last(r) \in DOMAIN children[m] /\ Reached(x)[r] = children[m][Last(r)]
  BY <1>3, <1>4, ReachedFurther
<1>8. m \in Node /\ Top(m)
  BY <1>5, <1>6, <1>7
<1> HIDE DEF m
<1>9. children[m][Last(r)] \in Node /\ Top(children[m][Last(r)])
  BY <1>7, <1>8, TopChild
<1>10. QED
  BY <1>3, <1>7, <1>9

\* And its path is that of the node and the trail.
LEMMA DownIsNamed ==
  ASSUME IInv, NEW name, Named(name),
         NEW x \in Node, Top(x), NEW q \in Trails, Reached(x)[q] # Null
  PROVE  name[Reached(x)[q]] = name[x] \o q
<1> DEFINE Bad(r) == r \in Trails /\ Reached(x)[r] # Null /\ name[Reached(x)[r]] # name[x] \o r
           T == {i \in Nat : \E r \in Trails : Bad(r) /\ Len(r) = i}
<1> SUFFICES ASSUME Bad(q)
             PROVE  FALSE
  OBVIOUS
<1>1. T \subseteq Nat /\ Len(q) \in T
  BY TrailFacts
<1>2. PICK i \in T : \A j \in T : i <= j
  <2> HIDE DEF T
  <2>1. QED
    BY <1>1, Data!LeastNat
<1>3. PICK r \in Trails : Bad(r) /\ Len(r) = i
  BY <1>2
<1>0. name[x] \in Seq(Segments)
  BY PathFacts DEF Named
<1>4. r # <<>>
  <2>1. name[x] \o <<>> = name[x]
    BY <1>0, ConcatEmptySeq
  <2>2. QED
    BY <1>3, <2>1, ReachedRoot
<1>5. Front(r) \in Trails /\ Len(Front(r)) = Len(r) - 1 /\ Len(r) \in Nat /\ Len(Front(r)) \in Nat
      /\ Front(r) \in Seq(Segments) /\ Last(r) \in Segments /\ r = Append(Front(r), Last(r))
  <2>1. Front(r) \in Trails /\ Len(Front(r)) = Len(r) - 1 /\ Len(r) \in Nat
        /\ Last(r) \in Segments /\ r = Append(Front(r), Last(r))
    BY <1>4, TrailFacts
  <2>2. Len(Front(r)) \in Nat /\ Front(r) \in Seq(Segments)
    BY <2>1, TrailFacts
  <2>3. QED
    BY <2>1, <2>2
<1>6. ~Bad(Front(r))
  <2>1. ASSUME Bad(Front(r)) PROVE FALSE
    <3>1. Len(Front(r)) \in T
      BY <1>5, <2>1
    <3> HIDE DEF T
    <3>2. i <= Len(Front(r))
      BY <1>2, <3>1
    <3>3. QED
      BY <1>3, <1>5, <3>2
  <2>2. QED
    BY <2>1
<1> DEFINE m == Reached(x)[Front(r)]
<1>7. /\ m # Null /\ Last(r) \in DOMAIN children[m] /\ Reached(x)[r] = children[m][Last(r)]
  BY <1>3, <1>4, ReachedFurther
<1>8. m \in Node /\ Top(m) /\ name[m] = name[x] \o Front(r)
  BY <1>5, <1>6, <1>7, DownIsTop
<1> HIDE DEF m
<1>9. name[Reached(x)[r]] = Append(name[x] \o Front(r), Last(r))
  BY <1>7, <1>8 DEF Named
<1>10. Append(name[x] \o Front(r), Last(r)) = name[x] \o Append(Front(r), Last(r))
  <2>1. PICK u \in Seq(Segments), v \in Seq(Segments), y \in Segments :
          u = name[x] /\ v = Front(r) /\ y = Last(r)
    BY <1>0, <1>5, Zenon
  <2>2. u \o v \in Seq(Segments) /\ <<y>> \in Seq(Segments)
    OBVIOUS
  <2>3. Append(u \o v, y) = (u \o v) \o <<y>> /\ Append(v, y) = v \o <<y>>
    BY <2>2, AppendIsConcat
  <2>4. (u \o v) \o <<y>> = u \o (v \o <<y>>)
    <3>1. PICK z \in Seq(Segments) : z = <<y>>
      BY <2>2
    <3>2. (u \o v) \o z = u \o (v \o z)
      BY ONLY u \in Seq(Segments), v \in Seq(Segments), z \in Seq(Segments), ConcatAssociative, SMTT(20)
    <3>3. QED
      BY <3>1, <3>2
  <2>5. QED
    BY <2>1, <2>3, <2>4
<1>11. QED
  BY <1>3, <1>5, <1>9, <1>10

(***************************************************************************)
(* One pointer and one trail lead to each node that deleteTrie has not     *)
(* come to.                                                                *)
(***************************************************************************)
RootPointer(ptr, t) == t \in alive /\ root_[t] # Null /\ ptr = <<<<t>>, root_[t]>>

RestPointer(ptr, i, s) ==
  i \in DOMAIN frames /\ s \in frames[i].rest /\ ptr = <<<<i, s>>, children[frames[i].node][s]>>

LEMMA PointerIs ==
  ASSUME NEW ptr
  PROVE  ptr \in Pointers <=> \/ \E t : RootPointer(ptr, t)
                              \/ \E i, s : RestPointer(ptr, i, s)
BY DEF Pointers, RootPointer, RestPointer

LEMMA RootPointerFacts ==
  ASSUME IInv, NEW ptr, NEW t, RootPointer(ptr, t)
  PROVE  /\ t \in Tries /\ ptr[2] = root_[t] /\ ptr[2] \in Node /\ FromRoot(t, ptr[2])
         /\ Top(ptr[2])
<1>1. Shape /\ Owners
  BY DEF IInv
<1>2. t \in Tries /\ ptr[2] = root_[t] /\ ptr[2] \in Node /\ FromRoot(t, ptr[2])
  BY <1>1 DEF RootPointer, Shape, FromRoot
<1>3. ptr[2] \in allocated \ leaked
  BY <1>1, <1>2 DEF Owners, Unowned
<1>4. \A i \in DOMAIN frames : frames[i].node # ptr[2]
  BY <1>1, <1>2, FrameFacts DEF Owners, OwnedOnce, Shape, FromFrame
<1>5. QED
  BY <1>2, <1>3, <1>4 DEF Top

LEMMA FrameNode ==
  ASSUME IInv, NEW i \in DOMAIN frames
  PROVE  /\ i \in Nat /\ frames[i].node \in Node /\ frames[i].node \in allocated \ leaked
         /\ FromFrame(i, frames[i].node)
         /\ \A j \in DOMAIN frames : frames[j].node = frames[i].node => j = i
         /\ frames[i].rest \subseteq Waiting(frames[i].node)
<1>1. Shape /\ Owners
  BY DEF IInv
<1>2. i \in Nat /\ frames[i].node \in Node /\ FromFrame(i, frames[i].node)
  BY <1>1, FrameFacts DEF Shape, FromFrame
<1>3. frames[i].node \in allocated \ leaked
  BY <1>1, <1>2 DEF Owners, Unowned
<1>4. \A j \in DOMAIN frames : frames[j].node = frames[i].node => j = i
  BY <1>1, <1>2, FrameFacts DEF Owners, OwnedOnce, Shape, FromFrame
<1>5. frames[i].rest \subseteq Waiting(frames[i].node)
  BY <1>1, <1>4 DEF Shape, Waiting
<1>6. QED
  BY <1>2, <1>3, <1>4, <1>5

LEMMA RestPointerFacts ==
  ASSUME IInv, NEW ptr, NEW i, NEW s, RestPointer(ptr, i, s)
  PROVE  /\ i \in DOMAIN frames /\ s \in Segments /\ ptr[2] \in Node
         /\ FromNode(frames[i].node, s, ptr[2]) /\ Top(ptr[2])
<1> DEFINE m == frames[i].node
<1>1. Shape /\ Owners
  BY DEF IInv
<1>2. i \in DOMAIN frames /\ s \in frames[i].rest /\ ptr[2] = children[m][s]
  BY DEF RestPointer
<1>3. m \in Node /\ m \in allocated \ leaked /\ s \in Waiting(m)
  BY <1>2, FrameNode
<1> HIDE DEF m
<1>4. s \in Segments /\ ptr[2] \in Node
  BY <1>1, <1>2, <1>3 DEF Shape, Waiting
<1>5. FromNode(m, s, ptr[2])
  BY <1>2, <1>3 DEF FromNode
<1>6. ptr[2] \in allocated \ leaked
  BY <1>1, <1>3, <1>4, <1>5 DEF Owners, Unowned
<1>7. \A j \in DOMAIN frames : frames[j].node # ptr[2]
  BY <1>1, <1>3, <1>4, <1>5, FrameFacts DEF Owners, OwnedOnce, Shape, FromFrame
<1>8. QED
  BY <1>2, <1>4, <1>5, <1>6, <1>7 DEF Top, m

LEMMA PointerFacts ==
  ASSUME IInv, NEW ptr \in Pointers
  PROVE  ptr[2] \in Node /\ Top(ptr[2])
BY PointerIs, RootPointerFacts, RestPointerFacts

LEMMA PointerUnique ==
  ASSUME IInv, NEW p \in Pointers, NEW r \in Pointers, p[2] = r[2]
  PROVE  p = r
<1>1. p[2] \in Node /\ OwnedOnce(p[2])
  BY PointerFacts DEF IInv, Owners
<1>2. ASSUME NEW t, RootPointer(p, t), NEW u, RootPointer(r, u)
      PROVE  p = r
  <2>1. t = u
    BY <1>1, <1>2, RootPointerFacts DEF OwnedOnce
  <2>2. QED
    BY <1>2, <2>1 DEF RootPointer
<1>3. ASSUME NEW t, RootPointer(p, t), NEW i, NEW s, RestPointer(r, i, s)
      PROVE  FALSE
  <2>1. frames[i].node \in Node /\ s \in Segments /\ FromNode(frames[i].node, s, p[2])
    BY <1>3, RestPointerFacts, FrameNode
  <2>2. t \in Tries /\ FromRoot(t, p[2])
    BY <1>3, RootPointerFacts
  <2>3. QED
    BY <1>1, <2>1, <2>2 DEF OwnedOnce
<1>4. ASSUME NEW t, RootPointer(r, t), NEW i, NEW s, RestPointer(p, i, s)
      PROVE  FALSE
  <2>1. frames[i].node \in Node /\ s \in Segments /\ FromNode(frames[i].node, s, p[2])
    BY <1>4, RestPointerFacts, FrameNode
  <2>2. t \in Tries /\ FromRoot(t, p[2])
    BY <1>4, RootPointerFacts
  <2>3. QED
    BY <1>1, <2>1, <2>2 DEF OwnedOnce
<1>5. ASSUME NEW i, NEW s, RestPointer(p, i, s), NEW j, NEW x, RestPointer(r, j, x)
      PROVE  p = r
  <2>1. frames[i].node \in Node /\ s \in Segments /\ FromNode(frames[i].node, s, p[2])
        /\ i \in DOMAIN frames
    BY <1>5, RestPointerFacts, FrameNode
  <2>2. frames[j].node \in Node /\ x \in Segments /\ FromNode(frames[j].node, x, p[2])
        /\ j \in DOMAIN frames
    BY <1>5, RestPointerFacts, FrameNode
  <2>3. frames[i].node = frames[j].node /\ s = x
    BY <1>1, <2>1, <2>2 DEF OwnedOnce
  <2>4. i = j
    BY <2>1, <2>2, <2>3, FrameNode
  <2>5. QED
    BY <1>5, <2>3, <2>4 DEF RestPointer
<1>6. QED
  BY <1>2, <1>3, <1>4, <1>5, PointerIs

\* No node is below one that a pointer leads to and led to by it as well.
LEMMA PointerIsTop ==
  ASSUME IInv, NEW p \in Pointers, NEW m \in Node, Top(m), NEW s \in DOMAIN children[m]
  PROVE  children[m][s] # p[2]
<1>1. p[2] \in Node /\ OwnedOnce(p[2])
  BY PointerFacts DEF IInv, Owners
<1>2. s \in Segments /\ FromNode(m, s, children[m][s])
  BY TopChild
<1>3. ASSUME children[m][s] = p[2], NEW t, RootPointer(p, t)
      PROVE  FALSE
  BY <1>1, <1>2, <1>3, RootPointerFacts DEF OwnedOnce
<1>4. ASSUME children[m][s] = p[2], NEW i, NEW x, RestPointer(p, i, x)
      PROVE  FALSE
  <2>1. frames[i].node \in Node /\ x \in Segments /\ FromNode(frames[i].node, x, p[2])
        /\ i \in DOMAIN frames
    BY <1>4, RestPointerFacts, FrameNode
  <2>2. frames[i].node = m
    BY <1>1, <1>2, <1>4, <2>1 DEF OwnedOnce
  <2>3. QED
    BY <2>1, <2>2 DEF Top
<1>5. QED
  BY <1>3, <1>4, PointerIs

LEMMA ChildUnique ==
  ASSUME IInv, NEW m \in Node, Top(m), NEW s \in DOMAIN children[m],
         NEW k \in Node, Top(k), NEW x \in DOMAIN children[k], children[m][s] = children[k][x]
  PROVE  m = k /\ s = x
<1> DEFINE c == children[m][s]
<1>1. c \in Node /\ s \in Segments /\ x \in Segments /\ FromNode(m, s, c) /\ FromNode(k, x, c)
  BY TopChild
<1> HIDE DEF c
<1>2. OwnedOnce(c)
  BY <1>1 DEF IInv, Owners
<1>3. QED
  BY <1>1, <1>2 DEF OwnedOnce

LEMMA WayUnique ==
  ASSUME IInv, NEW p \in Pointers, NEW r \in Pointers, NEW u \in Trails, NEW v \in Trails,
         Reached(p[2])[u] # Null, Reached(p[2])[u] = Reached(r[2])[v]
  PROVE  p = r /\ u = v
<1> DEFINE Bad(a, b) == /\ a \in Trails /\ b \in Trails /\ ~(p = r /\ a = b)
                        /\ Reached(p[2])[a] # Null /\ Reached(p[2])[a] = Reached(r[2])[b]
           T == {i \in Nat : \E a, b \in Trails : Bad(a, b) /\ Len(a) = i}
<1> SUFFICES ASSUME Bad(u, v)
             PROVE  FALSE
  OBVIOUS
<1>0. p[2] \in Node /\ Top(p[2]) /\ r[2] \in Node /\ Top(r[2])
  BY PointerFacts
<1>1. T \subseteq Nat /\ Len(u) \in T
  BY TrailFacts
<1>2. PICK i \in T : \A j \in T : i <= j
  <2> HIDE DEF T
  <2>1. QED
    BY <1>1, Data!LeastNat
<1>3. PICK a \in Trails, b \in Trails : Bad(a, b) /\ Len(a) = i
  BY <1>2
<1>4. ASSUME NEW q \in Pointers, NEW w \in Trails, w # <<>>, Reached(q[2])[w] # Null
      PROVE  LET m == Reached(q[2])[Front(w)]
             IN  m \in Node /\ Top(m) /\ Last(w) \in DOMAIN children[m]
                 /\ Reached(q[2])[w] = children[m][Last(w)]
  BY <1>4, PointerFacts, ReachedFurther, DownIsTop
<1>5. CASE a = <<>> /\ b = <<>>
  <2>1. p[2] = r[2]
    BY <1>3, <1>5, ReachedRoot
  <2>2. QED
    BY <1>3, <1>5, <2>1, PointerUnique
<1>6. CASE a = <<>> /\ b # <<>>
  <2>1. Reached(r[2])[b] = p[2]
    BY <1>3, <1>6, ReachedRoot
  <2>2. QED
    BY <1>3, <1>4, <1>6, <2>1, PointerIsTop
<1>7. CASE a # <<>> /\ b = <<>>
  <2>1. Reached(p[2])[a] = r[2]
    BY <1>3, <1>7, ReachedRoot
  <2>2. QED
    BY <1>3, <1>4, <1>7, <2>1, PointerIsTop
<1>8. CASE a # <<>> /\ b # <<>>
  <2> DEFINE m == Reached(p[2])[Front(a)]  k == Reached(r[2])[Front(b)]
  <2>1. /\ m \in Node /\ Top(m) /\ Last(a) \in DOMAIN children[m]
        /\ Reached(p[2])[a] = children[m][Last(a)]
    BY <1>3, <1>4, <1>8
  <2>2. /\ k \in Node /\ Top(k) /\ Last(b) \in DOMAIN children[k]
        /\ Reached(r[2])[b] = children[k][Last(b)]
    BY <1>3, <1>4, <1>8
  <2>3. m = k /\ Last(a) = Last(b)
    <3> HIDE DEF m, k
    <3>1. children[m][Last(a)] = children[k][Last(b)]
      BY <1>3, <2>1, <2>2
    <3>2. QED
      BY <2>1, <2>2, <3>1, ChildUnique
  <2>4. /\ Front(a) \in Trails /\ Len(Front(a)) = Len(a) - 1 /\ Len(a) \in Nat
        /\ a = Append(Front(a), Last(a))
    BY <1>8, TrailFacts
  <2>5. Front(b) \in Trails /\ b = Append(Front(b), Last(b))
    BY <1>8, TrailFacts
  <2>6. Len(Front(a)) \in Nat
    BY <2>4, TrailFacts
  <2>7. m # Null
    BY <2>1, OwnershipAssumption
  <2>8. Bad(Front(a), Front(b))
    BY <1>3, <2>3, <2>4, <2>5, <2>7
  <2>9. Len(Front(a)) \in T
    BY <2>4, <2>5, <2>6, <2>8
  <2> HIDE DEF T
  <2>10. i <= Len(Front(a))
    BY <1>2, <2>9
  <2>11. QED
    BY <1>3, <2>4, <2>10
<1>9. QED
  BY <1>5, <1>6, <1>7, <1>8

LEMMA WayFurther ==
  ASSUME IInv, NEW name, Named(name), NEW ptr \in Pointers, NEW q \in Trails,
         NEW m \in Node, Reached(ptr[2])[q] = m, NEW s \in DOMAIN children[m], s \in Segments
  PROVE  \E w \in Trails : Reached(ptr[2])[w] = children[m][s]
<1> DEFINE x == ptr[2]  w == Append(q, s)
<1>1. x \in Node /\ Top(x) /\ m # Null
  BY PointerFacts, OwnershipAssumption
<1>2. name[m] = name[x] \o q
  BY <1>1, DownIsNamed
<1>3. name[x] \in Seq(Segments) /\ name[children[m][s]] = Append(name[m], s)
      /\ name[children[m][s]] \in Paths
  <2>1. children[m][s] \in Node
    BY DEF IInv, Shape
  <2>2. QED
    BY <1>1, <2>1, PathFacts DEF Named
<1>4. q \in Seq(Segments) /\ w \in Seq(Segments) /\ w # <<>> /\ Front(w) = q /\ Last(w) = s
  <2>1. q \in Seq(Segments)
    BY TrailFacts
  <2>2. w \in Seq(Segments) /\ w # <<>>
    BY <2>1, AppendProperties
  <2>3. Front(w) \in Seq(Segments) /\ w = Append(Front(w), Last(w)) /\ Last(w) \in Segments
    <3> HIDE DEF w
    <3>1. QED
      BY <2>2, FrontFacts
  <2>4. q = Front(w) /\ s = Last(w)
    <3> DEFINE f == Front(w)  l == Last(w)
    <3>1. f \in Seq(Segments) /\ l \in Segments /\ Append(q, s) = Append(f, l)
      BY <2>3
    <3> HIDE DEF f, l, w
    <3>2. q = f /\ s = l
      BY <2>1, <3>1, AppendInjective
    <3>3. QED
      BY <3>2 DEF f, l
  <2>5. QED
    BY <2>1, <2>2, <2>4
<1>5. w \in Trails
  <2>1. PICK u \in Seq(Segments), v \in Seq(Segments), y \in Segments :
          u = name[x] /\ v = q /\ y = s
    BY <1>3, <1>4, Zenon
  <2>0. <<y>> \in Seq(Segments)
    OBVIOUS
  <2>2. PICK z \in Seq(Segments) : z = <<y>>
    BY <2>0
  <2>3. u \o v \in Seq(Segments)
    OBVIOUS
  <2>4. Append(u \o v, y) = (u \o v) \o z /\ Append(v, y) = v \o z
    BY <2>2, <2>3, AppendIsConcat
  <2>5. (u \o v) \o z = u \o (v \o z)
    BY ONLY u \in Seq(Segments), v \in Seq(Segments), z \in Seq(Segments), ConcatAssociative
  <2>6. name[children[m][s]] = u \o w
    <3>1. name[children[m][s]] = Append(u \o v, y)
      BY <1>2, <1>3, <2>1
    <3>2. w = v \o z
      BY <2>1, <2>4
    <3> HIDE DEF w
    <3>3. QED
      BY <2>4, <2>5, <3>1, <3>2
  <2> HIDE DEF w
  <2>7. u \o w \in Paths
    BY <1>3, <2>6
  <2>8. QED
    BY <1>4, <2>7, SuffixIsTrail
<1>6. Reached(x)[w] = Onward(children, Reached(x), x, w)
  BY <1>5, ReachedIs
<1> HIDE DEF w
<1>7. Reached(x)[w] = children[m][s]
  BY <1>1, <1>4, <1>6 DEF Onward
<1>8. QED
  BY <1>5, <1>7

LEMMA WayExists ==
  ASSUME IInv, Forest, NEW n \in Node, Top(n)
  PROVE  \E ptr \in Pointers, q \in Trails : Reached(ptr[2])[q] = n
<1>1. PICK name : Named(name)
  BY DEF Forest
<1> DEFINE Led(m) == \E ptr \in Pointers, q \in Trails : Reached(ptr[2])[q] = m
           T == {i \in Nat : \E m \in Node : Top(m) /\ ~Led(m) /\ Len(name[m]) = i}
<1> SUFFICES ASSUME ~Led(n)
             PROVE  FALSE
  OBVIOUS
<1>2. \A m \in Node : name[m] \in Seq(Segments) /\ Len(name[m]) \in Nat
  BY <1>1, PathFacts DEF Named
<1>3. T \subseteq Nat /\ Len(name[n]) \in T
  BY <1>2
<1>4. PICK i \in T : \A j \in T : i <= j
  <2> HIDE DEF T
  <2>1. QED
    BY <1>3, Data!LeastNat
<1>5. PICK m \in Node : Top(m) /\ ~Led(m) /\ Len(name[m]) = i
  BY <1>4
<1>6. ASSUME NEW ptr \in Pointers
      PROVE  ptr[2] # m
  <2>1. ASSUME ptr[2] = m PROVE FALSE
    <3>1. Reached(ptr[2])[<<>>] = m /\ <<>> \in Trails
      BY <2>1, ReachedRoot
    <3>2. QED
      BY <1>5, <1>6, <3>1
  <2>2. QED
    BY <2>1
<1>7. ASSUME NEW t \in Tries, FromRoot(t, m)
      PROVE  FALSE
  <2>1. RootPointer(<<<<t>>, m>>, t)
    BY <1>7, OwnershipAssumption DEF FromRoot, RootPointer
  <2>2. <<<<t>>, m>> \in Pointers
    BY <2>1, PointerIs
  <2>3. QED
    BY <1>6, <2>2
<1>8. ASSUME NEW k \in Node, NEW s \in Segments, FromNode(k, s, m),
             NEW j \in DOMAIN frames, frames[j].node = k
      PROVE  FALSE
  <2>1. s \in frames[j].rest /\ children[frames[j].node][s] = m
    BY <1>8 DEF FromNode, Waiting
  <2>2. RestPointer(<<<<j, s>>, m>>, j, s)
    BY <2>1 DEF RestPointer
  <2>3. <<<<j, s>>, m>> \in Pointers
    BY <2>2, PointerIs
  <2>4. QED
    BY <1>6, <2>3
<1>9. ASSUME NEW k \in Node, NEW s \in Segments, FromNode(k, s, m),
             \A j \in DOMAIN frames : frames[j].node # k
      PROVE  FALSE
  <2>1. s \in DOMAIN children[k] /\ children[k][s] = m /\ k \in allocated
    BY <1>9 DEF FromNode, Waiting
  <2>2. Top(k)
    BY <1>9, <2>1 DEF IInv, Shape, Top
  <2>3. ASSUME Led(k) PROVE FALSE
    <3>1. PICK ptr \in Pointers, q \in Trails : Reached(ptr[2])[q] = k
      BY <2>3
    <3>2. \E w \in Trails : Reached(ptr[2])[w] = children[k][s]
      BY <1>1, <2>1, <3>1, WayFurther
    <3>3. QED
      BY <1>5, <2>1, <3>2
  <2>4. Len(name[k]) + 1 = Len(name[m]) /\ Len(name[k]) \in Nat
    <3>1. name[m] = Append(name[k], s)
      BY <1>1, <2>1 DEF Named
    <3>2. name[k] \in Seq(Segments) /\ Len(name[k]) \in Nat
      BY <1>2
    <3>3. Len(Append(name[k], s)) = Len(name[k]) + 1
      BY <3>2, AppendProperties
    <3>4. QED
      BY <3>1, <3>2, <3>3
  <2>5. Len(name[k]) \in T
    BY <2>2, <2>3, <2>4
  <2> HIDE DEF T
  <2>6. i <= Len(name[k])
    BY <1>4, <2>5
  <2>7. QED
    BY <1>5, <2>4, <2>6
<1>10. ASSUME NEW j \in Nat, FromFrame(j, m)
       PROVE  FALSE
  BY <1>5, <1>10 DEF Top, FromFrame
<1>11. Owned(m)
  BY <1>5 DEF IInv, Owners, Top
<1>12. QED
  BY <1>7, <1>8, <1>9, <1>10, <1>11 DEF Owned

LEMMA WaysCounted ==
  ASSUME IInv, Forest
  PROVE  NodesOwned
<1> SUFFICES ASSUME NEW n \in Node
             PROVE  Cardinality(Ways(n)) = IF n \in allocated \ leaked THEN 1 ELSE 0
  BY DEF NodesOwned
<1> DEFINE A == {w \in Pointers \X Trails : Reached(w[1][2])[w[2]] = n}
           B == {<<i>> : i \in {j \in DOMAIN frames : frames[j].node = n}}
<1>1. Ways(n) = A \cup B
  BY DEF Ways
<1>2. n # Null
  BY OwnershipAssumption
<1>3. ASSUME NEW w \in A
      PROVE  /\ w[1] \in Pointers /\ w[2] \in Trails /\ w = <<w[1], w[2]>>
             /\ Reached(w[1][2])[w[2]] = n /\ Top(n)
  <2>1. w[1] \in Pointers /\ w[2] \in Trails /\ w = <<w[1], w[2]>> /\ Reached(w[1][2])[w[2]] = n
    OBVIOUS
  <2>2. w[1][2] \in Node /\ Top(w[1][2])
    BY <2>1, PointerFacts
  <2>3. Top(n)
    BY <1>2, <2>1, <2>2, DownIsTop
  <2>4. QED
    BY <2>1, <2>3
<1>4. CASE n \notin allocated \ leaked
  <2>1. A = {}
    BY <1>3, <1>4 DEF Top
  <2>2. B = {}
    BY <1>4, FrameNode
  <2>3. Ways(n) = {}
    BY <1>1, <2>1, <2>2
  <2>4. QED
    BY <1>4, <2>3, FS_EmptySet
<1>5. ASSUME NEW i \in DOMAIN frames, frames[i].node = n
      PROVE  Cardinality(Ways(n)) = 1
  <2>1. A = {}
    BY <1>3, <1>5 DEF Top
  <2>2. B = {<<i>>}
    BY <1>5, FrameNode
  <2>3. Ways(n) = {<<i>>}
    BY <1>1, <2>1, <2>2
  <2>4. QED
    BY <2>3, FS_Singleton
<1>6. CASE Top(n)
  <2>1. B = {}
    BY <1>6 DEF Top
  <2>2. PICK ptr \in Pointers : \E q \in Trails : Reached(ptr[2])[q] = n
    BY <1>6, WayExists
  <2>3. PICK q \in Trails : Reached(ptr[2])[q] = n
    BY <2>2
  <2>4. <<ptr, q>> \in A
    BY <2>3
  <2>5. ASSUME NEW w \in A
        PROVE  w = <<ptr, q>>
    <3>1. /\ w[1] \in Pointers /\ w[2] \in Trails /\ w = <<w[1], w[2]>>
          /\ Reached(w[1][2])[w[2]] = n
      BY <1>3
    <3>2. Reached(ptr[2])[q] # Null /\ Reached(ptr[2])[q] = Reached(w[1][2])[w[2]]
      BY <1>2, <2>3, <3>1
    <3>3. ptr = w[1] /\ q = w[2]
      BY <3>1, <3>2, WayUnique
    <3>4. QED
      BY <3>1, <3>3
  <2> HIDE DEF A, B
  <2>6. Ways(n) = {<<ptr, q>>}
    BY <1>1, <2>1, <2>4, <2>5
  <2>7. n \in allocated \ leaked
    BY <1>6 DEF Top
  <2>8. QED
    BY <2>6, <2>7, FS_Singleton
<1>7. ASSUME NEW i \in DOMAIN frames, frames[i].node = n
      PROVE  n \in allocated \ leaked
  BY <1>7, FrameNode
<1>8. QED
  BY <1>4, <1>5, <1>6, <1>7 DEF Top

(***************************************************************************)
(* Every step keeps the paths of the nodes.                                *)
(***************************************************************************)
LEMMA FreshNode ==
  ASSUME IInv, frames = <<>>, NEW n \in Node \ allocated
  PROVE  /\ DOMAIN children[n] = {} /\ n # Null /\ \A t \in Tries : root_[t] # n
         /\ \A m \in Node : \A s \in DOMAIN children[m] : children[m][s] # n
<1>1. Shape /\ Owners
  BY DEF IInv
<1>2. Unowned(n) /\ DOMAIN children[n] = {} /\ n # Null
  BY <1>1, OwnershipAssumption DEF Shape, Owners
<1>3. \A t \in Tries : root_[t] # n
  BY <1>1, <1>2 DEF Unowned, FromRoot, Shape
<1>4. ASSUME NEW m \in Node, NEW s \in DOMAIN children[m]
      PROVE  children[m][s] # n
  <2>1. m \in allocated /\ s \in Segments
    BY <1>1, <1>4 DEF Shape
  <2>2. s \in Waiting(m)
    BY <1>4, WaitingIdle
  <2>3. QED
    BY <1>2, <1>4, <2>1, <2>2 DEF Unowned, FromNode
<1>5. QED
  BY <1>2, <1>3, <1>4

LEMMA ForestFewerRoots ==
  ASSUME Forest, UNCHANGED children, call' # NoCall => call' = call,
         \A t \in Tries : root_'[t] # Null => \E u \in Tries : root_'[t] = root_[u]
  PROVE  Forest'
<1>1. PICK name : Named(name)
  BY DEF Forest
<1>2. Named(name)'
  BY <1>1 DEF Named, Done
<1>3. QED
  BY <1>2 DEF Forest

LEMMA ForestNewRoot ==
  ASSUME IInv, Forest, frames = <<>>, NEW n \in Node \ allocated, NEW t \in Tries,
         UNCHANGED children, root_' = [root_ EXCEPT ![t] = n], call' = NoCall
  PROVE  Forest'
<1>1. PICK name : Named(name)
  BY DEF Forest
<1> DEFINE new == [name EXCEPT ![n] = <<>>]
<1>2. /\ DOMAIN children[n] = {} /\ n # Null /\ \A u \in Tries : root_[u] # n
      /\ \A m \in Node : \A s \in DOMAIN children[m] : children[m][s] # n
  BY FreshNode
<1>3. new \in [Node -> Paths] /\ new[n] = <<>> /\ \A m \in Node \ {n} : new[m] = name[m]
  BY <1>1, OwnershipAssumption DEF Named
<1> HIDE DEF new
<1>4. \A u \in Tries : root_'[u] # Null => new[root_'[u]] = <<>>
  BY <1>1, <1>2, <1>3 DEF Named, IInv, Shape
<1>5. ASSUME NEW m \in Node, NEW s \in DOMAIN children[m]
      PROVE  new[children[m][s]] = Append(new[m], s)
  <2>1. m # n /\ children[m][s] # n /\ children[m][s] \in Node
    BY <1>2, <1>5 DEF IInv, Shape
  <2>2. new[m] = name[m] /\ new[children[m][s]] = name[children[m][s]]
    BY <1>3, <2>1
  <2>3. QED
    BY <1>1, <2>2 DEF Named
<1>6. Named(new)'
  BY <1>3, <1>4, <1>5 DEF Named
<1>7. QED
  BY <1>6 DEF Forest

LEMMA ForestRootSteps ==
  ASSUME IInv, Forest, NEW t \in Tries, NEW u \in Tries,
         \/ Construct(t) \/ AssignNew(t) \/ Destroy(t) \/ UseMovedFrom(t)
         \/ MoveConstruct(t, u) \/ Assign(t, u) \/ Swap(t, u)
  PROVE  Forest'
<1>1. Shape
  BY DEF IInv
<1>2. CASE Construct(t) \/ AssignNew(t)
  <2>1. /\ frames = <<>> /\ UNCHANGED children /\ call' = NoCall
        /\ \E n \in Node \ allocated : root_' = [root_ EXCEPT ![t] = n]
    BY <1>2 DEF Construct, AssignNew, Idle
  <2>2. QED
    BY <2>1, ForestNewRoot
<1>3. CASE Destroy(t)
  <2>1. UNCHANGED <<children, call>> /\ root_' = [root_ EXCEPT ![t] = Null]
    BY <1>3 DEF Destroy
  <2>2. \A v \in Tries : root_'[v] # Null => root_'[v] = root_[v]
    BY <1>1, <2>1 DEF Shape
  <2>3. QED
    BY <2>1, <2>2, ForestFewerRoots
<1>4. CASE UseMovedFrom(t)
  <2>1. UNCHANGED <<children, call, root_>>
    BY <1>4 DEF UseMovedFrom
  <2>2. QED
    BY <2>1, ForestFewerRoots
<1>5. CASE MoveConstruct(t, u)
  <2>1. UNCHANGED <<children, call>> /\ root_' = [root_ EXCEPT ![t] = root_[u], ![u] = Null]
    BY <1>5 DEF MoveConstruct
  <2>2. \A v \in Tries : root_'[v] # Null => root_'[v] = root_[v] \/ root_'[v] = root_[u]
    BY <1>1, <2>1 DEF Shape
  <2>3. QED
    BY <2>1, <2>2, ForestFewerRoots
<1>6. CASE Assign(t, u)
  <2>1. UNCHANGED <<children, call>> /\ root_' = [[root_ EXCEPT ![u] = Null] EXCEPT ![t] = root_[u]]
    BY <1>6 DEF Assign
  <2>2. \A v \in Tries : root_'[v] # Null => root_'[v] = root_[v] \/ root_'[v] = root_[u]
    BY <1>1, <2>1 DEF Shape
  <2>3. QED
    BY <2>1, <2>2, ForestFewerRoots
<1>7. CASE Swap(t, u)
  <2>1. UNCHANGED <<children, call>> /\ root_' = [root_ EXCEPT ![t] = root_[u], ![u] = root_[t]]
    BY <1>7 DEF Swap
  <2>2. \A v \in Tries : root_'[v] = root_[v] \/ root_'[v] = root_[u] \/ root_'[v] = root_[t]
    BY <1>1, <2>1 DEF Shape
  <2>3. QED
    BY <2>1, <2>2, ForestFewerRoots
<1>8. QED
  BY <1>2, <1>3, <1>4, <1>5, <1>6, <1>7

LEMMA ForestDeleteNode ==
  ASSUME IInv, Forest, DeleteNode
  PROVE  Forest'
<1> DEFINE d == Last(frames).node
<1>1. PICK name : Named(name)
  BY DEF Forest
<1>2. children' = [children EXCEPT ![d] = Childless] /\ UNCHANGED <<root_, call>>
  BY DEF DeleteNode
<1> HIDE DEF d
<1>3. \A m \in Node : \A s \in DOMAIN children'[m] : m # d /\ children'[m] = children[m]
  BY <1>2 DEF IInv, Shape, Childless
<1>4. Named(name)'
  BY <1>1, <1>2, <1>3 DEF Named, Done
<1>5. QED
  BY <1>4 DEF Forest

LEMMA ForestInsert ==
  ASSUME IInv, Forest, NEW t \in Tries, NEW p \in Paths, Insert(t, p)
  PROVE  Forest'
<1>1. PICK name : Named(name)
  BY DEF Forest
<1>2. PICK b : call' = [trie |-> t, path |-> p, done |-> 0, current |-> root_[t], before |-> b]
  BY DEF Insert
<1>3. root_[t] # Null /\ UNCHANGED <<root_, children>>
  BY DEF Insert
<1>4. name[root_[t]] = <<>>
  BY <1>1, <1>3 DEF Named
<1>5. Done' = SubSeq(p, 1, 0) /\ SubSeq(p, 1, 0) = <<>>
  BY <1>2, SubSeqEmpty DEF Done
<1>6. call'.current = root_[t]
  BY <1>2
<1>7. Named(name)'
  BY <1>1, <1>3, <1>4, <1>5, <1>6 DEF Named
<1>8. QED
  BY <1>7 DEF Forest

LEMMA ContinueFacts ==
  ASSUME CallShape, Inserting, NEW n, Continue(n)
  PROVE  /\ call'.trie = call.trie /\ call'.path = call.path /\ call'.done = call.done + 1
         /\ call'.current = n /\ call'.before = call.before
         /\ Done' = Append(Done, Segment) /\ Done' \in Paths /\ Segment \in Segments
         /\ Done \in Paths /\ Done' # <<>> /\ Front(Done') = Done /\ Last(Done') = Segment
         /\ Len(Done) = call.done /\ call.done \in Nat
<1>1. /\ call \in [trie : Tries, path : Paths, done : Nat, current : Node, before : {call.before}]
      /\ call.path \in Paths /\ call.done \in 0..Len(call.path) /\ call.done < Len(call.path)
  BY DEF CallShape, Inserting
<1> DEFINE passed == [call EXCEPT !.done = call.done + 1]
<1>2. call' = [passed EXCEPT !.current = n]
  BY DEF Continue
<1>3. /\ passed \in [trie : Tries, path : Paths, done : Nat, current : Node, before : {call.before}]
      /\ passed.trie = call.trie /\ passed.path = call.path /\ passed.done = call.done + 1
      /\ passed.before = call.before
  BY <1>1
<1> HIDE DEF passed
<1>4. /\ call'.trie = call.trie /\ call'.path = call.path /\ call'.done = call.done + 1
      /\ call'.current = n /\ call'.before = call.before
  BY <1>2, <1>3
<1>5. call.done \in Nat
  BY <1>1
<1> DEFINE p == call.path  i == call.done
<1>6. /\ SubSeq(p, 1, i + 1) = Append(SubSeq(p, 1, i), p[i + 1]) /\ SubSeq(p, 1, i + 1) \in Paths
      /\ p[i + 1] \in Segments /\ Len(SubSeq(p, 1, i)) = i /\ SubSeq(p, 1, i) \in Paths
  <2>1. p \in Paths /\ i \in Nat /\ i < Len(p) /\ i \in 0..Len(p)
    BY <1>1, <1>5
  <2> HIDE DEF p, i
  <2>2. QED
    BY <2>1, PrefixGrows, PrefixIsPath
<1>7. /\ Done' = Append(Done, Segment) /\ Done' \in Paths /\ Segment \in Segments
      /\ Done \in Paths /\ Len(Done) = call.done
  BY <1>4, <1>6 DEF Done, Segment
<1>8. Done' # <<>> /\ Front(Done') = Done /\ Last(Done') = Segment
  <2> DEFINE u == Done  v == Append(Done, Segment)  y == Segment
  <2>1. u \in Seq(Segments) /\ y \in Segments /\ v = Append(u, y)
    BY <1>7, PathFacts
  <2> HIDE DEF u, v, y
  <2>2. v \in Seq(Segments) /\ v # <<>>
    BY <2>1, AppendProperties
  <2>3. Front(v) \in Seq(Segments) /\ Last(v) \in Segments /\ v = Append(Front(v), Last(v))
    BY <2>2, FrontFacts
  <2>4. PICK f \in Seq(Segments), l \in Segments : f = Front(v) /\ l = Last(v)
    BY <2>3
  <2>5. Append(u, y) = Append(f, l)
    BY <2>1, <2>3, <2>4
  <2>6. u = f /\ y = l
    BY <2>1, <2>5, AppendInjective
  <2>7. QED
    BY <1>7, <2>2, <2>4, <2>6 DEF u, v, y
<1>9. QED
  BY <1>4, <1>5, <1>7, <1>8

LEMMA ForestPassSegment ==
  ASSUME IInv, Forest, PassSegment
  PROVE  Forest'
<1>1. PICK name : Named(name)
  BY DEF Forest
<1> DEFINE c == children[call.current][Segment]
<1>2. /\ Inserting /\ Segment \in DOMAIN children[call.current] /\ Continue(c)
      /\ UNCHANGED <<root_, children>>
  BY DEF PassSegment
<1>3. Done' = Append(Done, Segment) /\ call'.current = c
  BY <1>2, ContinueFacts DEF IInv
<1>4. call # NoCall /\ call.current \in Node
  BY <1>2 DEF Inserting, IInv, CallShape
<1>5. name[c] = Append(Done, Segment)
  BY <1>1, <1>2, <1>4 DEF Named
<1> HIDE DEF c
<1>6. Named(name)'
  BY <1>1, <1>2, <1>3, <1>5 DEF Named
<1>7. QED
  BY <1>6 DEF Forest

LEMMA AddSegmentTo ==
  ASSUME IInv, AddSegment
  PROVE  \E n \in Node \ allocated :
           /\ allocated' = allocated \cup {n} /\ Continue(n) /\ n # call.current
           /\ \A m \in Node \ {call.current} : children'[m] = children[m]
           /\ DOMAIN children'[call.current] = DOMAIN children[call.current] \cup {Segment}
           /\ children'[call.current][Segment] = n
           /\ \A s \in DOMAIN children[call.current] :
                children'[call.current][s] = children[call.current][s]
<1>1. PICK n \in Node \ allocated :
        /\ allocated' = allocated \cup {n} /\ Continue(n)
        /\ children' = [children EXCEPT ![call.current] = Linked(@, Segment, n)]
  BY DEF AddSegment
<1>2. Segment \notin DOMAIN children[call.current]
  BY DEF AddSegment
<1>3. call.current \in Node /\ call.current # n /\ DOMAIN children = Node
  BY <1>1 DEF AddSegment, Inserting, IInv, CallShape, Shape
<1>4. children'[call.current] = Linked(children[call.current], Segment, n)
  BY <1>1, <1>3
<1>5. QED
  BY <1>1, <1>2, <1>3, <1>4 DEF Linked

LEMMA ForestAddSegment ==
  ASSUME IInv, Forest, AddSegment
  PROVE  Forest'
<1>1. PICK name : Named(name)
  BY DEF Forest
<1> DEFINE k == call.current  y == Segment
<1>2. PICK n \in Node \ allocated :
           /\ allocated' = allocated \cup {n} /\ Continue(n) /\ n # k
           /\ \A m \in Node \ {k} : children'[m] = children[m]
           /\ DOMAIN children'[k] = DOMAIN children[k] \cup {y}
           /\ children'[k][y] = n
           /\ \A s \in DOMAIN children[k] : children'[k][s] = children[k][s]
  BY AddSegmentTo
<1>3. Inserting /\ call # NoCall /\ frames = <<>> /\ k \in Node /\ UNCHANGED root_
  BY DEF AddSegment, Inserting, IInv, CallShape
<1>4. Done' = Append(Done, y) /\ Done' \in Paths /\ call'.current = n
  BY <1>2, <1>3, ContinueFacts DEF IInv
<1>5. /\ DOMAIN children[n] = {} /\ n # Null /\ \A t \in Tries : root_[t] # n
      /\ \A m \in Node : \A s \in DOMAIN children[m] : children[m][s] # n
  BY <1>3, FreshNode
<1>6. name[k] = Done
  BY <1>1, <1>3 DEF Named
<1> HIDE DEF k, y
<1>13. [name EXCEPT ![n] = Append(Done, y)] \in [Node -> Paths]
  BY <1>1, <1>4 DEF Named
<1>7. PICK new \in [Node -> Paths] :
        new[n] = Append(Done, y) /\ \A m \in Node \ {n} : new[m] = name[m]
  BY <1>1, <1>13 DEF Named
<1>8. \A t \in Tries : root_'[t] # Null => new[root_'[t]] = <<>>
  BY <1>1, <1>3, <1>5, <1>7 DEF Named, IInv, Shape
<1>9. ASSUME NEW m \in Node, NEW s \in DOMAIN children'[m]
      PROVE  new[children'[m][s]] = Append(new[m], s)
  <2>1. CASE m = k /\ s = y
    BY <1>2, <1>3, <1>6, <1>7, <2>1
  <2>2. CASE ~(m = k /\ s = y)
    <3>1. s \in DOMAIN children[m] /\ children'[m][s] = children[m][s]
      BY <1>2, <1>9, <2>2
    <3>2. m # n /\ children[m][s] # n /\ children[m][s] \in Node
      BY <1>5, <3>1 DEF IInv, Shape
    <3>3. name[children[m][s]] = Append(name[m], s)
      BY <1>1, <3>1 DEF Named
    <3>4. QED
      BY <1>7, <3>1, <3>2, <3>3
  <2>3. QED
    BY <2>1, <2>2
<1>10. call' # NoCall => new[call'.current] = Done'
  BY <1>4, <1>7
<1>11. Named(new)'
  <2>1. new \in [Node -> Paths]
    BY <1>7
  <2>2. \A m \in Node : \A s \in DOMAIN children'[m] : new[children'[m][s]] = Append(new[m], s)
    BY <1>9
  <2>3. QED
    BY <2>1, <2>2, <1>8, <1>10 DEF Named
<1>12. QED
  BY <1>11 DEF Forest

-----------------------------------------------------------------------------
\* The trees stay trees: nodes can be given paths such that every child is one
\* segment further than its parent, roots are at the start, and the node that
\* Insert has come to is where the segments it has gone through lead.
THEOREM ForestInvariance == Spec => []Forest
<1>1. Init => Forest
  <2>1. SUFFICES ASSUME Init PROVE Forest
    OBVIOUS
  <2> DEFINE name == [n \in Node |-> <<>>]
  <2>2. name \in [Node -> Paths] /\ \A n \in Node : DOMAIN children[n] = {}
    BY <2>1, OwnershipAssumption DEF Init, Childless
  <2>3. \A t \in Tries : root_[t] = Null
    BY <2>1 DEF Init
  <2> HIDE DEF name
  <2>4. Named(name)
    BY <2>1, <2>2, <2>3 DEF Named, Init
  <2>5. QED
    BY <2>4 DEF Forest
<1>2. IInv /\ Forest /\ [Next]_vars => Forest'
  <2>1. SUFFICES ASSUME IInv, Forest, [Next]_vars
                 PROVE  Forest'
    OBVIOUS
  <2>2. ASSUME NEW t \in Tries, Construct(t) \/ AssignNew(t) \/ Destroy(t) \/ UseMovedFrom(t)
        PROVE  Forest'
    BY <2>1, <2>2, ForestRootSteps
  <2>3. ASSUME NEW t \in Tries, NEW u \in Tries, MoveConstruct(t, u) \/ Assign(t, u) \/ Swap(t, u)
        PROVE  Forest'
    BY <2>1, <2>3, ForestRootSteps
  <2>4. ASSUME NEW t \in Tries, NEW p \in Paths, Insert(t, p)
        PROVE  Forest'
    BY <2>1, <2>4, ForestInsert
  <2>5. CASE DeleteChild
    <3>1. UNCHANGED <<children, call, root_>>
      BY <2>5 DEF DeleteChild
    <3>2. QED
      BY <2>1, <3>1, ForestFewerRoots
  <2>6. CASE DeleteNode
    BY <2>1, <2>6, ForestDeleteNode
  <2>7. CASE PassSegment
    BY <2>1, <2>7, ForestPassSegment
  <2>8. CASE AddSegment
    BY <2>1, <2>8, ForestAddSegment
  <2>9. CASE InsertThrows \/ InsertReturns
    <3>1. UNCHANGED <<children, root_>> /\ call' = NoCall
      BY <2>9 DEF InsertThrows, InsertReturns
    <3>2. QED
      BY <2>1, <3>1, ForestFewerRoots
  <2>10. CASE UNCHANGED vars
    <3>1. UNCHANGED <<children, call, root_>>
      BY <2>10 DEF vars
    <3>2. QED
      BY <2>1, <3>1, ForestFewerRoots
  <2>11. QED
    BY <2>1, <2>2, <2>3, <2>4, <2>5, <2>6, <2>7, <2>8, <2>9, <2>10 DEF Next, Step
<1>3. QED
  BY <1>1, <1>2, Invariance, PTL DEF Spec

\* For any objects, heap and paths, in every state: from the pointers that
\* still count, one trail of one pointer leads to each node in use, so that
\* deleteTrie frees it once, and none to a node that was freed or lost.
THEOREM NodesCorrect == Spec => []NodesOwned
<1>1. IInv /\ Forest => NodesOwned
  BY WaysCounted
<1>2. QED
  BY <1>1, Invariance, ForestInvariance, PTL

(***************************************************************************)
(* What the steps leave of the trees they do not touch.                    *)
(***************************************************************************)
\* The nodes that r leads to, and the tree below it.
Below(r, m) == \E q \in Trails : Reached(r)[q] = m /\ m # Null

LEMMA ContentIs ==
  ASSUME NEW r
  PROVE  Content(r) = [p \in {q \in Paths : Reached(r)[q] # Null} |-> end[Reached(r)[p]]]
BY DEF Content

LEMMA ContentNext ==
  ASSUME NEW r
  PROVE  Content(r)' = [p \in {q \in Paths : Reached(r)'[q] # Null} |-> end'[Reached(r)'[p]]]
BY DEF Content

\* A tree none of whose nodes changes keeps its content.
LEMMA TreeStays ==
  ASSUME NEW r,
         \A m : Below(r, m) => DOMAIN children'[m] = DOMAIN children[m] /\ end'[m] = end[m]
                               /\ \A s \in DOMAIN children[m] : children'[m][s] = children[m][s]
  PROVE  Reached(r)' = Reached(r) /\ Content(r)' = Content(r)
<1> DEFINE G == Reached(r)
<1>1. ASSUME NEW p \in Trails, p # <<>>, G[Front(p)] # Null
      PROVE  Below(r, G[Front(p)])
  <2>1. Front(p) \in Trails
    BY <1>1, TrailFacts
  <2>2. QED
    BY <1>1, <2>1 DEF Below
<1>2. G = [p \in Trails |-> Onward(children, G, r, p)]
  BY ReachedLeads DEF Leads
<1> HIDE DEF G
<1>3. \A p \in Trails : Onward(children, G, r, p) = Onward(children', G, r, p)
  BY <1>1 DEF Onward
<1>4. G = [p \in Trails |-> Onward(children', G, r, p)]
  BY <1>2, <1>3
<1>5. Leads(children', G, r)
  BY <1>4 DEF Leads
<1>6. Reached(r)' = Reached(r)
  BY <1>5, ReachedNext DEF G
<1>7. \A q \in Paths : Reached(r)[q] # Null => end'[Reached(r)[q]] = end[Reached(r)[q]]
  BY PathFacts DEF Below
<1>8. Content(r)' = Content(r)
  <2>1. [p \in {q \in Paths : Reached(r)[q] # Null} |-> end'[Reached(r)[p]]]
        = [p \in {q \in Paths : Reached(r)[q] # Null} |-> end[Reached(r)[p]]]
    BY <1>7
  <2>2. QED
    BY <1>6, <2>1, ContentIs, ContentNext
<1>9. QED
  BY <1>6, <1>8

LEMMA HeapStays ==
  ASSUME NEW r, UNCHANGED <<children, end>>
  PROVE  Reached(r)' = Reached(r) /\ Content(r)' = Content(r)
BY TreeStays

\* Paths to their flags.
Content_ == UNION {[D -> BOOLEAN] : D \in SUBSET Paths}

LEMMA IsNoContent ==
  ASSUME NEW v \in Content_
  PROVE  v # Destroyed /\ v # MovedFrom
<1>1. PICK D \in SUBSET Paths : v \in [D -> BOOLEAN]
  BY DEF Content_
<1>2. QED
  BY <1>1, OwnershipAssumption

LEMMA RootTop ==
  ASSUME IInv, NEW t \in Tries, root_[t] # Null
  PROVE  /\ root_[t] \in Node /\ Top(root_[t]) /\ t \in alive
         /\ \A m : Below(root_[t], m) => m \in Node /\ Top(m)
<1>1. t \in alive
  BY DEF IInv, Shape
<1>2. RootPointer(<<<<t>>, root_[t]>>, t)
  BY <1>1 DEF RootPointer
<1>3. root_[t] \in Node /\ Top(root_[t])
  BY <1>2, RootPointerFacts
<1>4. QED
  BY <1>1, <1>3, DownIsTop DEF Below

LEMMA ContentType ==
  ASSUME IInv, NEW t \in Tries, root_[t] # Null
  PROVE  Content(root_[t]) \in Content_
<1> DEFINE r == root_[t]  D == {q \in Paths : Reached(r)[q] # Null}
<1>1. \A q \in D : Reached(r)[q] \in Node
  BY RootTop, PathFacts DEF Below
<1>2. end \in [Node -> BOOLEAN]
  BY DEF IInv, Shape
<1> HIDE DEF r
<1>3. [p \in D |-> end[Reached(r)[p]]] \in [D -> BOOLEAN]
  BY <1>1, <1>2
<1>4. D \in SUBSET Paths
  OBVIOUS
<1>5. Content(r) \in [D -> BOOLEAN]
  BY <1>3, ContentIs
<1> HIDE DEF D
<1>6. QED
  BY <1>4, <1>5 DEF Content_, r

\* The trees of two objects share no node.
LEMMA TreesApart ==
  ASSUME IInv, NEW t \in Tries, NEW u \in Tries, t # u, root_[t] # Null, root_[u] # Null,
         NEW m, Below(root_[t], m)
  PROVE  ~Below(root_[u], m)
<1>1. t \in alive /\ u \in alive
  BY RootTop
<1> DEFINE p == <<<<t>>, root_[t]>>  r == <<<<u>>, root_[u]>>
<1>2. p \in Pointers /\ r \in Pointers /\ p[2] = root_[t] /\ r[2] = root_[u] /\ p # r
  BY <1>1 DEF Pointers
<1> HIDE DEF p, r
<1>3. ASSUME Below(root_[u], m) PROVE FALSE
  <2>1. PICK a \in Trails : Reached(p[2])[a] = m /\ m # Null
    BY <1>2 DEF Below
  <2>2. PICK b \in Trails : Reached(r[2])[b] = m
    BY <1>2, <1>3 DEF Below
  <2>3. QED
    BY <1>2, <2>1, <2>2, WayUnique
<1>4. QED
  BY <1>3

\* One trail leads to each node below a root.
LEMMA TrailUnique ==
  ASSUME IInv, NEW t \in Tries, root_[t] # Null, NEW a \in Trails, NEW b \in Trails,
         Reached(root_[t])[a] # Null, Reached(root_[t])[a] = Reached(root_[t])[b]
  PROVE  a = b
<1>1. t \in alive
  BY RootTop
<1> DEFINE p == <<<<t>>, root_[t]>>
<1>2. p \in Pointers /\ p[2] = root_[t]
  BY <1>1 DEF Pointers
<1> HIDE DEF p
<1>3. QED
  BY <1>2, WayUnique

(***************************************************************************)
(* The insertion that runs: where it is, and what its object had before.   *)
(***************************************************************************)
CallPlace ==
  call # NoCall =>
    /\ root_[call.trie] # Null
    /\ Reached(root_[call.trie])[Done] = call.current
    /\ call.before \in Content_
    /\ Content(root_[call.trie]) = Values!Walked(call.before, call.path, call.done)

Quiet == crashed => call = NoCall /\ frames = <<>>

\* A place that is free has no flag: new TrieNode() starts without.
Cleared == \A n \in Node \ allocated : ~end[n]

PlaceInv == CallPlace /\ Quiet /\ Cleared

LEMMA WalkedNone ==
  ASSUME NEW v \in Content_, NEW p \in Paths
  PROVE  Values!Walked(v, p, 0) = v
<1>1. {SubSeq(p, 1, i) : i \in 1..0} = {}
  OBVIOUS
<1>2. PICK D \in SUBSET Paths : v \in [D -> BOOLEAN]
  BY DEF Content_
<1>3. Values!Walked(v, p, 0) = [q \in DOMAIN v |-> q \in DOMAIN v /\ v[q]]
  BY <1>1 DEF Values!Walked
<1>4. QED
  BY <1>2, <1>3

\* One iteration more: f has x besides what w has, without a flag.
Passed(f, D, w, x) ==
  /\ f \in [D -> BOOLEAN] /\ D = DOMAIN w \cup {x}
  /\ \A q \in D : f[q] = (q # x /\ q \in DOMAIN w /\ w[q])

LEMMA WalkedNext ==
  ASSUME NEW v, NEW p \in Paths, NEW k \in Nat,
         NEW w, w = Values!Walked(v, p, k), NEW x, x = SubSeq(p, 1, k + 1),
         NEW D, NEW f, Passed(f, D, w, x)
  PROVE  Values!Walked(v, p, k + 1) = f
<1> DEFINE old == {SubSeq(p, 1, i) : i \in 1..k}
           new == {SubSeq(p, 1, i) : i \in 1..(k + 1)}
<1>1. new = old \cup {x}
  <2>1. 1..(k + 1) = 1..k \cup {k + 1}
    OBVIOUS
  <2>2. QED
    BY <2>1
<1>2. w = [q \in DOMAIN v \cup old |-> q \in DOMAIN v \ old /\ v[q]] /\ Values!Walked(v, p, k + 1) =
        [q \in DOMAIN v \cup new |-> q \in DOMAIN v \ new /\ v[q]]
  BY DEF Values!Walked
<1> HIDE DEF old, new
<1>3. DOMAIN v \cup new = D
  BY <1>1, <1>2 DEF Passed
<1>4. \A q \in D : (q \in DOMAIN v \ new /\ v[q]) = (q # x /\ q \in DOMAIN w /\ w[q])
  BY <1>1, <1>2
<1>5. QED
  BY <1>2, <1>3, <1>4 DEF Passed

LEMMA PlaceInsert ==
  ASSUME IInv, NEW t \in Tries, NEW p \in Paths, Insert(t, p)
  PROVE  CallPlace'
<1>1. /\ root_[t] # Null /\ UNCHANGED <<root_, children, end>>
      /\ call' = [trie |-> t, path |-> p, done |-> 0, current |-> root_[t],
                  before |-> Content(root_[t])]
  BY DEF Insert
<1>2. PICK r : r = root_[t]
  OBVIOUS
<1>3. Content(r) \in Content_
  BY <1>1, <1>2, ContentType
<1>4. /\ call'.trie = t /\ call'.path = p /\ call'.done = 0 /\ call'.current = r
      /\ call'.before = Content(r) /\ root_'[t] = r
  BY <1>1, <1>2
<1>5. Done' = <<>>
  BY <1>4, SubSeqEmpty DEF Done
<1>6. Reached(r)' = Reached(r) /\ Content(r)' = Content(r) /\ Reached(r)[<<>>] = r
  BY <1>1, HeapStays, ReachedRoot
<1>7. Values!Walked(Content(r), p, 0) = Content(r)
  BY <1>3, WalkedNone
<1>8. Reached(root_[call.trie])'[Done'] = call'.current
  BY <1>4, <1>5, <1>6
<1>9. Content(root_[call.trie])' = Values!Walked(call'.before, call'.path, call'.done)
  BY <1>4, <1>6, <1>7
<1>10. QED
  BY <1>1, <1>2, <1>3, <1>4, <1>8, <1>9 DEF CallPlace

LEMMA ReachedStays ==
  ASSUME NEW r, UNCHANGED children
  PROVE  Reached(r)' = Reached(r)
BY ReachedLeads, ReachedNext

\* What an iteration knows.
LEMMA PlaceFacts ==
  ASSUME IInv, CallPlace, Inserting, NEW n, Continue(n)
  PROVE  /\ call.trie \in Tries /\ root_[call.trie] # Null /\ call.before \in Content_
         /\ call.path \in Paths /\ call.done \in Nat /\ call.current \in Node
         /\ Reached(root_[call.trie])[Done] = call.current
         /\ Content(root_[call.trie]) = Values!Walked(call.before, call.path, call.done)
         /\ Done' = SubSeq(call.path, 1, call.done + 1) /\ Done' \in Paths /\ Done' \in Trails
         /\ Done' # <<>> /\ Front(Done') = Done /\ Last(Done') = Segment
         /\ call'.trie = call.trie /\ call'.path = call.path /\ call'.done = call.done + 1
         /\ call'.current = n /\ call'.before = call.before /\ Done \in Trails
<1>1. call # NoCall /\ CallShape
  BY DEF Inserting, IInv
<1>2. /\ call.trie \in Tries /\ call.path \in Paths /\ call.current \in Node
  BY <1>1 DEF CallShape
<1>3. /\ call'.trie = call.trie /\ call'.path = call.path /\ call'.done = call.done + 1
      /\ call'.current = n /\ call'.before = call.before /\ Done' \in Paths /\ Done \in Paths
      /\ Done' # <<>> /\ Front(Done') = Done /\ Last(Done') = Segment /\ call.done \in Nat
  BY <1>1, ContinueFacts
<1>4. Done' = SubSeq(call.path, 1, call.done + 1)
  BY <1>3 DEF Done
<1>5. Done' \in Trails /\ Done \in Trails
  BY <1>3, PathFacts
<1>6. QED
  BY <1>1, <1>2, <1>3, <1>4, <1>5 DEF CallPlace

LEMMA PassFacts ==
  ASSUME IInv, CallPlace, PassSegment
  PROVE  LET c == children[call.current][Segment]
         IN  /\ c \in Node /\ c # Null /\ Inserting /\ Continue(c)
             /\ Reached(root_[call.trie])[Done'] = c /\ end' = [end EXCEPT ![c] = FALSE]
<1> DEFINE c == children[call.current][Segment]  r == root_[call.trie]
<1>1. /\ Inserting /\ Segment \in DOMAIN children[call.current] /\ Continue(c)
      /\ end' = [end EXCEPT ![c] = FALSE]
  BY DEF PassSegment
<1> HIDE DEF c
<1>2. /\ call.current \in Node /\ Reached(r)[Done] = call.current /\ Done' \in Trails
      /\ Done' # <<>> /\ Front(Done') = Done /\ Last(Done') = Segment
  BY <1>1, PlaceFacts
<1>3. c \in Node /\ c # Null /\ call.current # Null
  BY <1>1, <1>2, OwnershipAssumption DEF c, IInv, Shape
<1> HIDE DEF r
<1>4. Reached(r)[Done'] = Onward(children, Reached(r), r, Done')
  BY <1>2, ReachedIs
<1>5. Reached(r)[Done'] = c
  BY <1>1, <1>2, <1>3, <1>4 DEF Onward, c
<1>6. QED
  BY <1>1, <1>3, <1>5 DEF c, r

LEMMA PlacePass ==
  ASSUME IInv, CallPlace, PassSegment
  PROVE  CallPlace'
<1>1. PICK c : c = children[call.current][Segment]
  OBVIOUS
<1>2. PICK t : t = call.trie
  OBVIOUS
<1>3. PICK r : r = root_[call.trie]
  OBVIOUS
<1>4. PICK x : x = Done'
  OBVIOUS
<1>5. /\ c \in Node /\ c # Null /\ Inserting /\ Continue(c)
      /\ Reached(r)[x] = c /\ end' = [end EXCEPT ![c] = FALSE]
  BY <1>1, <1>3, <1>4, PassFacts
<1>6. /\ t \in Tries /\ r = root_[t] /\ r # Null /\ call.before \in Content_
      /\ call.path \in Paths /\ call.done \in Nat
      /\ Content(r) = Values!Walked(call.before, call.path, call.done)
      /\ x = SubSeq(call.path, 1, call.done + 1) /\ x \in Paths /\ x \in Trails
      /\ call'.trie = t /\ call'.path = call.path /\ call'.done = call.done + 1
      /\ call'.current = c /\ call'.before = call.before
  BY <1>2, <1>3, <1>4, <1>5, PlaceFacts
<1>7. UNCHANGED <<root_, children>>
  BY DEF PassSegment
<1>8. Reached(r)' = Reached(r)
  BY <1>7, ReachedStays
<1> DEFINE at == Reached(r)  D == {q \in Paths : at[q] # Null}
<1>9. Content(r) = [q \in D |-> end[at[q]]] /\ Content(r)' = [q \in D |-> end'[at[q]]] /\ x \in D
  <2>1. Content(r) = [q \in D |-> end[at[q]]]
    BY ContentIs
  <2>2. Content(r)' = [p \in {q \in Paths : Reached(r)'[q] # Null} |-> end'[Reached(r)'[p]]]
    BY ContentNext
  <2>3. Content(r)' = [q \in D |-> end'[at[q]]]
    BY <1>8, <2>2
  <2>4. x \in D
    BY <1>5, <1>6
  <2>5. QED
    BY <2>1, <2>3, <2>4
<1>10. \A q \in D : at[q] \in Node /\ q \in Trails /\ (at[q] = c => q = x)
  BY <1>5, <1>6, RootTop, PathFacts, TrailUnique DEF Below
<1>11. end \in [Node -> BOOLEAN]
  BY DEF IInv, Shape
<1> HIDE DEF at, D
<1>12. \A q \in D : end'[at[q]] = (q # x /\ q \in D /\ end[at[q]])
  <2>1. SUFFICES ASSUME NEW q \in D
                 PROVE  end'[at[q]] = (q # x /\ q \in D /\ end[at[q]])
    OBVIOUS
  <2>2. end[at[q]] \in BOOLEAN /\ at[q] \in Node
    BY <1>10, <1>11
  <2>3. CASE q = x
    BY <1>5, <1>11, <2>3 DEF at
  <2>4. CASE q # x
    BY <1>5, <1>10, <1>11, <2>2, <2>4
  <2>5. QED
    BY <2>3, <2>4
<1>13. PICK w, f : w = Content(r) /\ f = Content(r)'
  OBVIOUS
<1>14. DOMAIN w = D /\ \A q \in D : w[q] = end[at[q]]
  BY <1>9, <1>13
<1>15. Passed(f, D, w, x)
  <2>1. \A q \in D : end'[at[q]] \in BOOLEAN
    BY <1>12
  <2>2. f = [q \in D |-> end'[at[q]]]
    BY <1>9, <1>13
  <2>3. f \in [D -> BOOLEAN] /\ \A q \in D : f[q] = end'[at[q]]
    BY <2>1, <2>2
  <2>4. D = DOMAIN w \cup {x}
    BY <1>9, <1>14
  <2>5. QED
    BY <1>12, <1>14, <2>3, <2>4 DEF Passed
<1>16. Content(r)' = Values!Walked(call.before, call.path, call.done + 1)
  <2>1. PICK v, p, k, E : v = call.before /\ p = call.path /\ k = call.done /\ E = D
    OBVIOUS
  <2>2. /\ p \in Paths /\ k \in Nat /\ w = Values!Walked(v, p, k) /\ x = SubSeq(p, 1, k + 1)
        /\ Passed(f, E, w, x)
    BY <1>6, <1>13, <1>15, <2>1
  <2>3. Values!Walked(v, p, k + 1) = f
    BY <2>2, WalkedNext
  <2>4. QED
    BY <1>13, <2>1, <2>3
<1>17. root_'[call'.trie] = r
  BY <1>6, <1>7
<1>18. Reached(root_[call.trie])'[Done'] = call'.current
  BY <1>4, <1>5, <1>6, <1>8, <1>17
<1>19. Content(root_[call.trie])' = Values!Walked(call'.before, call'.path, call'.done)
  BY <1>6, <1>16, <1>17
<1>20. QED
  BY <1>6, <1>17, <1>18, <1>19 DEF CallPlace

LEMMA AddFacts ==
  ASSUME IInv, CallPlace, AddSegment
  PROVE  \E n \in Node \ allocated :
           /\ Inserting /\ Continue(n) /\ n # Null /\ DOMAIN children[n] = {}
           /\ call.current \in Node /\ call.current # Null /\ Segment \notin DOMAIN children[call.current]
           /\ \A m \in Node \ {call.current} : children'[m] = children[m]
           /\ DOMAIN children'[call.current] = DOMAIN children[call.current] \cup {Segment}
           /\ children'[call.current][Segment] = n
           /\ \A s \in DOMAIN children[call.current] :
                children'[call.current][s] = children[call.current][s]
           /\ n # call.current /\ UNCHANGED <<root_, end>>
<1>1. PICK n \in Node \ allocated :
           /\ allocated' = allocated \cup {n} /\ Continue(n) /\ n # call.current
           /\ \A m \in Node \ {call.current} : children'[m] = children[m]
           /\ DOMAIN children'[call.current] = DOMAIN children[call.current] \cup {Segment}
           /\ children'[call.current][Segment] = n
           /\ \A s \in DOMAIN children[call.current] :
                children'[call.current][s] = children[call.current][s]
  BY AddSegmentTo
<1>2. Inserting /\ Segment \notin DOMAIN children[call.current] /\ UNCHANGED <<root_, end>>
  BY DEF AddSegment
<1>3. frames = <<>> /\ call.current \in Node
  BY <1>2 DEF Inserting, IInv, CallShape
<1>4. DOMAIN children[n] = {} /\ n # Null
  BY <1>3, FreshNode
<1>5. call.current # Null
  BY <1>3, OwnershipAssumption
<1>6. QED
  BY <1>1, <1>2, <1>3, <1>4, <1>5

\* The walk leads to the new node by the trail of the insertion, and is the
\* same elsewhere.
LEMMA ReachedAdd ==
  ASSUME IInv, CallPlace, AddSegment, NEW r, r = root_[call.trie], NEW x, x = Done'
  PROVE  \E n \in Node \ allocated :
           /\ call'.current = n /\ Reached(r)[x] = Null /\ n # Null
           /\ Reached(r)' = [q \in Trails |-> IF q = x THEN n ELSE Reached(r)[q]]
<1>0. PICK k, y : k = call.current /\ y = Segment
  OBVIOUS
<1>1. PICK n \in Node \ allocated :
           /\ Inserting /\ Continue(n) /\ n # Null /\ DOMAIN children[n] = {}
           /\ k \in Node /\ k # Null /\ y \notin DOMAIN children[k]
           /\ \A m \in Node \ {k} : children'[m] = children[m]
           /\ DOMAIN children'[k] = DOMAIN children[k] \cup {y}
           /\ children'[k][y] = n
           /\ \A s \in DOMAIN children[k] : children'[k][s] = children[k][s]
           /\ n # k
  BY <1>0, AddFacts
<1>2. PICK d : d = Done
  OBVIOUS
<1>3. PICK t \in Tries : t = call.trie
  BY <1>1, PlaceFacts
<1>4. /\ r = root_[t] /\ r # Null /\ Reached(r)[d] = k /\ d \in Trails
      /\ x \in Trails /\ x # <<>> /\ Front(x) = d /\ Last(x) = y /\ call'.current = n
  BY <1>0, <1>1, <1>2, <1>3, PlaceFacts
<1>5. PICK at : at = Reached(r)
  OBVIOUS
<1>6. \A q \in Trails : at[q] = Onward(children, at, r, q)
  BY <1>5, ReachedIs
<1>7. at[x] = Null
  BY <1>1, <1>4, <1>5, <1>6 DEF Onward
<1>8. d # x
  <2>1. Len(d) = Len(x) - 1 /\ Len(x) \in Nat
    BY <1>4, TrailFacts
  <2>2. QED
    BY <2>1
<1> DEFINE G == [q \in Trails |-> IF q = x THEN n ELSE at[q]]
<1>9. \A q \in Trails : G[q] = IF q = x THEN n ELSE at[q]
  OBVIOUS
<1> HIDE DEF G
<1>10. ASSUME NEW q \in Trails
       PROVE  G[q] = Onward(children', G, r, q)
  <2>1. CASE q = <<>>
    BY <1>4, <1>6, <1>9, <2>1 DEF Onward
  <2>2. CASE q = x
    <3>1. G[d] = k /\ G[q] = n
      BY <1>4, <1>5, <1>8, <1>9, <2>2
    <3>2. y \in DOMAIN children'[k] /\ children'[k][y] = n
      BY <1>1
    <3>3. Onward(children', G, r, q) = n
      BY <1>1, <1>4, <2>2, <3>1, <3>2 DEF Onward
    <3>4. QED
      BY <3>1, <3>3
  <2>3. CASE q # x /\ q # <<>> /\ Front(q) = x
    <3>1. G[Front(q)] = n /\ DOMAIN children'[n] = {}
      BY <1>1, <1>4, <1>9, <2>3
    <3>2. Onward(children', G, r, q) = Null
      BY <2>3, <3>1 DEF Onward
    <3>3. at[q] = Null
      BY <1>6, <1>7, <2>3 DEF Onward
    <3>4. QED
      BY <1>9, <2>3, <3>2, <3>3
  <2>4. CASE q # x /\ q # <<>> /\ Front(q) # x
    <3>1. Front(q) \in Trails /\ q = Append(Front(q), Last(q)) /\ x = Append(d, y)
      BY <1>4, <2>4, TrailFacts
    <3>2. PICK m : m = at[Front(q)]
      OBVIOUS
    <3>3. G[Front(q)] = m /\ G[q] = at[q]
      BY <1>9, <2>4, <3>1, <3>2
    <3>4. CASE m = Null
      <4>1. at[q] = Null /\ Onward(children', G, r, q) = Null
        BY <1>6, <2>4, <3>2, <3>3, <3>4 DEF Onward
      <4>2. QED
        BY <3>3, <4>1
    <3>5. CASE m = k
      <4>0. /\ root_[t] # Null /\ Reached(root_[t])[Front(q)] # Null
            /\ Reached(root_[t])[Front(q)] = Reached(root_[t])[d] /\ Front(q) \in Trails /\ d \in Trails
        BY <1>1, <1>4, <1>5, <3>1, <3>2, <3>5
      <4>1. Front(q) = d
        <5>1. PICK a \in Trails : a = Front(q)
          BY <4>0
        <5>2. a = d
          BY <4>0, <5>1, TrailUnique
        <5>3. QED
          BY <5>1, <5>2
      <4>2. Last(q) # y
        BY <2>4, <3>1, <4>1
      <4>3. Onward(children', G, r, q) = Onward(children, at, r, q)
        BY <1>1, <2>4, <3>2, <3>3, <3>5, <4>2 DEF Onward
      <4>4. QED
        BY <1>6, <3>3, <4>3
    <3>6. CASE m # Null /\ m # k
      <4>1. m \in Node
        BY <1>3, <1>4, <1>5, <3>1, <3>2, <3>6, RootTop DEF Below
      <4>2. children'[m] = children[m]
        BY <1>1, <3>6, <4>1
      <4>3. Onward(children', G, r, q) = Onward(children, at, r, q)
        BY <2>4, <3>2, <3>3, <4>2 DEF Onward
      <4>4. QED
        BY <1>6, <3>3, <4>3
    <3>7. QED
      BY <3>4, <3>5, <3>6
  <2>5. QED
    BY <2>1, <2>2, <2>3, <2>4
<1>11. PICK H : H = G
  OBVIOUS
<1>12. Leads(children', H, r)
  <2>1. H = [q \in Trails |-> IF q = x THEN n ELSE at[q]]
    BY <1>11 DEF G
  <2>2. \A q \in Trails : H[q] = Onward(children', H, r, q)
    BY <1>10, <1>11
  <2>3. \A q \in Trails : (IF q = x THEN n ELSE at[q]) = Onward(children', H, r, q)
    BY <1>9, <1>11, <2>2
  <2>4. H = [q \in Trails |-> Onward(children', H, r, q)]
    BY <2>1, <2>3
  <2>5. QED
    BY <2>4 DEF Leads
<1>13. Reached(r)' = H
  BY <1>12, ReachedNext
<1>14. Reached(r)' = [q \in Trails |-> IF q = x THEN n ELSE Reached(r)[q]]
  BY <1>5, <1>11, <1>13 DEF G
<1>15. QED
  BY <1>1, <1>4, <1>5, <1>7, <1>14

LEMMA PlaceAdd ==
  ASSUME IInv, CallPlace, Cleared, AddSegment
  PROVE  CallPlace'
<1>1. PICK t : t = call.trie
  OBVIOUS
<1>2. PICK r : r = root_[call.trie]
  OBVIOUS
<1>3. PICK x : x = Done'
  OBVIOUS
<1>4. PICK n \in Node \ allocated :
           /\ call'.current = n /\ Reached(r)[x] = Null /\ n # Null
           /\ Reached(r)' = [q \in Trails |-> IF q = x THEN n ELSE Reached(r)[q]]
  BY <1>2, <1>3, ReachedAdd
<1>5. PICK m : Inserting /\ Continue(m)
  BY AddFacts
<1>6. /\ t \in Tries /\ r = root_[t] /\ r # Null /\ call.before \in Content_
      /\ call.path \in Paths /\ call.done \in Nat
      /\ Content(r) = Values!Walked(call.before, call.path, call.done)
      /\ x = SubSeq(call.path, 1, call.done + 1) /\ x \in Paths /\ x \in Trails
      /\ call'.trie = t /\ call'.path = call.path /\ call'.done = call.done + 1
      /\ call'.before = call.before
  BY <1>1, <1>2, <1>3, <1>5, PlaceFacts
<1>7. UNCHANGED <<root_, end>> /\ end[n] = FALSE /\ end \in [Node -> BOOLEAN]
  BY DEF AddSegment, Cleared, IInv, Shape
<1>8. PICK at, to : at = Reached(r) /\ to = Reached(r)'
  OBVIOUS
<1> DEFINE D == {q \in Paths : at[q] # Null}  E == {q \in Paths : to[q] # Null}
<1>9. Content(r) = [q \in D |-> end[at[q]]] /\ Content(r)' = [q \in E |-> end[to[q]]]
  <2>1. Content(r) = [q \in D |-> end[at[q]]]
    BY <1>8, ContentIs
  <2>2. Content(r)' = [p \in {q \in Paths : Reached(r)'[q] # Null} |-> end'[Reached(r)'[p]]]
    BY ContentNext
  <2>3. Content(r)' = [q \in E |-> end[to[q]]]
    BY <1>7, <1>8, <2>2
  <2>4. QED
    BY <2>1, <2>3
<1>10. \A q \in Paths : to[q] = IF q = x THEN n ELSE at[q]
  BY <1>4, <1>8, PathFacts
<1>11. E = D \cup {x} /\ x \notin D
  <2>1. at[x] = Null /\ x \in Paths /\ n # Null
    BY <1>4, <1>6, <1>8
  <2>2. \A q \in Paths : to[q] # Null <=> at[q] # Null \/ q = x
    BY <1>10, <2>1
  <2>3. QED
    BY <2>1, <2>2
<1>12. \A q \in D : at[q] \in Node
  BY <1>6, <1>8, RootTop, PathFacts DEF Below
<1> HIDE DEF D, E
<1>13. PICK w, f : w = Content(r) /\ f = Content(r)'
  OBVIOUS
<1>14. DOMAIN w = D /\ \A q \in D : w[q] = end[at[q]]
  BY <1>9, <1>13
<1>15. Passed(f, E, w, x)
  <2>1. \A q \in E : end[to[q]] \in BOOLEAN /\ end[to[q]] = (q # x /\ q \in D /\ end[at[q]])
    <3>1. SUFFICES ASSUME NEW q \in E
                   PROVE  end[to[q]] \in BOOLEAN /\ end[to[q]] = (q # x /\ q \in D /\ end[at[q]])
      OBVIOUS
    <3>2. CASE q = x
      BY <1>6, <1>7, <1>10, <3>2
    <3>3. CASE q # x
      <4>1. q \in D /\ to[q] = at[q] /\ at[q] \in Node
        BY <1>10, <1>11, <1>12, <3>3 DEF E
      <4>2. end[at[q]] \in BOOLEAN
        BY <1>7, <4>1
      <4>3. QED
        BY <3>3, <4>1, <4>2
    <3>4. QED
      BY <3>2, <3>3
  <2>2. f = [q \in E |-> end[to[q]]]
    BY <1>9, <1>13
  <2>3. f \in [E -> BOOLEAN] /\ \A q \in E : f[q] = end[to[q]]
    BY <2>1, <2>2
  <2>4. E = DOMAIN w \cup {x}
    BY <1>11, <1>14
  <2>5. QED
    BY <1>14, <2>1, <2>3, <2>4 DEF Passed
<1>16. Content(r)' = Values!Walked(call.before, call.path, call.done + 1)
  <2>1. PICK v, p, k, S : v = call.before /\ p = call.path /\ k = call.done /\ S = E
    OBVIOUS
  <2>2. /\ p \in Paths /\ k \in Nat /\ w = Values!Walked(v, p, k) /\ x = SubSeq(p, 1, k + 1)
        /\ Passed(f, S, w, x)
    BY <1>6, <1>13, <1>15, <2>1
  <2>3. Values!Walked(v, p, k + 1) = f
    BY <2>2, WalkedNext
  <2>4. QED
    BY <1>13, <2>1, <2>3
<1>17. root_'[call'.trie] = r
  BY <1>6, <1>7
<1>18. Reached(root_[call.trie])'[Done'] = call'.current
  BY <1>3, <1>4, <1>6, <1>17
<1>19. Content(root_[call.trie])' = Values!Walked(call'.before, call'.path, call'.done)
  BY <1>6, <1>16, <1>17
<1>20. QED
  BY <1>6, <1>17, <1>18, <1>19 DEF CallPlace

LEMMA PlaceKeeps ==
  ASSUME IInv, PlaceInv, [Next]_vars
  PROVE  PlaceInv'
<1>1. Shape /\ CallShape /\ CallPlace /\ Quiet /\ Cleared
  BY DEF IInv, PlaceInv
<1>2. CASE UNCHANGED vars
  <2>1. UNCHANGED <<alive, root_, allocated, children, end, leaked, call, frames, crashed>>
    BY <1>2 DEF vars
  <2>2. \A r : Reached(r)' = Reached(r) /\ Content(r)' = Content(r)
    BY <2>1, HeapStays
  <2>3. CallPlace'
    <3>1. PICK r : r = root_[call.trie]
      OBVIOUS
    <3>2. Reached(root_[call.trie])' = Reached(r) /\ Content(root_[call.trie])' = Content(r)
      BY <2>1, <2>2, <3>1
    <3>3. Done' = Done
      BY <2>1 DEF Done
    <3>4. QED
      BY <1>1, <2>1, <3>1, <3>2, <3>3 DEF CallPlace
  <2>4. QED
    BY <1>1, <2>1, <2>3 DEF PlaceInv, Quiet, Cleared
<1>3. CASE \E t \in Tries : \/ Construct(t) \/ AssignNew(t) \/ Destroy(t) \/ UseMovedFrom(t)
                            \/ \E u \in Tries : MoveConstruct(t, u) \/ Assign(t, u) \/ Swap(t, u)
  <2>1. /\ Idle /\ UNCHANGED <<end, call>> /\ allocated \subseteq allocated'
        /\ crashed' = crashed \/ (frames' = frames)
    BY <1>3 DEF Construct, AssignNew, Destroy, UseMovedFrom, MoveConstruct, Assign, Swap
  <2>2. CallPlace' /\ Quiet' /\ Cleared'
    BY <1>1, <2>1 DEF Idle, CallPlace, Quiet, Cleared
  <2>3. QED
    BY <2>2 DEF PlaceInv
<1>4. CASE \E t \in Tries, p \in Paths : Insert(t, p)
  <2>1. /\ Idle /\ UNCHANGED <<end, allocated, crashed>>
    BY <1>4 DEF Insert
  <2>2. CallPlace' /\ Quiet' /\ Cleared'
    BY <1>1, <1>4, <2>1, PlaceInsert DEF Idle, Quiet, Cleared
  <2>3. QED
    BY <2>2 DEF PlaceInv
<1>5. CASE DeleteChild \/ DeleteNode
  <2>1. frames # <<>> /\ UNCHANGED <<call, crashed>>
    BY <1>5 DEF DeleteChild, DeleteNode
  <2>2. CallPlace' /\ Quiet'
    BY <1>1, <2>1 DEF CallShape, CallPlace, Quiet
  <2>3. Cleared'
    <3>1. CASE DeleteChild
      BY <1>1, <3>1 DEF DeleteChild, Cleared
    <3>2. CASE DeleteNode
      BY <1>1, <3>2 DEF DeleteNode, Cleared, Shape
    <3>3. QED
      BY <1>5, <3>1, <3>2
  <2>4. QED
    BY <2>2, <2>3 DEF PlaceInv
<1>6. CASE PassSegment
  <2>1. CallPlace'
    BY <1>1, <1>6, PlacePass
  <2>2. /\ UNCHANGED <<allocated, frames, crashed>> /\ call # NoCall
        /\ \E c : end' = [end EXCEPT ![c] = FALSE]
    BY <1>6 DEF PassSegment, Inserting
  <2>3. Quiet' /\ Cleared'
    BY <1>1, <2>2 DEF Quiet, Cleared, Shape
  <2>4. QED
    BY <2>1, <2>3 DEF PlaceInv
<1>7. CASE AddSegment
  <2>1. CallPlace'
    BY <1>1, <1>7, PlaceAdd
  <2>2. /\ allocated \subseteq allocated' /\ UNCHANGED <<end, frames, crashed>> /\ call # NoCall
    BY <1>7 DEF AddSegment, Inserting
  <2>3. Quiet' /\ Cleared'
    BY <1>1, <2>2 DEF Quiet, Cleared
  <2>4. QED
    BY <2>1, <2>3 DEF PlaceInv
<1>8. CASE InsertThrows
  <2>1. /\ allocated \subseteq allocated' /\ UNCHANGED <<end, crashed>> /\ call # NoCall /\ call' = NoCall
    BY <1>8 DEF InsertThrows, Inserting
  <2>2. CallPlace' /\ Quiet' /\ Cleared'
    BY <1>1, <2>1 DEF CallPlace, Quiet, Cleared
  <2>3. QED
    BY <2>2 DEF PlaceInv
<1>9. CASE InsertReturns
  <2>1. /\ UNCHANGED <<allocated, crashed>> /\ call # NoCall /\ call' = NoCall
        /\ end' = [end EXCEPT ![call.current] = TRUE]
    BY <1>9 DEF InsertReturns
  <2>2. call.current \in allocated
    BY <1>1, <2>1 DEF CallShape
  <2>3. CallPlace' /\ Quiet'
    BY <1>1, <2>1 DEF CallPlace, Quiet
  <2>4. Cleared'
    BY <1>1, <2>1, <2>2 DEF Cleared, Shape
  <2>5. QED
    BY <2>3, <2>4 DEF PlaceInv
<1>10. QED
  BY <1>2, <1>3, <1>4, <1>5, <1>6, <1>7, <1>8, <1>9 DEF Next, Step

(***************************************************************************)
(* The value of an object, as INSTANCE TrieValues has it.                  *)
(***************************************************************************)
Value(t) ==
  IF t \notin alive THEN Destroyed
  ELSE IF root_[t] = Null THEN MovedFrom
  ELSE IF call # NoCall /\ call.trie = t THEN call.before
  ELSE Content(root_[t])

LEMMA ValueIs ==
  ASSUME IInv, CallPlace, NEW t \in Tries
  PROVE  /\ Value(t) # Destroyed <=> t \in alive
         /\ t \in alive => (Value(t) = MovedFrom <=> root_[t] = Null)
<1>1. ASSUME t \in alive, root_[t] # Null
      PROVE  Value(t) \in Content_
  <2>1. CASE call # NoCall /\ call.trie = t
    BY <1>1, <2>1 DEF Value, CallPlace
  <2>2. CASE ~(call # NoCall /\ call.trie = t)
    BY <1>1, <2>2, ContentType DEF Value
  <2>3. QED
    BY <2>1, <2>2
<1>2. ASSUME t \in alive, root_[t] # Null
      PROVE  Value(t) # Destroyed /\ Value(t) # MovedFrom
  BY <1>1, <1>2, IsNoContent
<1>3. QED
  BY <1>2, OwnershipAssumption DEF Value

LEMMA IdleValues ==
  ASSUME call = NoCall, NEW t
  PROVE  /\ t \notin alive => Value(t) = Destroyed
         /\ t \in alive /\ root_[t] = Null => Value(t) = MovedFrom
         /\ t \in alive /\ root_[t] # Null => Value(t) = Content(root_[t])
BY DEF Value

\* The values after a step that keeps the heap, by the roots.
LEMMA NextValues ==
  ASSUME UNCHANGED <<children, end>>, call' = NoCall, NEW t, NEW r, r = root_'[t]
  PROVE  /\ t \notin alive' => Value(t)' = Destroyed
         /\ t \in alive' /\ r = Null => Value(t)' = MovedFrom
         /\ t \in alive' /\ r # Null => Value(t)' = Content(r)
<1>1. Content(r)' = Content(r)
  BY HeapStays
<1>2. QED
  BY <1>1 DEF Value

\* A step leaves the value of an object whose tree it does not touch.
LEMMA ValueStays ==
  ASSUME IInv, NEW t \in Tries, UNCHANGED <<alive, root_>>,
         call = NoCall \/ call.trie # t, call' = NoCall \/ call'.trie # t,
         root_[t] # Null =>
           \A m \in Node : Top(m) /\ Below(root_[t], m) => children'[m] = children[m] /\ end'[m] = end[m]
  PROVE  Value(t)' = Value(t)
<1>1. PICK r : r = root_[t]
  OBVIOUS
<1>2. CASE root_[t] = Null
  BY <1>2 DEF Value
<1>3. CASE root_[t] # Null
  <2>1. \A m : Below(r, m) => children'[m] = children[m] /\ end'[m] = end[m]
    BY <1>1, <1>3, RootTop
  <2>2. Content(r)' = Content(r)
    BY <2>1, TreeStays
  <2>3. Content(root_[t])' = Content(root_[t])
    BY <1>1, <2>2
  <2>4. QED
    BY <1>3, <2>3 DEF Value
<1>4. QED
  BY <1>2, <1>3

\* new TrieNode() is an empty tree.
LEMMA FreshContent ==
  ASSUME IInv, Cleared, frames = <<>>, NEW n \in Node \ allocated
  PROVE  Content(n) = Values!Empty /\ n # Null
<1>1. DOMAIN children[n] = {} /\ n # Null /\ end[n] = FALSE
  BY FreshNode DEF Cleared, IInv, Shape
<1> DEFINE G == [q \in Trails |-> IF q = <<>> THEN n ELSE Null]
<1>2. PICK H : H = G
  OBVIOUS
<1>3. \A q \in Trails : H[q] = IF q = <<>> THEN n ELSE Null
  BY <1>2
<1>4. ASSUME NEW q \in Trails
      PROVE  H[q] = Onward(children, H, n, q)
  <2>1. CASE q = <<>>
    BY <1>3, <2>1 DEF Onward
  <2>2. CASE q # <<>>
    <3>1. Front(q) \in Trails
      BY <2>2, TrailFacts
    <3>2. H[Front(q)] = n \/ H[Front(q)] = Null
      BY <1>3, <3>1
    <3>3. Onward(children, H, n, q) = Null
      BY <1>1, <2>2, <3>2 DEF Onward
    <3>4. QED
      BY <1>3, <2>2, <3>3
  <2>3. QED
    BY <2>1, <2>2
<1>5. Leads(children, H, n)
  <2>1. \A q \in Trails : (IF q = <<>> THEN n ELSE Null) = Onward(children, H, n, q)
    BY <1>3, <1>4
  <2>2. H = [q \in Trails |-> Onward(children, H, n, q)]
    BY <1>2, <2>1
  <2>3. QED
    BY <2>2 DEF Leads
<1>6. Reached(n) = H
  BY <1>5, ReachedLeads, LeadsUnique
<1>7. {q \in Paths : H[q] # Null} = {<<>>}
  BY <1>1, <1>3, PathFacts, OwnershipAssumption
<1>8. H[<<>>] = n
  BY <1>3, ReachedRoot
<1>9. [p \in {q \in Paths : H[q] # Null} |-> end[H[p]]] = [p \in {<<>>} |-> FALSE]
  BY <1>1, <1>7, <1>8
<1>10. QED
  BY <1>1, <1>6, <1>9, ContentIs DEF Values!Empty

(***************************************************************************)
(* Each step is one of the values or leaves them.                          *)
(***************************************************************************)
LEMMA ValuesSame ==
  ASSUME \A v \in Tries : Value(v)' = Value(v), crashed' = crashed
  PROVE  UNCHANGED Values!vars
<1>1. [v \in Tries |-> Value(v)]' = [v \in Tries |-> Value(v)]
  OBVIOUS
<1>2. QED
  BY <1>1 DEF Values!vars, Value

LEMMA ValuesConstruct ==
  ASSUME IInv, PlaceInv, NEW t \in Tries, Construct(t)
  PROVE  Values!Construct(t)
<1>1. PICK n \in Node \ allocated : root_' = [root_ EXCEPT ![t] = n]
  BY DEF Construct
<1>2. /\ t \notin alive /\ alive' = alive \cup {t} /\ frames = <<>> /\ call = NoCall
      /\ call' = NoCall /\ UNCHANGED <<children, end>> /\ root_ \in [Tries -> Node \cup {Null}]
  BY DEF Construct, Idle, IInv, Shape
<1>3. Content(n) = Values!Empty /\ n # Null
  BY <1>2, FreshContent DEF PlaceInv
<1>4. ASSUME NEW v \in Tries
      PROVE  Value(v)' = IF v = t THEN Values!Empty ELSE Value(v)
  <2>1. PICK r : r = root_'[v]
    OBVIOUS
  <2>2. r = IF v = t THEN n ELSE root_[v]
    BY <1>1, <1>2, <2>1
  <2>3. CASE v = t
    BY <1>2, <1>3, <2>1, <2>2, <2>3, NextValues
  <2>4. CASE v # t
    BY <1>2, <2>1, <2>2, <2>4, NextValues, IdleValues
  <2>5. QED
    BY <2>3, <2>4
<1>5. [v \in Tries |-> Value(v)]' = [[v \in Tries |-> Value(v)] EXCEPT ![t] = Values!Empty]
  BY <1>4
<1>6. Value(t) = Destroyed
  BY <1>2 DEF Value
<1>7. QED
  BY <1>5, <1>6 DEF Values!Construct, Values!Exists, Value

LEMMA ValuesAssignNew ==
  ASSUME IInv, PlaceInv, NEW t \in Tries, AssignNew(t)
  PROVE  Values!AssignNew(t)
<1>1. PICK n \in Node \ allocated : root_' = [root_ EXCEPT ![t] = n]
  BY DEF AssignNew
<1>2. /\ t \in alive /\ alive' = alive /\ frames = <<>> /\ call = NoCall
      /\ call' = NoCall /\ UNCHANGED <<children, end>> /\ root_ \in [Tries -> Node \cup {Null}]
  BY DEF AssignNew, Idle, IInv, Shape
<1>3. Content(n) = Values!Empty /\ n # Null
  BY <1>2, FreshContent DEF PlaceInv
<1>4. ASSUME NEW v \in Tries
      PROVE  Value(v)' = IF v = t THEN Values!Empty ELSE Value(v)
  <2>1. PICK r : r = root_'[v]
    OBVIOUS
  <2>2. r = IF v = t THEN n ELSE root_[v]
    BY <1>1, <1>2, <2>1
  <2>3. CASE v = t
    BY <1>2, <1>3, <2>1, <2>2, <2>3, NextValues
  <2>4. CASE v # t
    BY <1>2, <2>1, <2>2, <2>4, NextValues, IdleValues
  <2>5. QED
    BY <2>3, <2>4
<1>5. [v \in Tries |-> Value(v)]' = [[v \in Tries |-> Value(v)] EXCEPT ![t] = Values!Empty]
  BY <1>4
<1>6. Value(t) # Destroyed
  BY <1>2, ValueIs DEF PlaceInv
<1>7. QED
  BY <1>5, <1>6 DEF Values!AssignNew, Values!Exists, Value

LEMMA ValuesDestroy ==
  ASSUME IInv, PlaceInv, NEW t \in Tries, Destroy(t)
  PROVE  Values!Destroy(t)
<1>1. /\ t \in alive /\ alive' = alive \ {t} /\ call = NoCall
      /\ call' = NoCall /\ UNCHANGED <<children, end>> /\ root_ \in [Tries -> Node \cup {Null}]
      /\ root_' = [root_ EXCEPT ![t] = Null]
  BY DEF Destroy, Idle, IInv, Shape
<1>2. ASSUME NEW v \in Tries
      PROVE  Value(v)' = IF v = t THEN Destroyed ELSE Value(v)
  <2>1. PICK r : r = root_'[v]
    OBVIOUS
  <2>2. v # t => r = root_[v]
    BY <1>1, <2>1
  <2>3. QED
    BY <1>1, <2>1, <2>2, NextValues, IdleValues
<1>3. [v \in Tries |-> Value(v)]' = [[v \in Tries |-> Value(v)] EXCEPT ![t] = Destroyed]
  BY <1>2
<1>4. Value(t) # Destroyed
  BY <1>1, ValueIs DEF PlaceInv
<1>5. QED
  BY <1>3, <1>4 DEF Values!Destroy, Values!Exists, Value

LEMMA ValuesCrash ==
  ASSUME IInv, PlaceInv, NEW t \in Tries, UseMovedFrom(t)
  PROVE  Values!Crash(t)
<1>1. /\ t \in alive /\ root_[t] = Null /\ crashed' = TRUE
      /\ UNCHANGED <<alive, root_, children, end, call>> /\ call = NoCall
  BY DEF UseMovedFrom, Idle
<1>2. ASSUME NEW v \in Tries
      PROVE  Value(v)' = Value(v)
  <2>1. PICK r : r = root_'[v]
    OBVIOUS
  <2>2. QED
    BY <1>1, <2>1, NextValues, IdleValues
<1>3. [v \in Tries |-> Value(v)]' = [v \in Tries |-> Value(v)]
  BY <1>2
<1>4. Value(t) = MovedFrom
  BY <1>1 DEF Value
<1>5. QED
  BY <1>1, <1>3, <1>4 DEF Values!Crash, Value

LEMMA ValuesMoveConstruct ==
  ASSUME IInv, PlaceInv, NEW t \in Tries, NEW u \in Tries, MoveConstruct(t, u)
  PROVE  Values!MoveConstruct(t, u)
<1>1. /\ t \notin alive /\ u \in alive /\ alive' = alive \cup {t} /\ call = NoCall
      /\ call' = NoCall /\ UNCHANGED <<children, end>> /\ root_ \in [Tries -> Node \cup {Null}]
      /\ root_' = [root_ EXCEPT ![t] = root_[u], ![u] = Null]
  BY DEF MoveConstruct, Idle, IInv, Shape
<1>2. ASSUME NEW v \in Tries
      PROVE  Value(v)' = IF v = u THEN MovedFrom ELSE IF v = t THEN Value(u) ELSE Value(v)
  <2>1. PICK r : r = root_'[v]
    OBVIOUS
  <2>2. r = IF v = u THEN Null ELSE IF v = t THEN root_[u] ELSE root_[v]
    BY <1>1, <2>1
  <2>3. QED
    BY <1>1, <2>1, <2>2, NextValues, IdleValues
<1>3. [v \in Tries |-> Value(v)]' =
        [[v \in Tries |-> Value(v)] EXCEPT ![t] = Value(u), ![u] = MovedFrom]
  BY <1>2
<1>4. Value(t) = Destroyed /\ Value(u) # Destroyed
  BY <1>1, ValueIs DEF PlaceInv
<1>5. QED
  BY <1>3, <1>4 DEF Values!MoveConstruct, Values!Exists, Value

LEMMA ValuesAssign ==
  ASSUME IInv, PlaceInv, NEW t \in Tries, NEW u \in Tries, Assign(t, u)
  PROVE  Values!Assign(t, u)
<1>1. /\ t \in alive /\ u \in alive /\ alive' = alive /\ call = NoCall
      /\ call' = NoCall /\ UNCHANGED <<children, end>> /\ root_ \in [Tries -> Node \cup {Null}]
      /\ root_' = [[root_ EXCEPT ![u] = Null] EXCEPT ![t] = root_[u]]
  BY DEF Assign, Idle, IInv, Shape
<1>2. ASSUME NEW v \in Tries
      PROVE  Value(v)' = IF v = t THEN Value(u) ELSE IF v = u THEN MovedFrom ELSE Value(v)
  <2>1. PICK r : r = root_'[v]
    OBVIOUS
  <2>2. r = IF v = t THEN root_[u] ELSE IF v = u THEN Null ELSE root_[v]
    BY <1>1, <2>1
  <2>3. QED
    BY <1>1, <2>1, <2>2, NextValues, IdleValues
<1>3. [v \in Tries |-> Value(v)]' =
        [[[v \in Tries |-> Value(v)] EXCEPT ![u] = MovedFrom] EXCEPT ![t] = Value(u)]
  BY <1>2
<1>4. Value(t) # Destroyed /\ Value(u) # Destroyed
  BY <1>1, ValueIs DEF PlaceInv
<1>5. QED
  BY <1>3, <1>4 DEF Values!Assign, Values!Exists, Value

LEMMA ValuesSwap ==
  ASSUME IInv, PlaceInv, NEW t \in Tries, NEW u \in Tries, Swap(t, u)
  PROVE  Values!Swap(t, u)
<1>1. /\ t \in alive /\ u \in alive /\ alive' = alive /\ call = NoCall
      /\ call' = NoCall /\ UNCHANGED <<children, end>> /\ root_ \in [Tries -> Node \cup {Null}]
      /\ root_' = [root_ EXCEPT ![t] = root_[u], ![u] = root_[t]]
  BY DEF Swap, Idle, IInv, Shape
<1>2. ASSUME NEW v \in Tries
      PROVE  Value(v)' = IF v = u THEN Value(t) ELSE IF v = t THEN Value(u) ELSE Value(v)
  <2>1. PICK r : r = root_'[v]
    OBVIOUS
  <2>2. r = IF v = u THEN root_[t] ELSE IF v = t THEN root_[u] ELSE root_[v]
    BY <1>1, <2>1
  <2>3. QED
    BY <1>1, <2>1, <2>2, NextValues, IdleValues
<1>3. [v \in Tries |-> Value(v)]' =
        [[v \in Tries |-> Value(v)] EXCEPT ![t] = Value(u), ![u] = Value(t)]
  BY <1>2
<1>4. Value(t) # Destroyed /\ Value(u) # Destroyed
  BY <1>1, ValueIs DEF PlaceInv
<1>5. QED
  BY <1>3, <1>4 DEF Values!Swap, Values!Exists, Value

\* The start of Insert: what the object had is still its value.
LEMMA ValuesInsertBegins ==
  ASSUME IInv, NEW t \in Tries, NEW p \in Paths, Insert(t, p)
  PROVE  UNCHANGED Values!vars
<1>1. /\ call = NoCall /\ t \in alive /\ root_[t] # Null
      /\ UNCHANGED <<alive, root_, children, end, crashed>>
      /\ call' = [trie |-> t, path |-> p, done |-> 0, current |-> root_[t],
                  before |-> Content(root_[t])]
  BY DEF Insert, Idle
<1>2. ASSUME NEW v \in Tries
      PROVE  Value(v)' = Value(v)
  <2>1. PICK r : r = root_[v]
    OBVIOUS
  <2>2. Content(r)' = Content(r)
    BY <1>1, HeapStays
  <2>3. call'.trie = t /\ call'.before = Content(root_[t])
    BY <1>1
  <2>4. Content(root_[v])' = Content(root_[v])
    BY <1>1, <2>1, <2>2
  <2>5. QED
    BY <1>1, <2>3, <2>4 DEF Value
<1>3. QED
  BY <1>1, <1>2, ValuesSame

\* deleteTrie works on trees that are no object's.
LEMMA ValuesDelete ==
  ASSUME IInv, DeleteChild \/ DeleteNode
  PROVE  UNCHANGED Values!vars
<1>1. /\ UNCHANGED <<alive, root_, call, crashed>> /\ call = NoCall /\ frames # <<>>
  BY DEF DeleteChild, DeleteNode, IInv, CallShape
<1>2. \A m \in Node : Top(m) => children'[m] = children[m] /\ end'[m] = end[m]
  <2>1. CASE DeleteChild
    BY <2>1 DEF DeleteChild
  <2>2. CASE DeleteNode
    <3> DEFINE d == Last(frames).node
    <3>1. children' = [children EXCEPT ![d] = Childless] /\ end' = [end EXCEPT ![d] = FALSE]
      BY <2>2 DEF DeleteNode
    <3>2. frames \in Seq(FrameSet) /\ frames # <<>>
      BY <1>1 DEF IInv, Shape
    <3>3. Len(frames) \in DOMAIN frames /\ Last(frames) = frames[Len(frames)]
      BY <3>2, PopFrame
    <3>4. \A m \in Node : Top(m) => m # d
      BY <3>3 DEF Top
    <3> HIDE DEF d
    <3>5. QED
      BY <3>1, <3>4 DEF IInv, Shape
  <2>3. QED
    BY <2>1, <2>2
<1>3. ASSUME NEW v \in Tries
      PROVE  Value(v)' = Value(v)
  BY <1>1, <1>2, ValueStays
<1>4. QED
  BY <1>1, <1>3, ValuesSame

LEMMA CallGoesOn ==
  ASSUME IInv, CallPlace, Inserting, NEW n \in Node, Continue(n)
  PROVE  call' # NoCall
<1>1. /\ call \in [trie : Tries, path : Paths, done : Nat, current : Node, before : {call.before}]
      /\ call.before \in Content_
  BY DEF IInv, CallShape, CallPlace, Inserting
<1>2. call.done \in Nat /\ call.done + 1 \in Nat
  BY <1>1
<1> DEFINE passed == [call EXCEPT !.done = call.done + 1]
<1>3. call' = [passed EXCEPT !.current = n]
  BY DEF Continue
<1>4. passed \in [trie : Tries, path : Paths, done : Nat, current : Node, before : Content_]
  BY <1>1, <1>2
<1> HIDE DEF passed
<1>5. call' \in [trie : Tries, path : Paths, done : Nat, current : Node, before : Content_]
  BY <1>3, <1>4
<1>6. QED
  BY <1>5, OwnershipAssumption DEF Content_

\* An iteration changes the tree of its object only.
LEMMA ValuesIteration ==
  ASSUME IInv, PlaceInv, PassSegment \/ AddSegment
  PROVE  UNCHANGED Values!vars
<1>0. CallPlace
  BY DEF PlaceInv
<1>1. PICK n \in Node : Inserting /\ Continue(n)
  <2>1. CASE PassSegment
    BY <1>0, <2>1, PassFacts
  <2>2. CASE AddSegment
    BY <1>0, <2>2, AddFacts
  <2>3. QED
    BY <2>1, <2>2
<1>2. /\ call.trie \in Tries /\ root_[call.trie] # Null /\ call'.trie = call.trie
      /\ call'.before = call.before /\ Done \in Trails /\ Done' \in Trails
      /\ Reached(root_[call.trie])[Done] = call.current /\ call.current \in Node
  BY <1>0, <1>1, PlaceFacts
<1>3. call # NoCall /\ call' # NoCall /\ UNCHANGED <<alive, root_, crashed>>
  BY <1>0, <1>1, CallGoesOn DEF Inserting, PassSegment, AddSegment
<1>4. PICK t \in Tries : t = call.trie
  BY <1>2
<1>5. \E k \in Node : /\ Below(root_[t], k)
                      /\ \A m \in Node \ {k} : children'[m] = children[m] /\ end'[m] = end[m]
  <2>1. CASE PassSegment
    <3>1. PICK c : c = children[call.current][Segment]
      OBVIOUS
    <3>2. /\ c \in Node /\ c # Null /\ Reached(root_[t])[Done'] = c /\ end' = [end EXCEPT ![c] = FALSE]
      BY <1>0, <1>4, <2>1, <3>1, PassFacts
    <3>3. PICK x \in Trails : x = Done'
      BY <1>2
    <3>4. Below(root_[t], c)
      BY <3>2, <3>3 DEF Below
    <3>5. UNCHANGED children /\ \A m \in Node \ {c} : end'[m] = end[m]
      BY <2>1, <3>2 DEF PassSegment, IInv, Shape
    <3>6. QED
      BY <3>2, <3>4, <3>5
  <2>2. CASE AddSegment
    <3>1. PICK k : k = call.current
      OBVIOUS
    <3>2. k \in Node /\ k # Null /\ UNCHANGED end /\ \A m \in Node \ {k} : children'[m] = children[m]
      BY <1>0, <2>2, <3>1, AddFacts
    <3>3. Below(root_[t], k)
      BY <1>2, <1>4, <3>1, <3>2 DEF Below
    <3>4. QED
      BY <3>2, <3>3
  <2>3. QED
    BY <2>1, <2>2
<1>6. PICK k \in Node : /\ Below(root_[t], k)
                        /\ \A m \in Node \ {k} : children'[m] = children[m] /\ end'[m] = end[m]
  BY <1>5
<1>7. ASSUME NEW v \in Tries
      PROVE  Value(v)' = Value(v)
  <2>1. CASE v = t
    BY <1>2, <1>3, <1>4, <2>1 DEF Value
  <2>2. CASE v # t
    <3>1. root_[v] # Null => ~Below(root_[v], k)
      BY <1>2, <1>4, <1>6, <2>2, TreesApart
    <3>2. \A m \in Node : root_[v] # Null /\ Below(root_[v], m) =>
            children'[m] = children[m] /\ end'[m] = end[m]
      BY <1>6, <3>1
    <3>3. call.trie # v /\ call'.trie # v
      BY <1>2, <1>4, <2>2
    <3>4. QED
      BY <1>3, <3>2, <3>3, ValueStays
  <2>3. QED
    BY <2>1, <2>2
<1>8. QED
  BY <1>3, <1>7, ValuesSame

\* What the end of Insert knows.
LEMMA CallFacts ==
  ASSUME IInv, PlaceInv, call # NoCall
  PROVE  /\ call.trie \in Tries /\ call.trie \in alive /\ root_[call.trie] # Null
         /\ call.path \in Paths /\ call.done \in 0..Len(call.path) /\ Len(call.path) \in Nat
         /\ Reached(root_[call.trie])[Done] = call.current /\ call.current \in Node
         /\ Value(call.trie) = call.before
         /\ Value(call.trie) \notin {Destroyed, MovedFrom}
         /\ Content(root_[call.trie]) = Values!Walked(Value(call.trie), call.path, call.done)
<1>1. /\ call.trie \in Tries /\ call.trie \in alive /\ call.path \in Paths
      /\ call.done \in 0..Len(call.path) /\ call.current \in allocated
      /\ alive \subseteq Tries /\ allocated \subseteq Node
  BY DEF IInv, Shape, CallShape
<1>2. /\ root_[call.trie] # Null /\ Reached(root_[call.trie])[Done] = call.current
      /\ call.before \in Content_
      /\ Content(root_[call.trie]) = Values!Walked(call.before, call.path, call.done)
  BY DEF PlaceInv, CallPlace
<1>3. Value(call.trie) = call.before
  BY <1>1, <1>2 DEF Value
<1>4. Len(call.path) \in Nat /\ call.current \in Node
  BY <1>1, PathFacts
<1>5. call.before \notin {Destroyed, MovedFrom}
  BY <1>2, IsNoContent
<1>6. QED
  BY <1>1, <1>2, <1>3, <1>4, <1>5

\* An insertion that throws leaves its object what the iterations made of it.
LEMMA ValuesInsertThrows ==
  ASSUME IInv, PlaceInv, InsertThrows
  PROVE  \E t \in Tries, p \in Paths : Values!InsertThrows(t, p)
<1>1. /\ call # NoCall /\ call.done < Len(call.path) /\ call' = NoCall
      /\ UNCHANGED <<alive, root_, children, end>>
  BY DEF InsertThrows, Inserting
<1>2. PICK t, p, k, r : t = call.trie /\ p = call.path /\ k = call.done /\ r = root_[call.trie]
  OBVIOUS
<1>3. /\ t \in Tries /\ t \in alive /\ r # Null /\ p \in Paths /\ k \in 0..Len(p) /\ Len(p) \in Nat
      /\ Value(t) \notin {Destroyed, MovedFrom} /\ Content(r) = Values!Walked(Value(t), p, k)
  BY <1>1, <1>2, CallFacts
<1>4. k \in 0..(Len(p) - 1)
  BY <1>1, <1>2, <1>3
<1>5. Value(t)' = Values!Walked(Value(t), p, k)
  <2>1. r = root_'[t] /\ t \in alive'
    BY <1>1, <1>2, <1>3
  <2>2. Value(t)' = Content(r)
    BY <1>1, <1>3, <2>1, NextValues
  <2>3. QED
    BY <1>3, <2>2
<1>6. ASSUME NEW v \in Tries, v # t
      PROVE  Value(v)' = Value(v)
  BY <1>1, <1>2, <1>6, ValueStays
<1>7. PICK w : w = Values!Walked(Value(t), p, k)
  OBVIOUS
<1>8. [v \in Tries |-> Value(v)]' = [[v \in Tries |-> Value(v)] EXCEPT ![t] = w]
  BY <1>3, <1>5, <1>6, <1>7
<1>9. Values!InsertThrows(t, p)
  <2> DEFINE value == [v \in Tries |-> Value(v)]
  <2>1. value[t] = Value(t)
    BY <1>3
  <2>2. value' = [value EXCEPT ![t] = Values!Walked(@, p, k)]
    BY <1>3, <1>7, <1>8
  <2>3. QED
    BY <1>3, <1>4, <2>1, <2>2 DEF Values!InsertThrows, Values!Usable, Value
<1>10. QED
  BY <1>3, <1>9

\* One that returns has gone along the whole path, and marks where it ends.
LEMMA ValuesInsertReturns ==
  ASSUME IInv, PlaceInv, InsertReturns
  PROVE  \E t \in Tries, p \in Paths : Values!Insert(t, p)
<1>1. /\ call # NoCall /\ call.done = Len(call.path) /\ call' = NoCall
      /\ end' = [end EXCEPT ![call.current] = TRUE] /\ UNCHANGED <<alive, root_, children>>
  BY DEF InsertReturns
<1>2. PICK t, p, r, c : t = call.trie /\ p = call.path /\ r = root_[call.trie] /\ c = call.current
  OBVIOUS
<1>3. /\ t \in Tries /\ t \in alive /\ r # Null /\ p \in Paths /\ c \in Node
      /\ Value(t) \notin {Destroyed, MovedFrom}
      /\ Content(r) = Values!Walked(Value(t), p, Len(p)) /\ r = root_[t]
  BY <1>1, <1>2, CallFacts
<1>4. Reached(r)[p] = c /\ p \in Trails
  <2>1. p \in Seq(Segments) /\ p \in Trails
    BY <1>3, PathFacts
  <2>2. SubSeq(p, 1, Len(p)) = p
    BY <2>1, SubSeqFull
  <2>3. Done = p
    BY <1>1, <1>2, <2>2 DEF Done
  <2>4. QED
    BY <1>1, <1>2, <2>1, <2>3, CallFacts
<1>5. c # Null /\ Below(r, c)
  BY <1>3, <1>4, OwnershipAssumption DEF Below
<1>6. Reached(r)' = Reached(r)
  BY <1>1, ReachedStays
<1> DEFINE at == Reached(r)  D == {q \in Paths : at[q] # Null}
<1>7. Content(r) = [q \in D |-> end[at[q]]] /\ Content(r)' = [q \in D |-> end'[at[q]]] /\ p \in D
  <2>1. Content(r)' = [q \in {y \in Paths : Reached(r)'[y] # Null} |-> end'[Reached(r)'[q]]]
    BY ContentNext
  <2>2. Content(r)' = [q \in D |-> end'[at[q]]]
    BY <1>6, <2>1
  <2>3. QED
    BY <1>3, <1>4, <1>5, <2>2, ContentIs
<1>8. \A q \in D : at[q] \in Node /\ (at[q] = c => q = p)
  BY <1>3, <1>4, <1>5, RootTop, PathFacts, TrailUnique DEF Below
<1>9. at[p] = c
  BY <1>4
<1>10. end \in [Node -> BOOLEAN] /\ end' = [end EXCEPT ![c] = TRUE]
  BY <1>1, <1>2 DEF IInv, Shape
<1>11. PICK w, f : w = Content(r) /\ f = Content(r)'
  OBVIOUS
<1> HIDE DEF at, D
<1>12. f = [w EXCEPT ![p] = TRUE]
  <2>1. \A q \in D : end'[at[q]] = IF q = p THEN TRUE ELSE end[at[q]]
    BY <1>3, <1>8, <1>9, <1>10
  <2>2. f = [q \in D |-> IF q = p THEN TRUE ELSE end[at[q]]]
    BY <1>7, <1>11, <2>1
  <2>3. QED
    BY <1>7, <1>11, <2>2
<1>13. Value(t)' = [Values!Walked(Value(t), p, Len(p)) EXCEPT ![p] = TRUE]
  <2>1. Content(root_[t])' = f
    BY <1>1, <1>3, <1>11
  <2>2. Value(t)' = f
    BY <1>1, <1>3, <2>1 DEF Value
  <2>3. QED
    BY <1>3, <1>11, <1>12, <2>2
<1>14. ASSUME NEW v \in Tries, v # t
       PROVE  Value(v)' = Value(v)
  <2>1. root_[v] # Null => ~Below(root_[v], c)
    BY <1>3, <1>5, <1>14, TreesApart
  <2>2. \A m \in Node : root_[v] # Null /\ Below(root_[v], m) =>
          children'[m] = children[m] /\ end'[m] = end[m]
    BY <1>1, <1>10, <2>1
  <2>3. QED
    BY <1>1, <1>2, <1>14, <2>2, ValueStays
<1>15. PICK new : new = [Values!Walked(Value(t), p, Len(p)) EXCEPT ![p] = TRUE]
  OBVIOUS
<1>16. [v \in Tries |-> Value(v)]' = [[v \in Tries |-> Value(v)] EXCEPT ![t] = new]
  BY <1>3, <1>13, <1>14, <1>15
<1>17. Values!Insert(t, p)
  <2> DEFINE value == [v \in Tries |-> Value(v)]
  <2>1. value[t] = Value(t)
    BY <1>3
  <2>2. value' = [value EXCEPT ![t] = [Values!Walked(@, p, Len(p)) EXCEPT ![p] = TRUE]]
    BY <1>3, <1>15, <1>16
  <2>3. QED
    BY <1>3, <2>1, <2>2 DEF Values!Insert, Values!Usable, Value
<1>18. QED
  BY <1>3, <1>17

-----------------------------------------------------------------------------
\* While Insert runs, the node it has come to is where its segments lead, and
\* its object has what the iterations so far made of the value it had.
THEOREM PlaceInvariance == Spec => []PlaceInv
<1>1. Init => PlaceInv
  BY DEF Init, PlaceInv, CallPlace, Quiet, Cleared
<1>2. IInv /\ PlaceInv /\ [Next]_vars => PlaceInv'
  BY PlaceKeeps
<1>3. QED
  BY <1>1, <1>2, Invariance, PTL DEF Spec

LEMMA ValuesStep ==
  ASSUME IInv, PlaceInv, [Next]_vars
  PROVE  [Values!Next]_(Values!vars)
<1>1. CASE UNCHANGED vars
  <2>1. UNCHANGED <<alive, root_, allocated, children, end, leaked, call, frames, crashed>>
    BY <1>1 DEF vars
  <2>2. ASSUME NEW v \in Tries
        PROVE  Value(v)' = Value(v)
    <3>1. PICK r : r = root_[v]
      OBVIOUS
    <3>2. Content(r)' = Content(r)
      BY <2>1, HeapStays
    <3>3. Content(root_[v])' = Content(root_[v])
      BY <2>1, <3>1, <3>2
    <3>4. QED
      BY <2>1, <3>3 DEF Value
  <2>3. QED
    BY <2>1, <2>2, ValuesSame
<1>2. ASSUME NEW t \in Tries, Construct(t) \/ AssignNew(t) \/ Destroy(t) \/ UseMovedFrom(t)
      PROVE  Values!Next
  <2>1. ~crashed
    BY <1>2 DEF Construct, AssignNew, Destroy, UseMovedFrom, Idle
  <2>2. CASE UseMovedFrom(t)
    BY <2>1, <2>2, ValuesCrash DEF Values!Next
  <2>3. CASE Construct(t) \/ AssignNew(t) \/ Destroy(t)
    <3>1. Values!Construct(t) \/ Values!AssignNew(t) \/ Values!Destroy(t)
      BY <2>3, ValuesConstruct, ValuesAssignNew, ValuesDestroy
    <3>2. crashed' = crashed
      BY <2>3 DEF Construct, AssignNew, Destroy
    <3>3. QED
      BY <2>1, <3>1, <3>2 DEF Values!Next
  <2>4. QED
    BY <1>2, <2>2, <2>3
<1>3. ASSUME NEW t \in Tries, NEW u \in Tries, MoveConstruct(t, u) \/ Assign(t, u) \/ Swap(t, u)
      PROVE  Values!Next
  <2>1. ~crashed /\ crashed' = crashed
    BY <1>3 DEF MoveConstruct, Assign, Swap, Idle
  <2>2. Values!MoveConstruct(t, u) \/ Values!Assign(t, u) \/ Values!Swap(t, u)
    BY <1>3, ValuesMoveConstruct, ValuesAssign, ValuesSwap
  <2>3. QED
    BY <2>1, <2>2 DEF Values!Next
<1>4. ASSUME NEW t \in Tries, NEW p \in Paths, Insert(t, p)
      PROVE  UNCHANGED Values!vars
  BY <1>4, ValuesInsertBegins
<1>5. CASE DeleteChild \/ DeleteNode
  BY <1>5, ValuesDelete
<1>6. CASE PassSegment \/ AddSegment
  BY <1>6, ValuesIteration
<1>7. CASE InsertThrows \/ InsertReturns
  <2>1. call # NoCall /\ crashed' = crashed
    BY <1>7 DEF InsertThrows, InsertReturns, Inserting
  <2>2. crashed \in BOOLEAN /\ ~crashed
    BY <2>1 DEF PlaceInv, Quiet, IInv, Shape
  <2>3. \E t \in Tries, p \in Paths : Values!Insert(t, p) \/ Values!InsertThrows(t, p)
    BY <1>7, ValuesInsertThrows, ValuesInsertReturns
  <2>4. QED
    BY <2>1, <2>2, <2>3 DEF Values!Next
<1>8. QED
  BY <1>1, <1>2, <1>3, <1>4, <1>5, <1>6, <1>7 DEF Next, Step

\* Objects have values: every step of the nodes and pointers, also one of an
\* insertion that throws or of deleteTrie, changes the values of its operands
\* as module TrieValues says and no other object's.
THEOREM OwnershipImplementsValues == Spec => ImplementsValues
<1>1. Init => Values!Init
  <2>1. SUFFICES ASSUME Init
                 PROVE  Values!Init
    OBVIOUS
  <2>2. \A v \in Tries : Value(v) = Destroyed
    BY <2>1 DEF Init, Value
  <2>3. [v \in Tries |-> Value(v)] = [v \in Tries |-> Destroyed]
    BY <2>2
  <2>4. QED
    BY <2>1, <2>3 DEF Values!Init, Value, Init
<1>2. IInv /\ PlaceInv /\ [Next]_vars => [Values!Next]_(Values!vars)
  BY ValuesStep
<1>3. QED
  BY <1>1, <1>2, Invariance, PlaceInvariance, PTL DEF Spec, ImplementsValues, Values!Spec
=============================================================================

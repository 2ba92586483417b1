------------------------------- MODULE Lemmas -------------------------------
(***************************************************************************)
(* Lemmas on data: induction over the natural numbers, as the fact that    *)
(* every set of them has a least element, what it gives for sequences and  *)
(* FlattenSeq, and, from that, for the operators of Paths and Strings.     *)
(***************************************************************************)
EXTENDS Paths, Strings, FiniteSetTheorems, SequenceTheorems, TLAPS

(***************************************************************************)
(* In a set without a least element, the numbers below all its elements    *)
(* are closed under + 1: the successor would map a finite set one to one   *)
(* to a part of itself without 0.                                          *)
(***************************************************************************)
LEMMA LeastNat ==
  ASSUME NEW T, T \subseteq Nat, NEW x \in T
  PROVE  \E y \in T : \A z \in T : y <= z
<1> SUFFICES ASSUME \A y \in T : \E z \in T : z < y
             PROVE  FALSE
  OBVIOUS
<1> DEFINE B == {z \in 0..x : \A y \in T : z < y}
           f == [z \in B |-> z + 1]
<1>1. 0 \in B /\ \A z \in B : z + 1 \in B
  OBVIOUS
<1>2. IsFiniteSet(B)
  <2>1. B \subseteq 0..x /\ x \in Nat
    OBVIOUS
  <2>2. IsFiniteSet(0..x)
    BY <2>1, FS_Interval
  <2> HIDE DEF B
  <2>3. QED
    BY <2>1, <2>2, FS_Subset
<1>3. f \in [B -> B] /\ \A z \in B : z \in Nat /\ f[z] = z + 1
  BY <1>1
<1> HIDE DEF f, B
<1>4. f \in Injection(B, B)
  BY <1>3 DEF Injection, IsInjective
<1>5. f \in Surjection(B, B)
  BY <1>2, <1>4, FS_Injection
<1>6. QED
  BY <1>1, <1>3, <1>5 DEF Surjection

LEMMA ConcatThree ==
  ASSUME NEW C, NEW x \in Seq(C), NEW y \in Seq(C), NEW z \in Seq(C)
  PROVE  (x \o y) \o z = x \o (y \o z)
BY ConcatAssociative

\* The same under a name, for steps with many sequences in sight.
Assoc(x, y, z) == (x \o y) \o z = x \o (y \o z)

LEMMA ConcatAssoc ==
  ASSUME NEW C, NEW x \in Seq(C), NEW y \in Seq(C), NEW z \in Seq(C)
  PROVE  Assoc(x, y, z)
BY ConcatThree DEF Assoc

(***************************************************************************)
(* FlattenSeq: its recursive function exists and has the recursion's       *)
(* values.                                                                 *)
(***************************************************************************)
Flattens(g, s, n) ==
  g = [i \in 1..n |-> IF i = 1 THEN s[i] ELSE g[i-1] \o s[i]]

LEMMA FlattensAt ==
  ASSUME NEW s, NEW n \in Nat, NEW g, Flattens(g, s, n), NEW i \in 1..n
  PROVE  g[i] = IF i = 1 THEN s[i] ELSE g[i-1] \o s[i]
BY DEF Flattens

LEMMA FlattensExists ==
  ASSUME NEW s, NEW n \in Nat
  PROVE  \E g : Flattens(g, s, n)
<1> DEFINE T == {m \in Nat : ~\E g : Flattens(g, s, m)}
<1> SUFFICES ASSUME n \in T
             PROVE  FALSE
  OBVIOUS
<1>1. PICK m \in T : \A k \in T : m <= k
  BY LeastNat
<1>2. m # 0
  <2>1. Flattens([i \in 1..0 |-> s], s, 0)
    BY DEF Flattens
  <2>2. QED
    BY <2>1
<1>3. m \in Nat /\ m - 1 \in Nat /\ m - 1 \notin T
  BY <1>1, <1>2
<1>4. PICK g : Flattens(g, s, m - 1)
  BY <1>3
<1> DEFINE h == [i \in 1..m |-> IF i = 1 THEN s[i] ELSE g[i-1] \o s[i]]
<1>5. \A i \in 1..m : i # 1 => h[i-1] = g[i-1]
  <2>1. SUFFICES ASSUME NEW i \in 1..m, i # 1
                 PROVE  h[i-1] = g[i-1]
    OBVIOUS
  <2>2. i - 1 \in 1..(m-1) /\ i - 1 \in 1..m
    BY <1>3, <2>1
  <2>3. g[i-1] = IF i - 1 = 1 THEN s[i-1] ELSE g[(i-1)-1] \o s[i-1]
    BY <1>3, <1>4, <2>2, FlattensAt
  <2>4. QED
    BY <2>2, <2>3
<1>6. h = [i \in 1..m |-> IF i = 1 THEN s[i] ELSE h[i-1] \o s[i]]
  <2>1. \A i \in 1..m : (IF i = 1 THEN s[i] ELSE g[i-1] \o s[i])
                         = (IF i = 1 THEN s[i] ELSE h[i-1] \o s[i])
    BY <1>5
  <2>2. QED
    BY <2>1
<1>7. Flattens(h, s, m)
  BY <1>6 DEF Flattens
<1>8. QED
  BY <1>1, <1>7

LEMMA FlattensUnique ==
  ASSUME NEW s, NEW t, NEW n \in Nat, NEW m \in Nat, n <= m,
         NEW g, NEW h, Flattens(g, s, n), Flattens(h, t, m),
         \A i \in 1..n : s[i] = t[i]
  PROVE  \A i \in 1..n : g[i] = h[i]
<1> DEFINE T == {i \in 1..n : g[i] # h[i]}
<1> SUFFICES ASSUME NEW k \in T
             PROVE  FALSE
  OBVIOUS
<1>1. PICK i \in T : \A j \in T : i <= j
  <2>1. T \subseteq Nat
    OBVIOUS
  <2> HIDE DEF T
  <2>2. QED
    BY <2>1, LeastNat
<1>2. i \in 1..n /\ i \in 1..m
  BY <1>1
<1>3. /\ g[i] = IF i = 1 THEN s[i] ELSE g[i-1] \o s[i]
      /\ h[i] = IF i = 1 THEN t[i] ELSE h[i-1] \o t[i]
  BY <1>2, FlattensAt
<1>4. i # 1
  BY <1>1, <1>3
<1>5. i - 1 \in 1..n /\ i - 1 \notin T
  BY <1>1, <1>4
<1>6. g[i-1] = h[i-1] /\ s[i] = t[i]
  BY <1>2, <1>5
<1>7. QED
  BY <1>1, <1>3, <1>4, <1>6

LEMMA FlattenIs ==
  ASSUME NEW C, NEW s \in Seq(C), Len(s) # 0
  PROVE  \E g : Flattens(g, s, Len(s)) /\ FlattenSeq(s) = g[Len(s)]
<1> DEFINE f == CHOOSE g : Flattens(g, s, Len(s))
<1>1. Flattens(f, s, Len(s))
  <2>1. Len(s) \in Nat
    OBVIOUS
  <2>2. \E g : Flattens(g, s, Len(s))
    BY <2>1, FlattensExists
  <2>3. QED
    BY <2>2
<1>2. FlattenSeq(s) = f[Len(s)]
  BY DEF FlattenSeq, Flattens
<1>3. QED
  BY <1>1, <1>2

LEMMA FlattenEmpty == FlattenSeq(<<>>) = <<>>
BY DEF FlattenSeq

LEMMA FlattenStep ==
  ASSUME NEW D, NEW s \in Seq(D), NEW x \in D
  PROVE  FlattenSeq(Append(s, x)) = IF s = <<>> THEN x ELSE FlattenSeq(s) \o x
<1>1. PICK n \in Nat : n = Len(s)
  OBVIOUS
<1> DEFINE t == Append(s, x)
<1>2. t \in Seq(D)
  OBVIOUS
<1>3. PICK m \in Nat : m = n + 1
  OBVIOUS
<1>4. Len(t) = m /\ m # 0 /\ t[m] = x /\ \A i \in 1..n : s[i] = t[i]
  BY <1>1, <1>3
<1> HIDE DEF t
<1>5. PICK h : Flattens(h, t, m) /\ FlattenSeq(t) = h[m]
  BY <1>2, <1>4, FlattenIs
<1>6. CASE n = 0
  <2>1. s = <<>>
    <3>1. Len(s) = 0
      BY <1>1, <1>6
    <3>2. QED
      BY <3>1
  <2>2. m \in 1..m /\ m = 1
    BY <1>3, <1>6
  <2>3. h[m] = t[m]
    BY <1>5, <2>2, FlattensAt
  <2>4. QED
    BY <1>4, <1>5, <2>1, <2>3 DEF t
<1>7. CASE n # 0
  <2>1. PICK g : Flattens(g, s, n) /\ FlattenSeq(s) = g[n]
    BY <1>1, <1>7, FlattenIs
  <2>2. h[m] = g[n] \o t[m]
    <3>1. n <= m /\ n \in 1..n /\ m \in 1..m /\ m # 1 /\ m - 1 = n
      BY <1>3, <1>7
    <3>2. \A i \in 1..n : g[i] = h[i]
      BY <3>1, <1>4, <1>5, <2>1, FlattensUnique
    <3>3. \A i \in 1..m : h[i] = IF i = 1 THEN t[i] ELSE h[i-1] \o t[i]
      BY <1>5, FlattensAt
    <3>4. h[m] = h[m-1] \o t[m]
      BY <3>1, <3>3
    <3>5. QED
      BY <3>1, <3>2, <3>4
  <2>3. s # <<>>
    BY <1>1, <1>7
  <2>4. QED
    BY <1>4, <1>5, <2>1, <2>2, <2>3 DEF t
<1>8. QED
  BY <1>6, <1>7

LEMMA FlattenAppend ==
  ASSUME NEW C, NEW s \in Seq(Seq(C)), NEW x \in Seq(C)
  PROVE  FlattenSeq(Append(s, x)) = FlattenSeq(s) \o x
<1>1. <<>> \o x = x
  OBVIOUS
<1>2. FlattenSeq(Append(s, x)) = IF s = <<>> THEN x ELSE FlattenSeq(s) \o x
  BY FlattenStep
<1>3. QED
  BY <1>1, <1>2, FlattenEmpty

(***************************************************************************)
(* The text of the first n elements, which are images of characters.       *)
(***************************************************************************)
Text(I, n) == FlattenSeq(SubSeq(I, 1, n))

LEMMA TextNext ==
  ASSUME NEW C, NEW I \in Seq(Seq(C)), NEW n \in 1..Len(I)
  PROVE  Text(I, n) = Text(I, n - 1) \o I[n]
<1> DEFINE D == Seq(C)
           u == SubSeq(I, 1, n - 1)
<1>1. I \in Seq(D) /\ Len(I) \in Nat /\ I[n] \in D
  OBVIOUS
<1> HIDE DEF D
<1>2. u \in Seq(D) /\ SubSeq(I, 1, n) = Append(u, I[n])
  BY <1>1
<1> HIDE DEF u
<1>3. FlattenSeq(Append(u, I[n])) = FlattenSeq(u) \o I[n]
  BY <1>1, <1>2, FlattenAppend DEF D
<1>4. QED
  BY <1>2, <1>3 DEF Text, u

LEMMA TextNone ==
  ASSUME NEW C, NEW I \in Seq(Seq(C))
  PROVE  Text(I, 0) = <<>>
<1>1. SubSeq(I, 1, 0) = <<>>
  OBVIOUS
<1>2. QED
  BY <1>1, FlattenEmpty DEF Text

LEMMA TextType ==
  ASSUME NEW C, NEW I \in Seq(Seq(C)), NEW n \in 0..Len(I)
  PROVE  Text(I, n) \in Seq(C)
<1> DEFINE T == {m \in 0..Len(I) : Text(I, m) \notin Seq(C)}
<1> SUFFICES ASSUME n \in T
             PROVE  FALSE
  OBVIOUS
<1>1. Len(I) \in Nat /\ T \subseteq Nat
  OBVIOUS
<1>2. PICK m \in T : \A j \in T : m <= j
  <2> HIDE DEF T
  <2>1. QED
    BY <1>1, LeastNat
<1>3. m # 0
  <2>1. Text(I, 0) = <<>> /\ <<>> \in Seq(C)
    BY TextNone
  <2>2. QED
    BY <2>1
<1>4. m \in 1..Len(I) /\ m - 1 \in 0..Len(I) /\ m - 1 \notin T
  BY <1>1, <1>2, <1>3
<1>5. Text(I, m) = Text(I, m - 1) \o I[m]
  BY <1>4, TextNext
<1>6. Text(I, m - 1) \in Seq(C) /\ I[m] \in Seq(C)
  BY <1>4
<1>7. Text(I, m) \in Seq(C)
  <2>1. \A x, y \in Seq(C) : x \o y \in Seq(C)
    OBVIOUS
  <2>2. QED
    BY <1>5, <1>6, <2>1
<1>8. QED
  BY <1>2, <1>7

\* Characters that become themselves are copied.
LEMMA TextCopies ==
  ASSUME NEW C, NEW s \in Seq(C), NEW I \in Seq(Seq(C)), Len(I) = Len(s),
         NEW a \in 0..Len(s), NEW b \in a..Len(s),
         \A p \in (a+1)..b : I[p] = <<s[p]>>
  PROVE  Text(I, b) = Text(I, a) \o SubSeq(s, a + 1, b)
<1> DEFINE T == {m \in a..b : Text(I, m) # Text(I, a) \o SubSeq(s, a + 1, m)}
<1> SUFFICES ASSUME b \in T
             PROVE  FALSE
  BY SMTT(20)
<1>1. Len(s) \in Nat /\ T \subseteq Nat
  OBVIOUS
<1>2. PICK m \in T : \A j \in T : m <= j
  <2> HIDE DEF T
  <2>1. QED
    BY <1>1, LeastNat
<1>3. Text(I, a) \in Seq(C)
  BY <1>1, TextType
<1>4. m # a
  <2>1. SubSeq(s, a + 1, a) = <<>>
    OBVIOUS
  <2>2. Text(I, a) \o <<>> = Text(I, a)
    BY <1>3
  <2>3. QED
    BY <2>1, <2>2
<1>5. m \in (a+1)..b /\ m \in 1..Len(I) /\ m - 1 \in a..b
  BY <1>1, <1>4
<1>6. m - 1 \notin T
  <2>1. m - 1 < m
    BY <1>5
  <2> HIDE DEF T
  <2>2. QED
    BY <1>1, <1>2, <1>5, <2>1
<1>7. Text(I, m) = Text(I, m - 1) \o I[m]
  BY <1>5, TextNext
<1>8. Text(I, m - 1) = Text(I, a) \o SubSeq(s, a + 1, m - 1) /\ I[m] = <<s[m]>>
  BY <1>5, <1>6
<1>9. SubSeq(s, a + 1, m) = SubSeq(s, a + 1, m - 1) \o <<s[m]>>
  <2>1. a + 1 \in 1..Len(s) /\ m \in (a+1)..Len(s)
    BY <1>1, <1>5
  <2>2. QED
    BY <2>1, SubSeqRecursiveSecond
<1>10. SubSeq(s, a + 1, m - 1) \in Seq(C) /\ <<s[m]>> \in Seq(C)
  <2>1. \A i \in (a+1)..(m-1) : s[i] \in C
    BY <1>1, <1>5
  <2>2. s[m] \in C
    BY <1>1, <1>5
  <2>3. a + 1 \in Int /\ m - 1 \in Int
    BY <1>5
  <2>4. SubSeq(s, a + 1, m - 1) \in Seq(C)
    BY <2>1, <2>3, SubSeqProperties
  <2>5. <<s[m]>> \in Seq(C)
    BY <2>2
  <2>6. QED
    BY <2>4, <2>5
<1>11. (Text(I, a) \o SubSeq(s, a + 1, m - 1)) \o <<s[m]>>
         = Text(I, a) \o (SubSeq(s, a + 1, m - 1) \o <<s[m]>>)
  <2>1. PICK x \in Seq(C), y \in Seq(C), z \in Seq(C) :
          x = Text(I, a) /\ y = SubSeq(s, a + 1, m - 1) /\ z = <<s[m]>>
    BY <1>3, <1>10, Zenon
  <2> HIDE DEF T
  <2>2. (x \o y) \o z = x \o (y \o z)
    <3>1. Assoc(x, y, z)
      BY ConcatAssoc
    <3>2. QED
      BY <3>1 DEF Assoc
  <2>3. QED
    BY <2>1, <2>2, Zenon
<1>12. Text(I, m) = Text(I, a) \o SubSeq(s, a + 1, m)
  BY <1>7, <1>8, <1>9, <1>11
<1>13. QED
  BY <1>2, <1>12

\* Characters that become nothing are not.
LEMMA TextDrops ==
  ASSUME NEW C, NEW I \in Seq(Seq(C)),
         NEW a \in 0..Len(I), NEW b \in a..Len(I),
         \A p \in (a+1)..b : I[p] = <<>>
  PROVE  Text(I, b) = Text(I, a)
<1> DEFINE T == {m \in a..b : Text(I, m) # Text(I, a)}
<1> SUFFICES ASSUME b \in T
             PROVE  FALSE
  OBVIOUS
<1>1. Len(I) \in Nat /\ T \subseteq Nat
  OBVIOUS
<1>2. PICK m \in T : \A j \in T : m <= j
  <2> HIDE DEF T
  <2>1. QED
    BY <1>1, LeastNat
<1>3. Text(I, a) \in Seq(C)
  BY <1>1, TextType
<1>4. m # a
  OBVIOUS
<1>5. m \in (a+1)..b /\ m \in 1..Len(I) /\ m - 1 \in a..b /\ m - 1 \notin T
  BY <1>1, <1>2, <1>4
<1>6. Text(I, m) = Text(I, m - 1) \o I[m]
  BY <1>5, TextNext
<1>7. Text(I, m - 1) = Text(I, a) /\ I[m] = <<>>
  BY <1>5
<1>8. QED
  BY <1>3, <1>6, <1>7

LEMMA FlattenIsText ==
  ASSUME NEW C, NEW I \in Seq(Seq(C))
  PROVE  FlattenSeq(I) = Text(I, Len(I)) /\ FlattenSeq(I) \in Seq(C)
<1> DEFINE D == Seq(C)
<1>1. I \in Seq(D)
  OBVIOUS
<1> HIDE DEF D
<1>2. SubSeq(I, 1, Len(I)) = I /\ Len(I) \in 0..Len(I)
  BY <1>1, SubSeqFull
<1>3. Text(I, Len(I)) \in Seq(C)
  BY <1>2, TextType
<1>4. QED
  BY <1>2, <1>3 DEF Text

\* v is what I has behind its first a elements.
Continues(I, a, v) == Len(I) = a + Len(v) /\ \A i \in 1..Len(v) : I[a + i] = v[i]

LEMMA TextContinues ==
  ASSUME NEW C, NEW I \in Seq(Seq(C)), NEW v \in Seq(Seq(C)), NEW a \in Nat,
         Continues(I, a, v), NEW n \in 0..Len(v)
  PROVE  Text(I, a + n) = Text(I, a) \o Text(v, n)
<1> DEFINE T == {m \in 0..Len(v) : Text(I, a + m) # Text(I, a) \o Text(v, m)}
<1> SUFFICES ASSUME n \in T
             PROVE  FALSE
  OBVIOUS
<1>1. Len(v) \in Nat /\ T \subseteq Nat /\ Len(I) = a + Len(v)
      /\ \A i \in 1..Len(v) : I[a + i] = v[i]
  BY DEF Continues
<1>2. PICK m \in T : \A j \in T : m <= j
  <2> HIDE DEF T
  <2>1. QED
    BY <1>1, LeastNat
<1>3. Text(I, a) \in Seq(C)
  BY <1>1, TextType
<1>4. m # 0
  BY <1>3, TextNone
<1>5. m \in 1..Len(v) /\ m - 1 \in 0..Len(v) /\ m - 1 \notin T
  <2>1. m \in 1..Len(v) /\ m - 1 \in 0..Len(v) /\ m - 1 < m
    BY <1>1, <1>4
  <2> HIDE DEF T
  <2>2. QED
    BY <1>1, <1>2, <2>1
<1>6. a + m \in 1..Len(I) /\ (a + m) - 1 = a + (m - 1)
  BY <1>1, <1>5
<1>7. Text(I, a + m) = Text(I, a + (m - 1)) \o I[a + m] /\ Text(v, m) = Text(v, m - 1) \o v[m]
  BY <1>5, <1>6, TextNext
<1>8. Text(I, a + (m - 1)) = Text(I, a) \o Text(v, m - 1) /\ I[a + m] = v[m]
  BY <1>1, <1>5
<1>9. Text(v, m - 1) \in Seq(C) /\ v[m] \in Seq(C)
  <2>1. v[m] \in Seq(C)
    BY <1>5
  <2>2. QED
    BY <1>5, <2>1, TextType
<1>10. PICK x \in Seq(C), y \in Seq(C), z \in Seq(C) :
         x = Text(I, a) /\ y = Text(v, m - 1) /\ z = v[m]
  BY <1>3, <1>9, Zenon
<1> HIDE DEF T
<1>11. (x \o y) \o z = x \o (y \o z)
  <2>1. Assoc(x, y, z)
    BY ConcatAssoc
  <2>2. QED
    BY <2>1 DEF Assoc
<1>12. Text(I, a + m) = Text(I, a) \o Text(v, m)
  BY <1>7, <1>8, <1>10, <1>11, Zenon
<1>13. QED
  BY <1>2, <1>12 DEF T

LEMMA FlattenConcat ==
  ASSUME NEW C, NEW u \in Seq(Seq(C)), NEW v \in Seq(Seq(C))
  PROVE  FlattenSeq(u \o v) = FlattenSeq(u) \o FlattenSeq(v)
<1> DEFINE D == Seq(C)
<1>1. u \in Seq(D) /\ v \in Seq(D)
  OBVIOUS
<1> HIDE DEF D
<1>2. PICK I : I = u \o v /\ I \in Seq(D)
  <2>1. \A x, y \in Seq(D) : x \o y \in Seq(D)
    OBVIOUS
  <2>2. QED
    BY <1>1, <2>1
<1>3. PICK a \in Nat, b \in Nat : a = Len(u) /\ b = Len(v)
  BY <1>1
<1>4. Len(I) = a + b /\ (\A i \in 1..b : I[a + i] = v[i]) /\ b \in 0..b
  BY <1>1, <1>2, <1>3
<1>5. SubSeq(I, 1, a) = u
  BY <1>1, <1>2, <1>3
<1>6. Text(I, a + b) = Text(I, a) \o Text(v, b)
  <2>1. Continues(I, a, v) /\ b \in 0..Len(v)
    BY <1>3, <1>4 DEF Continues
  <2>2. I \in Seq(Seq(C)) /\ v \in Seq(Seq(C))
    BY <1>1, <1>2 DEF D
  <2>3. a \in Nat
    BY <1>3
  <2>4. QED
    BY <2>1, <2>2, <2>3, TextContinues, Z3
<1>7. Text(I, a) = FlattenSeq(u)
  BY <1>5 DEF Text
<1>8. FlattenSeq(I) = Text(I, a + b) /\ FlattenSeq(v) = Text(v, b)
  BY <1>1, <1>2, <1>3, <1>4, FlattenIsText DEF D
<1>9. QED
  BY <1>2, <1>6, <1>7, <1>8

(***************************************************************************)
(* Prefixes of sequences.                                                  *)
(***************************************************************************)
LEMMA PrefixOfSeq ==
  ASSUME NEW M, NEW w \in Seq(M), NEW q \in Prefixes(w)
  PROVE  q \in Seq(M) /\ Len(q) <= Len(w) /\ \A i \in 1..Len(q) : q[i] = w[i]
<1>1. PICK l \in 0..Len(w) : q = SubSeq(w, 1, l)
  BY DEF Prefixes
<1>2. QED
  BY <1>1

LEMMA IsPrefixIs ==
  ASSUME NEW M, NEW s \in Seq(M), NEW t \in Seq(M)
  PROVE  IsPrefix(s, t) <=> Len(s) <= Len(t) /\ \A i \in 1..Len(s) : s[i] = t[i]
<1>1. PICK m \in Nat, n \in Nat : m = Len(s) /\ n = Len(t)
  OBVIOUS
<1>2. CASE m <= n
  <2>1. PICK u, v : u = SubSeq(s, 1, m) /\ v = SubSeq(t, 1, m)
    OBVIOUS
  <2>2. u \in Seq(M) /\ Len(u) = m /\ \A i \in 1..m : u[i] = s[i]
    BY <1>1, <2>1
  <2>3. v \in Seq(M) /\ Len(v) = m /\ \A i \in 1..m : v[i] = t[i]
    BY <1>1, <1>2, <2>1
  <2>4. u = v <=> \A i \in 1..m : u[i] = v[i]
    BY <2>2, <2>3, SeqEqual
  <2>5. QED
    BY <1>1, <1>2, <2>1, <2>2, <2>3, <2>4 DEF IsPrefix
<1>3. CASE ~(m <= n)
  BY <1>1, <1>3 DEF IsPrefix
<1>4. QED
  BY <1>2, <1>3

\* x \o u begins x \o v just if u begins v, and is it just if u is v.
LEMMA PrefixBehind ==
  ASSUME NEW M, NEW x \in Seq(M), NEW u \in Seq(M), NEW v \in Seq(M)
  PROVE  IsPrefix(x \o u, x \o v) <=> IsPrefix(u, v)
<1>1. PICK n \in Nat, k \in Nat, m \in Nat : n = Len(x) /\ k = Len(u) /\ m = Len(v)
  OBVIOUS
<1>2. PICK y : y = x \o u
  OBVIOUS
<1>3. PICK z : z = x \o v
  OBVIOUS
<1>4. /\ y \in Seq(M) /\ Len(y) = n + k /\ (\A i \in 1..n : y[i] = x[i])
      /\ \A i \in 1..k : y[n + i] = u[i]
  BY <1>1, <1>2
<1>5. /\ z \in Seq(M) /\ Len(z) = n + m /\ (\A i \in 1..n : z[i] = x[i])
      /\ \A i \in 1..m : z[n + i] = v[i]
  BY <1>1, <1>3
<1>6. IsPrefix(y, z) <=> n + k <= n + m /\ \A i \in 1..(n + k) : y[i] = z[i]
  <2>1. y \in Seq(M) /\ z \in Seq(M)
    BY <1>4, <1>5
  <2>2. IsPrefix(y, z) <=> Len(y) <= Len(z) /\ \A i \in 1..Len(y) : y[i] = z[i]
    BY <2>1, IsPrefixIs
  <2>3. Len(y) = n + k /\ Len(z) = n + m
    BY <1>4, <1>5
  <2>4. QED
    BY <2>2, <2>3
<1>7. IsPrefix(u, v) <=> k <= m /\ \A i \in 1..k : u[i] = v[i]
  <2>1. IsPrefix(u, v) <=> Len(u) <= Len(v) /\ \A i \in 1..Len(u) : u[i] = v[i]
    BY IsPrefixIs
  <2>2. QED
    BY <1>1, <2>1
<1>8. ASSUME k <= m, \A i \in 1..(n + k) : y[i] = z[i], NEW i \in 1..k
      PROVE  u[i] = v[i]
  <2>1. n + i \in 1..(n + k) /\ i \in 1..m
    BY <1>8
  <2>2. QED
    BY <1>4, <1>5, <1>8, <2>1
<1>9. ASSUME k <= m, \A i \in 1..k : u[i] = v[i], NEW i \in 1..(n + k)
      PROVE  y[i] = z[i]
  <2>1. CASE i <= n
    <3>1. i \in 1..n
      BY <2>1
    <3>2. QED
      BY <1>4, <1>5, <3>1
  <2>2. CASE i > n
    <3>1. i - n \in 1..k /\ i - n \in 1..m /\ n + (i - n) = i
      BY <1>9, <2>2
    <3>2. y[n + (i - n)] = u[i - n] /\ z[n + (i - n)] = v[i - n] /\ u[i - n] = v[i - n]
      BY <1>4, <1>5, <1>9, <3>1
    <3>3. QED
      BY <3>1, <3>2
  <2>3. QED
    BY <2>1, <2>2
<1>10. n + k <= n + m <=> k <= m
  OBVIOUS
<1>11. QED
  BY <1>2, <1>3, <1>6, <1>7, <1>8, <1>9, <1>10

LEMMA SameBehind ==
  ASSUME NEW M, NEW x \in Seq(M), NEW u \in Seq(M), NEW v \in Seq(M), x \o u = x \o v
  PROVE  u = v
<1>1. IsPrefix(x \o u, x \o v) /\ IsPrefix(x \o v, x \o u)
  <2>1. PICK y : y = x \o u
    OBVIOUS
  <2>2. y \in Seq(M)
    BY <2>1
  <2>3. IsPrefix(y, y)
    BY <2>2, IsPrefixIs
  <2>4. QED
    BY <2>1, <2>3
<1>2. IsPrefix(u, v) /\ IsPrefix(v, u)
  BY <1>1, PrefixBehind
<1>3. Len(u) <= Len(v) /\ Len(v) <= Len(u) /\ \A i \in 1..Len(u) : u[i] = v[i]
  BY <1>2, IsPrefixIs
<1>4. Len(u) = Len(v)
  BY <1>3
<1>5. QED
  BY <1>3, <1>4, SeqEqual

LEMMA PrefixesIs ==
  ASSUME NEW M, NEW s \in Seq(M), NEW t \in Seq(M)
  PROVE  s \in Prefixes(t) <=> IsPrefix(s, t)
<1>1. ASSUME IsPrefix(s, t)
      PROVE  s \in Prefixes(t)
  <2>1. Len(s) \in 0..Len(t) /\ \A i \in 1..Len(s) : s[i] = t[i]
    BY <1>1, IsPrefixIs
  <2>2. PICK u : u = SubSeq(t, 1, Len(s))
    OBVIOUS
  <2>3. u \in Seq(M) /\ Len(u) = Len(s) /\ \A i \in 1..Len(s) : u[i] = t[i]
    BY <2>1, <2>2
  <2>4. s = u
    BY <2>1, <2>3, SeqEqual
  <2>5. QED
    BY <2>1, <2>2, <2>4 DEF Prefixes
<1>2. ASSUME s \in Prefixes(t)
      PROVE  IsPrefix(s, t)
  BY <1>2, PrefixOfSeq, IsPrefixIs
<1>3. QED
  BY <1>1, <1>2

LEMMA FrontOne ==
  ASSUME NEW C, NEW s \in Seq(C), s # <<>>
  PROVE  SubSeq(s, 1, 1) = << s[1] >>
<1>1. PICK u, v : u = SubSeq(s, 1, 1) /\ v = << s[1] >>
  OBVIOUS
<1>2. Len(s) \in Nat \ {0} /\ s[1] \in C
  OBVIOUS
<1>3. u \in Seq(C) /\ Len(u) = 1 /\ u[1] = s[1]
  BY <1>1, <1>2
<1>4. v \in Seq(C) /\ Len(v) = 1 /\ v[1] = s[1]
  BY <1>1, <1>2
<1>5. \A i \in 1..Len(u) : u[i] = v[i]
  BY <1>3, <1>4
<1>6. u = v
  BY <1>3, <1>4, <1>5, SeqEqual
<1>7. QED
  BY <1>1, <1>6

(***************************************************************************)
(* Names in a string over C.                                               *)
(***************************************************************************)
\* The name that begins at i ends at j.
EndsAt(s, i, j) ==
  /\ j \in i..Len(s)
  /\ j = Len(s) \/ s[j+1] = "/"
  /\ \A k \in i..j : s[k] # "/"

LEMMA NameEnds ==
  ASSUME NEW C, NEW s \in Seq(C), NEW i \in 1..Len(s), s[i] # "/"
  PROVE  \E j : EndsAt(s, i, j)
<1> DEFINE T == {j \in i..Len(s) : j = Len(s) \/ s[j+1] = "/"}
<1>1. Len(s) \in Nat /\ Len(s) \in T /\ T \subseteq Nat
  OBVIOUS
<1>2. PICK j \in T : \A k \in T : j <= k
  <2> HIDE DEF T
  <2>1. QED
    BY <1>1, LeastNat
<1>3. ASSUME NEW k \in i..j
      PROVE  s[k] # "/"
  <2>1. CASE k = i
    BY <2>1
  <2>2. CASE k # i
    <3>1. k - 1 \in i..Len(s) /\ (k - 1) + 1 = k /\ k - 1 < j
      BY <1>1, <1>2, <1>3, <2>2
    <3>2. k - 1 \notin T
      <4> HIDE DEF T
      <4>1. QED
        BY <1>1, <1>2, <3>1
    <3>3. QED
      BY <3>1, <3>2
  <2>3. QED
    BY <2>1, <2>2
<1>4. EndsAt(s, i, j)
  BY <1>2, <1>3 DEF EndsAt
<1>5. QED
  BY <1>4

LEMMA NameFromIs ==
  ASSUME NEW C, NEW s \in Seq(C), NEW i \in 1..Len(s), NEW j, EndsAt(s, i, j)
  PROVE  NameFrom(s, i) = SubSeq(s, i, j)
<1>1. Len(s) \in Nat
  OBVIOUS
<1>2. \A k \in i..Len(s) : EndsAt(s, i, k) => k = j
  <2>1. SUFFICES ASSUME NEW k \in i..Len(s), EndsAt(s, i, k)
                 PROVE  k = j
    OBVIOUS
  <2>2. j \in i..Len(s)
    BY DEF EndsAt
  <2>3. CASE k < j
    <3>1. k + 1 \in i..j /\ k # Len(s)
      BY <1>1, <2>1, <2>2, <2>3
    <3>2. QED
      BY <2>1, <3>1 DEF EndsAt
  <2>4. CASE j < k
    <3>1. j + 1 \in i..k /\ j # Len(s)
      BY <1>1, <2>1, <2>2, <2>4
    <3>2. QED
      BY <2>1, <3>1 DEF EndsAt
  <2>5. QED
    BY <1>1, <2>2, <2>3, <2>4
<1>3. (CHOOSE k \in i..Len(s) : EndsAt(s, i, k)) = j
  BY <1>2 DEF EndsAt
<1>4. \A k \in i..Len(s) : EndsAt(s, i, k) <=>
        (k = Len(s) \/ s[k+1] = "/") /\ \A l \in i..k : s[l] # "/"
  BY DEF EndsAt
<1>5. QED
  BY <1>3, <1>4 DEF NameFrom

\* What position i of s adds to the names.
NameAt(s, i) == IF i \in NameStarts(s) THEN <<NameFrom(s, i)>> ELSE <<>>

NamesOf(s) == [i \in DOMAIN s |-> NameAt(s, i)]

LEMMA FileNamesIs ==
  ASSUME NEW s
  PROVE  FileNames(s) = FlattenSeq(NamesOf(s))
BY DEF FileNames, NamesOf, NameAt

\* The names over C: not empty, without a separator.
Names(C) == {n \in Seq(C) : n # <<>> /\ \A i \in 1..Len(n) : n[i] # "/"}

LEMMA NameAtType ==
  ASSUME NEW C, NEW s \in Seq(C), NEW i \in 1..Len(s)
  PROVE  NameAt(s, i) \in Seq(Names(C))
<1>1. CASE i \in NameStarts(s)
  <2>1. s[i] # "/" /\ Len(s) \in Nat
    BY <1>1 DEF NameStarts
  <2>2. PICK j : EndsAt(s, i, j)
    BY <2>1, NameEnds
  <2>3. j \in i..Len(s) /\ \A k \in i..j : s[k] # "/"
    BY <2>2 DEF EndsAt
  <2>4. NameFrom(s, i) = SubSeq(s, i, j)
    BY <2>2, NameFromIs
  <2> DEFINE n == SubSeq(s, i, j)
  <2>5. n \in Seq(C) /\ Len(n) = j - i + 1 /\ \A k \in 1..Len(n) : n[k] = s[i + k - 1]
    BY <2>1, <2>3
  <2>6. \A k \in 1..Len(n) : i + k - 1 \in i..j
    BY <2>1, <2>3, <2>5
  <2>7. n # <<>>
    BY <2>3, <2>5
  <2> HIDE DEF n
  <2>8. n \in Names(C)
    BY <2>3, <2>5, <2>6, <2>7 DEF Names
  <2>9. QED
    BY <1>1, <2>4, <2>8 DEF NameAt, n
<1>2. CASE i \notin NameStarts(s)
  BY <1>2 DEF NameAt
<1>3. QED
  BY <1>1, <1>2

LEMMA NamesOfType ==
  ASSUME NEW C, NEW s \in Seq(C)
  PROVE  NamesOf(s) \in Seq(Seq(Names(C))) /\ Len(NamesOf(s)) = Len(s)
<1>1. Len(s) \in Nat /\ DOMAIN s = 1..Len(s)
  OBVIOUS
<1>2. \A i \in 1..Len(s) : NameAt(s, i) \in Seq(Names(C))
  BY NameAtType
<1>3. NamesOf(s) = [i \in 1..Len(s) |-> NameAt(s, i)]
  BY <1>1 DEF NamesOf
<1> DEFINE D == Seq(Names(C))
<1>4. \A i \in 1..Len(s) : NameAt(s, i) \in D
  BY <1>2
<1> HIDE DEF D
<1>5. NamesOf(s) \in Seq(D) /\ Len(NamesOf(s)) = Len(s)
  BY <1>1, <1>3, <1>4
<1>6. QED
  BY <1>5 DEF D

LEMMA FileNamesType ==
  ASSUME NEW C, NEW s \in Seq(C)
  PROVE  FileNames(s) \in Seq(Names(C))
BY NamesOfType, FlattenIsText, FileNamesIs

(***************************************************************************)
(* The names of two strings with a separator between them.                 *)
(***************************************************************************)
LEMMA SplitFacts ==
  ASSUME NEW C, "/" \in C, NEW a \in Seq(C), NEW b \in Seq(C), NEW s, s = a \o <<"/">> \o b,
         NEW l, l = Len(a) + 1
  PROVE  /\ s \in Seq(C) /\ Len(s) = l + Len(b) /\ l \in Nat /\ Len(b) \in Nat /\ Len(a) = l - 1
         /\ \A i \in 1..Len(a) : s[i] = a[i]
         /\ s[l] = "/"
         /\ \A i \in 1..Len(b) : s[l + i] = b[i]
<1>1. <<"/">> \in Seq(C)
  OBVIOUS
<1>2. PICK u : u = a \o <<"/">>
  OBVIOUS
<1>3. u \in Seq(C) /\ Len(u) = l /\ u[l] = "/" /\ \A i \in 1..Len(a) : u[i] = a[i]
  BY <1>1, <1>2
<1>4. s = u \o b
  BY <1>2
<1>5. s \in Seq(C) /\ Len(s) = l + Len(b) /\ \A i \in 1..Len(b) : s[l + i] = b[i]
  BY <1>3, <1>4
<1>6. \A i \in 1..l : s[i] = u[i]
  BY <1>3, <1>4
<1>7. l \in 1..l /\ \A i \in 1..Len(a) : i \in 1..l
  OBVIOUS
<1>8. QED
  BY <1>3, <1>5, <1>6, <1>7

LEMMA NameBefore ==
  ASSUME NEW C, "/" \in C, NEW a \in Seq(C), NEW b \in Seq(C), NEW s, s = a \o <<"/">> \o b,
         NEW i \in 1..Len(a)
  PROVE  NameAt(s, i) = NameAt(a, i)
<1>1. PICK l : l = Len(a) + 1
  OBVIOUS
<1>2. /\ s \in Seq(C) /\ Len(s) = l + Len(b) /\ l \in Nat /\ Len(b) \in Nat /\ Len(a) = l - 1
      /\ \A k \in 1..Len(a) : s[k] = a[k]
      /\ s[l] = "/" /\ DOMAIN s = 1..Len(s) /\ DOMAIN a = 1..Len(a)
  BY <1>1, SplitFacts
<1>3. i \in NameStarts(s) <=> i \in NameStarts(a)
  <2>1. i # 1 => i - 1 \in 1..Len(a)
    BY <1>2
  <2>2. s[i] = a[i] /\ (i # 1 => s[i-1] = a[i-1]) /\ i \in 1..Len(s)
    BY <1>2, <2>1
  <2>3. QED
    BY <1>2, <2>2 DEF NameStarts
<1>4. CASE i \in NameStarts(a)
  <2>1. a[i] # "/"
    BY <1>4 DEF NameStarts
  <2>2. PICK j : EndsAt(a, i, j)
    BY <2>1, NameEnds
  <2>3. j \in i..Len(a) /\ (j = Len(a) \/ a[j+1] = "/") /\ \A k \in i..j : a[k] # "/"
    BY <2>2 DEF EndsAt
  <2>4. EndsAt(s, i, j)
    <3>1. j \in i..Len(s) /\ j \in Nat
      BY <1>2, <2>3
    <3>2. s[j+1] = "/"
      <4>1. CASE j = Len(a)
        BY <1>2, <4>1
      <4>2. CASE j # Len(a)
        <5>1. j + 1 \in 1..Len(a)
          BY <1>2, <2>3, <4>2
        <5>2. QED
          BY <1>2, <2>3, <4>2, <5>1
      <4>3. QED
        BY <4>1, <4>2
    <3>3. \A k \in i..j : k \in 1..Len(a)
      BY <1>2, <2>3
    <3>4. QED
      BY <1>2, <2>3, <3>1, <3>2, <3>3 DEF EndsAt
  <2>5. NameFrom(a, i) = SubSeq(a, i, j)
    BY <2>2, NameFromIs
  <2>6. NameFrom(s, i) = SubSeq(s, i, j)
    <3>1. i \in 1..Len(s)
      BY <1>2
    <3>2. QED
      BY <1>2, <2>4, <3>1, NameFromIs
  <2>7. SubSeq(s, i, j) = SubSeq(a, i, j)
    BY <1>2, <2>3
  <2>8. QED
    BY <1>3, <1>4, <2>5, <2>6, <2>7 DEF NameAt
<1>5. CASE i \notin NameStarts(a)
  BY <1>3, <1>5 DEF NameAt
<1>6. QED
  BY <1>4, <1>5

\* s is a text, a separator and b, which begins behind position l.
Behind(s, l, b) ==
  /\ Len(s) = l + Len(b) /\ l # 0
  /\ s[l] = "/"
  /\ \A k \in 1..Len(b) : s[l + k] = b[k]

LEMMA EndsBehind ==
  ASSUME NEW C, NEW s \in Seq(C), NEW b \in Seq(C), NEW l \in Nat, Behind(s, l, b),
         NEW i \in 1..Len(b), NEW j, EndsAt(b, i, j)
  PROVE  EndsAt(s, l + i, l + j)
<1>1. PICK n \in Nat, m \in Nat : n = Len(b) /\ m = Len(s)
  OBVIOUS
<1>2. m = l + n /\ \A k \in 1..n : s[l + k] = b[k]
  BY <1>1 DEF Behind
<1>3. i \in 1..n /\ j \in i..n /\ (j = n \/ b[j+1] = "/") /\ \A k \in i..j : b[k] # "/"
  BY <1>1 DEF EndsAt
<1>4. l + j \in (l+i)..m
  BY ONLY <1>1, <1>2, <1>3, l \in Nat
<1>5. l + j = m \/ s[(l+j)+1] = "/"
  <2>1. CASE j # n
    <3>1. j + 1 \in 1..n /\ (l + j) + 1 = l + (j + 1)
      BY ONLY <1>1, <1>3, <2>1, l \in Nat
    <3>2. QED
      BY <1>2, <1>3, <2>1, <3>1
  <2>2. QED
    BY <1>2, <2>1
<1>6. ASSUME NEW k \in (l+i)..(l+j)
      PROVE  s[k] # "/"
  <2>1. k - l \in i..j /\ k - l \in 1..n /\ k = l + (k - l)
    BY ONLY <1>1, <1>3, l \in Nat, k \in (l+i)..(l+j)
  <2>2. QED
    BY <1>2, <1>3, <2>1
<1>7. QED
  BY <1>1, <1>4, <1>5, <1>6 DEF EndsAt

LEMMA SubSeqBehind ==
  ASSUME NEW C, NEW s \in Seq(C), NEW b \in Seq(C), NEW l \in Nat, Behind(s, l, b),
         NEW i \in 1..Len(b), NEW j \in i..Len(b)
  PROVE  SubSeq(s, l + i, l + j) = SubSeq(b, i, j)
<1>1. PICK n \in Nat : n = (j - i) + 1
  OBVIOUS
<1>2. Len(b) \in Nat /\ Len(s) = l + Len(b) /\ \A k \in 1..Len(b) : s[l + k] = b[k]
  BY DEF Behind
<1>3. PICK x : x = SubSeq(b, i, j)
  OBVIOUS
<1>4. x \in Seq(C) /\ Len(x) = n /\ \A k \in 1..n : x[k] = b[i + k - 1]
  BY <1>1, <1>3
<1>5. PICK y : y = SubSeq(s, l + i, l + j)
  OBVIOUS
<1>6. PICK p \in Nat, q \in Nat : p = l + i /\ q = l + j
  OBVIOUS
<1>7. p \in 1..Len(s) /\ q \in p..Len(s) /\ (q - p) + 1 = n
  BY <1>1, <1>2, <1>6, SMTT(20)
<1>8. y \in Seq(C) /\ Len(y) = n /\ \A k \in 1..n : y[k] = s[p + k - 1]
  BY <1>5, <1>6, <1>7
<1>9. ASSUME NEW k \in 1..n
      PROVE  x[k] = y[k]
  <2>1. p + k - 1 = l + (i + k - 1) /\ i + k - 1 \in 1..Len(b)
    BY <1>1, <1>2, <1>6
  <2>2. QED
    BY <1>2, <1>4, <1>8, <2>1
<1>10. x = y
  BY <1>4, <1>8, <1>9, SeqEqual
<1>11. QED
  BY <1>3, <1>5, <1>10

LEMMA NameBehind ==
  ASSUME NEW C, NEW s \in Seq(C), NEW b \in Seq(C), NEW l \in Nat, Behind(s, l, b),
         NEW i \in 1..Len(b)
  PROVE  NameAt(s, l + i) = NameAt(b, i)
<1>2. /\ Len(s) = l + Len(b) /\ l # 0 /\ Len(b) \in Nat
      /\ \A k \in 1..Len(b) : s[l + k] = b[k]
      /\ s[l] = "/" /\ DOMAIN s = 1..Len(s) /\ DOMAIN b = 1..Len(b)
  BY DEF Behind
<1>3. l + i \in NameStarts(s) <=> i \in NameStarts(b)
  <2>1. i # 1 => i - 1 \in 1..Len(b)
    BY <1>2
  <2>2. s[l + i] = b[i] /\ l + i \in 1..Len(s) /\ l + i # 1 /\ (i = 1 => s[(l+i)-1] = "/")
    BY <1>2
  <2>3. i # 1 => s[(l+i)-1] = b[i-1]
    <3>1. (l + i) - 1 = l + (i - 1)
      BY <1>2
    <3>2. QED
      BY <1>2, <2>1, <3>1
  <2>4. QED
    BY <1>2, <2>2, <2>3 DEF NameStarts
<1>4. CASE i \in NameStarts(b)
  <2>1. b[i] # "/"
    BY <1>4 DEF NameStarts
  <2>2. PICK j : EndsAt(b, i, j)
    BY <2>1, NameEnds
  <2>3. EndsAt(s, l + i, l + j) /\ j \in i..Len(b)
    <3>1. EndsAt(s, l + i, l + j)
      BY <2>2, EndsBehind
    <3>2. QED
      BY <2>2, <3>1 DEF EndsAt
  <2>4. NameFrom(b, i) = SubSeq(b, i, j)
    BY <2>2, NameFromIs
  <2>5. NameFrom(s, l + i) = SubSeq(s, l + i, l + j)
    <3>1. l + i \in 1..Len(s)
      BY <1>2
    <3>2. QED
      BY <2>3, <3>1, NameFromIs
  <2>6. SubSeq(s, l + i, l + j) = SubSeq(b, i, j)
    BY <2>3, SubSeqBehind
  <2>7. QED
    BY <1>3, <1>4, <2>4, <2>5, <2>6 DEF NameAt
<1>5. CASE i \notin NameStarts(b)
  BY <1>3, <1>5 DEF NameAt
<1>6. QED
  BY <1>4, <1>5

LEMMA NamesSplit ==
  ASSUME NEW C, "/" \in C, NEW a \in Seq(C), NEW b \in Seq(C)
  PROVE  FileNames(a \o <<"/">> \o b) = FileNames(a) \o FileNames(b)
<1>1. PICK s, l : s = a \o <<"/">> \o b /\ l = Len(a) + 1
  OBVIOUS
<1>2. /\ s \in Seq(C) /\ Len(s) = l + Len(b) /\ l \in Nat /\ Len(b) \in Nat /\ Len(a) = l - 1
      /\ s[l] = "/" /\ DOMAIN s = 1..Len(s)
  BY <1>1, SplitFacts
<1> DEFINE D == Seq(Names(C))
<1>3. PICK u, v, w : u = NamesOf(a) /\ v = NamesOf(b) /\ w = NamesOf(s)
  OBVIOUS
<1>4. u \in Seq(D) /\ v \in Seq(D) /\ w \in Seq(D) /\ Len(u) = Len(a) /\ Len(v) = Len(b) /\ Len(w) = Len(s)
  BY <1>2, <1>3, NamesOfType
<1>5. ASSUME NEW i \in 1..Len(a)
      PROVE  w[i] = u[i]
  <2>1. i \in DOMAIN s /\ i \in DOMAIN a
    BY <1>2
  <2>2. NameAt(s, i) = NameAt(a, i)
    BY <1>1, NameBefore
  <2>3. QED
    BY <1>3, <2>1, <2>2 DEF NamesOf
<1>6. w[l] = <<>>
  BY <1>2, <1>3 DEF NamesOf, NameAt, NameStarts
<1>7. ASSUME NEW i \in 1..Len(b)
      PROVE  w[l + i] = v[i]
  <2>1. l + i \in DOMAIN s /\ i \in DOMAIN b
    BY <1>2
  <2>2. NameAt(s, l + i) = NameAt(b, i)
    <3>1. Behind(s, l, b)
      BY <1>1, <1>2, SplitFacts DEF Behind
    <3>2. QED
      BY <1>2, <3>1, NameBehind
  <2>3. QED
    BY <1>3, <2>1, <2>2 DEF NamesOf
<1>8. <<>> \in D
  OBVIOUS
<1> HIDE DEF D
<1>9. PICK x : x = Append(u, <<>>)
  OBVIOUS
<1>10. x \in Seq(D) /\ Len(x) = l /\ (\A i \in 1..Len(a) : x[i] = u[i]) /\ x[l] = <<>>
  BY <1>2, <1>4, <1>8, <1>9
<1>11. w = x \o v
  <2>1. \A i \in 1..l : w[i] = x[i]
    <3>1. \A i \in 1..l : i = l \/ i \in 1..Len(a)
      BY <1>2
    <3>2. QED
      BY <1>5, <1>6, <1>10, <3>1
  <2>2. x \o v \in Seq(D) /\ Len(x \o v) = Len(w)
    <3>1. \A y, z \in Seq(D) : y \o z \in Seq(D) /\ Len(y \o z) = Len(y) + Len(z)
      OBVIOUS
    <3>2. x \o v \in Seq(D) /\ Len(x \o v) = Len(x) + Len(v)
      BY <1>4, <1>10, <3>1
    <3>3. Len(x) + Len(v) = Len(w)
      BY <1>2, <1>4, <1>10
    <3>4. QED
      BY <3>2, <3>3
  <2>3. \A i \in 1..Len(w) : w[i] = (x \o v)[i]
    <3>1. \A i \in 1..Len(w) : i \in 1..l \/ (i - l \in 1..Len(b) /\ i = l + (i - l))
      BY <1>2, <1>4
    <3>2. \A i \in 1..Len(b) : (x \o v)[l + i] = v[i]
      BY <1>2, <1>4, <1>10
    <3>3. \A i \in 1..l : (x \o v)[i] = x[i]
      BY <1>2, <1>4, <1>10
    <3>4. QED
      BY <1>7, <2>1, <3>1, <3>2, <3>3
  <2>4. QED
    BY <1>4, <2>2, <2>3, SeqEqual
<1>12. FlattenSeq(w) = FlattenSeq(x) \o FlattenSeq(v)
  BY <1>4, <1>10, <1>11, FlattenConcat DEF D
<1>13. FlattenSeq(x) = FlattenSeq(u) \o <<>>
  BY <1>4, <1>8, <1>9, FlattenAppend DEF D
<1>14. FlattenSeq(u) \o <<>> = FlattenSeq(u)
  <2>1. FlattenSeq(u) \in D
    BY <1>4, FlattenIsText DEF D
  <2>2. QED
    BY <2>1 DEF D
<1>15. QED
  BY <1>1, <1>3, <1>12, <1>13, <1>14, FileNamesIs

LEMMA NamesNone == FileNames(<<>>) = <<>>
<1>1. NamesOf(<<>>) = <<>>
  BY DEF NamesOf
<1>2. QED
  BY <1>1, FileNamesIs, FlattenEmpty

LEMMA FlattenOne ==
  ASSUME NEW C, NEW x \in Seq(C)
  PROVE  FlattenSeq(<<x>>) = x
<1>1. Append(<<>>, x) = <<x>> /\ <<>> \in Seq(Seq(C)) /\ <<>> \o x = x
  OBVIOUS
<1>2. QED
  BY <1>1, FlattenAppend, FlattenEmpty

\* The first name, which ends at j.
LEMMA FirstName ==
  ASSUME NEW C, NEW s \in Seq(C), s # <<>>, NEW j, EndsAt(s, 1, j)
  PROVE  FileNames(s) # <<>> /\ FileNames(s)[1] = SubSeq(s, 1, j)
<1>1. PICK I : I = NamesOf(s)
  OBVIOUS
<1> DEFINE M == Names(C)
           D == Seq(M)
<1>2. I \in Seq(D) /\ Len(I) = Len(s) /\ Len(s) \in Nat /\ Len(s) # 0 /\ D = Seq(M)
  BY <1>1, NamesOfType
<1> HIDE DEF D
<1>3. PICK v : v = Tail(I)
  OBVIOUS
<1>4. v \in Seq(D) /\ I = <<I[1]>> \o v
  BY <1>2, <1>3
<1>5. I[1] = <<SubSeq(s, 1, j)>>
  <2>1. 1 \in 1..Len(s) /\ 1 \in DOMAIN s /\ s[1] # "/"
    BY <1>2 DEF EndsAt
  <2>2. 1 \in NameStarts(s)
    BY <2>1 DEF NameStarts
  <2>3. NameFrom(s, 1) = SubSeq(s, 1, j)
    BY <2>1, NameFromIs
  <2>4. QED
    BY <1>1, <2>1, <2>2, <2>3 DEF NamesOf, NameAt
<1>6. I[1] \in D /\ <<I[1]>> \in Seq(D)
  <2>1. 1 \in 1..Len(I)
    BY <1>2
  <2>2. QED
    BY <1>2, <2>1
<1>7. FileNames(s) = FlattenSeq(I)
  BY <1>1, FileNamesIs
<1>8. FlattenSeq(I) = FlattenSeq(<<I[1]>>) \o FlattenSeq(v)
  <2>1. PICK a : a = <<I[1]>>
    OBVIOUS
  <2>2. a \in Seq(Seq(M)) /\ v \in Seq(Seq(M)) /\ I = a \o v
    BY <1>2, <1>4, <1>6, <2>1
  <2>3. FlattenSeq(a \o v) = FlattenSeq(a) \o FlattenSeq(v)
    BY <2>2, FlattenConcat
  <2>4. QED
    BY <2>1, <2>2, <2>3
<1>9. FlattenSeq(<<I[1]>>) = I[1]
  <2>1. I[1] \in Seq(M)
    BY <1>2, <1>6
  <2>2. QED
    BY <2>1, FlattenOne
<1>10. PICK x \in Seq(M), y \in Seq(M) : x = I[1] /\ y = FlattenSeq(v)
  BY <1>2, <1>4, <1>6, FlattenIsText
<1>11. FileNames(s) = x \o y /\ x = <<SubSeq(s, 1, j)>>
  BY <1>5, <1>7, <1>8, <1>9, <1>10
<1>12. Len(x) = 1 /\ x[1] = SubSeq(s, 1, j)
  BY <1>11
<1> HIDE DEF M
<1>13. Len(x \o y) # 0 /\ (x \o y)[1] = x[1]
  BY <1>10, <1>12
<1>14. FileNames(s)[1] = SubSeq(s, 1, j)
  BY <1>11, <1>12, <1>13
<1>15. FileNames(s) # <<>>
  <2>1. Len(FileNames(s)) # 0
    BY <1>11, <1>13
  <2>2. QED
    BY <2>1
<1>16. QED
  BY <1>14, <1>15

LEMMA NameSingle ==
  ASSUME NEW C, NEW n \in Names(C)
  PROVE  FileNames(n) = <<n>>
<1>1. n \in Seq(C) /\ n # <<>> /\ Len(n) \in Nat /\ Len(n) # 0 /\ (\A i \in 1..Len(n) : n[i] # "/")
      /\ DOMAIN n = 1..Len(n)
  BY DEF Names
<1>2. PICK I : I = NamesOf(n)
  OBVIOUS
<1> DEFINE M == Names(C)
<1>3. I \in Seq(Seq(M)) /\ Len(I) = Len(n)
  BY <1>1, <1>2, NamesOfType
<1>4. ASSUME NEW p \in 2..Len(n)
      PROVE  I[p] = <<>>
  <2>1. p \in DOMAIN n /\ p # 1 /\ p - 1 \in 1..Len(n)
    BY <1>1
  <2>2. p \notin NameStarts(n)
    BY <1>1, <2>1 DEF NameStarts
  <2>3. QED
    BY <1>2, <2>1, <2>2 DEF NamesOf, NameAt
<1> DEFINE b == Len(n)
<1>5. Text(I, b) = Text(I, 1)
  <2> HIDE DEF M
  <2>1. 1 \in 0..Len(I) /\ b \in 1..Len(I) /\ \A p \in (1+1)..b : I[p] = <<>>
    BY <1>1, <1>3, <1>4
  <2> HIDE DEF b
  <2>2. QED
    BY <1>3, <2>1, TextDrops
<1>6. I[1] = <<n>>
  <2>1. EndsAt(n, 1, Len(n))
    BY <1>1 DEF EndsAt
  <2>2. 1 \in 1..Len(n) /\ 1 \in DOMAIN n
    BY <1>1
  <2>3. NameFrom(n, 1) = SubSeq(n, 1, Len(n))
    BY <1>1, <2>1, <2>2, NameFromIs
  <2>4. SubSeq(n, 1, Len(n)) = n
    BY <1>1, SubSeqFull
  <2>5. 1 \in NameStarts(n)
    BY <1>1, <2>2 DEF NameStarts
  <2>6. QED
    BY <1>2, <2>2, <2>3, <2>4, <2>5 DEF NamesOf, NameAt
<1>7. Text(I, 1) = <<>> \o <<n>>
  <2>1. 1 \in 1..Len(I) /\ 1 - 1 = 0
    BY <1>1, <1>3
  <2> HIDE DEF M
  <2>2. Text(I, 1) = Text(I, 0) \o I[1] /\ Text(I, 0) = <<>>
    BY <1>3, <2>1, TextNext, TextNone
  <2>3. QED
    BY <1>6, <2>2
<1>8. FileNames(n) = Text(I, b)
  <2> HIDE DEF M
  <2>1. QED
    BY <1>2, <1>3, FlattenIsText, FileNamesIs
<1>9. <<>> \o <<n>> = <<n>>
  OBVIOUS
<1>10. QED
  BY <1>5, <1>7, <1>8, <1>9

(***************************************************************************)
(* What a directory entry keeps of the names.                              *)
(***************************************************************************)
Kept(n) == IF n \in {<<>>, <<".">>} THEN <<>> ELSE <<n>>

KeptOf(w) == [i \in DOMAIN w |-> Kept(w[i])]

Keep(w) == FlattenSeq(KeptOf(w))

LEMMA KeptOfType ==
  ASSUME NEW M, NEW w \in Seq(M)
  PROVE  KeptOf(w) \in Seq(Seq(M)) /\ Len(KeptOf(w)) = Len(w)
         /\ \A i \in 1..Len(w) : KeptOf(w)[i] = Kept(w[i])
<1> DEFINE D == Seq(M)
<1>1. Len(w) \in Nat /\ DOMAIN w = 1..Len(w)
  OBVIOUS
<1>2. \A i \in 1..Len(w) : Kept(w[i]) \in D
  BY DEF Kept
<1> HIDE DEF D
<1>3. KeptOf(w) = [i \in 1..Len(w) |-> Kept(w[i])]
  BY <1>1 DEF KeptOf
<1>4. KeptOf(w) \in Seq(D) /\ Len(KeptOf(w)) = Len(w)
  BY <1>1, <1>2, <1>3
<1>5. QED
  BY <1>3, <1>4 DEF D

LEMMA KeepType ==
  ASSUME NEW M, NEW w \in Seq(M)
  PROVE  Keep(w) \in Seq(M)
BY KeptOfType, FlattenIsText DEF Keep

LEMMA KeepConcat ==
  ASSUME NEW M, NEW u \in Seq(M), NEW v \in Seq(M)
  PROVE  Keep(u \o v) = Keep(u) \o Keep(v)
<1> DEFINE D == Seq(M)
<1>1. PICK w : w = u \o v
  OBVIOUS
<1>2. w \in Seq(M) /\ Len(w) = Len(u) + Len(v) /\ Len(u) \in Nat /\ Len(v) \in Nat
      /\ (\A i \in 1..Len(u) : w[i] = u[i]) /\ \A i \in 1..Len(v) : w[Len(u) + i] = v[i]
  BY <1>1
<1>3. PICK x, y, z : x = KeptOf(u) /\ y = KeptOf(v) /\ z = KeptOf(w)
  OBVIOUS
<1>4. /\ x \in Seq(D) /\ Len(x) = Len(u) /\ \A i \in 1..Len(u) : x[i] = Kept(u[i])
      /\ y \in Seq(D) /\ Len(y) = Len(v) /\ \A i \in 1..Len(v) : y[i] = Kept(v[i])
      /\ z \in Seq(D) /\ Len(z) = Len(w) /\ \A i \in 1..Len(w) : z[i] = Kept(w[i])
  BY <1>2, <1>3, KeptOfType
<1>5. D = Seq(M)
  OBVIOUS
<1> HIDE DEF D
<1>6. PICK t : t = x \o y
  OBVIOUS
<1>7. t \in Seq(D) /\ Len(t) = Len(x) + Len(y)
      /\ (\A i \in 1..Len(x) : t[i] = x[i]) /\ \A i \in 1..Len(y) : t[Len(x) + i] = y[i]
  <2>1. x \in Seq(D) /\ y \in Seq(D)
    BY <1>4
  <2>2. QED
    BY ONLY <1>6, <2>1
<1>8. ASSUME NEW i \in 1..Len(z)
      PROVE  z[i] = t[i]
  <2>1. CASE i \in 1..Len(u)
    <3>1. i \in 1..Len(w)
      BY <1>4
    <3>2. QED
      BY <1>2, <1>4, <1>7, <2>1, <3>1
  <2>2. CASE i \notin 1..Len(u)
    <3>1. PICK k \in 1..Len(v) : i = Len(u) + k
      <4>1. i - Len(u) \in 1..Len(v) /\ i = Len(u) + (i - Len(u))
        BY <1>2, <1>4, <2>2
      <4>2. QED
        BY <4>1
    <3>2. i \in 1..Len(w) /\ i = Len(x) + k /\ k \in 1..Len(y)
      BY <1>4, <3>1
    <3>3. z[i] = Kept(w[i]) /\ w[i] = v[k] /\ t[i] = y[k] /\ y[k] = Kept(v[k])
      BY <1>2, <1>4, <1>7, <3>1, <3>2
    <3>4. QED
      BY <3>3
  <2>3. QED
    BY <2>1, <2>2
<1>9. Len(z) = Len(t)
  BY <1>2, <1>4, <1>7
<1>10. z = t
  BY <1>4, <1>7, <1>8, <1>9, SeqEqual
<1>11. FlattenSeq(x \o y) = FlattenSeq(x) \o FlattenSeq(y)
  BY <1>4, <1>5, FlattenConcat
<1>12. QED
  BY <1>1, <1>3, <1>6, <1>10, <1>11 DEF Keep

LEMMA KeepNone == Keep(<<>>) = <<>>
<1>1. KeptOf(<<>>) = <<>>
  BY DEF KeptOf
<1>2. QED
  BY <1>1, FlattenEmpty DEF Keep

LEMMA KeepOne ==
  ASSUME NEW n
  PROVE  Keep(<<n>>) = Kept(n)
<1>1. KeptOf(<<n>>) = <<Kept(n)>>
  BY DEF KeptOf
<1>2. Kept(n) \in Seq({n})
  BY DEF Kept
<1>3. QED
  BY <1>1, <1>2, FlattenOne DEF Keep

\* The function in Entry.
Enters(g, w) ==
  g = [n \in 0..Len(w) |->
         IF n = 0 THEN <<>>
         ELSE IF w[n] \in {<<>>, <<".">>} THEN g[n - 1]
         ELSE Append(g[n - 1], w[n])]

LEMMA EntersExists ==
  ASSUME NEW M, NEW w \in Seq(M)
  PROVE  Enters([n \in 0..Len(w) |-> Text(KeptOf(w), n)], w)
<1> DEFINE g == [n \in 0..Len(w) |-> Text(KeptOf(w), n)]
           x == KeptOf(w)
<1>1. x \in Seq(Seq(M)) /\ Len(x) = Len(w) /\ Len(w) \in Nat
      /\ \A i \in 1..Len(w) : x[i] = Kept(w[i])
  BY KeptOfType
<1>2. \A n \in 0..Len(w) : g[n] = Text(x, n)
  OBVIOUS
<1> HIDE DEF x
<1>3. Text(x, 0) = <<>> /\ \A n \in 0..Len(w) : Text(x, n) \in Seq(M)
  BY <1>1, TextNone, TextType
<1> DEFINE h(n) == IF n = 0 THEN <<>>
                   ELSE IF w[n] \in {<<>>, <<".">>} THEN g[n - 1]
                   ELSE Append(g[n - 1], w[n])
<1>4. ASSUME NEW n \in 0..Len(w)
      PROVE  g[n] = h(n)
  <2>1. CASE n = 0
    BY <1>2, <1>3, <2>1
  <2>2. CASE n # 0
    <3>1. n \in 1..Len(x) /\ n - 1 \in 0..Len(w) /\ n \in 1..Len(w)
      BY <1>1, <2>2
    <3>2. Text(x, n) = Text(x, n - 1) \o x[n]
      BY <1>1, <3>1, TextNext
    <3>3. PICK y \in Seq(M) : y = Text(x, n - 1)
      BY <1>3, <3>1
    <3>4. g[n] = y \o Kept(w[n]) /\ g[n-1] = y /\ w[n] \in M
      <4>1. x[n] = Kept(w[n]) /\ w[n] \in M
        BY <1>1, <3>1
      <4>2. g[n] = Text(x, n) /\ g[n-1] = Text(x, n-1)
        BY <1>2, <3>1
      <4> HIDE DEF g
      <4>3. QED
        BY <3>2, <3>3, <4>1, <4>2
    <3>5. y \o <<>> = y /\ y \o <<w[n]>> = Append(y, w[n])
      BY <3>3, <3>4
    <3>6. QED
      BY <2>2, <3>4, <3>5 DEF Kept
  <2>3. QED
    BY <2>1, <2>2
<1>5. g = [n \in 0..Len(w) |-> h(n)]
  BY <1>4
<1>6. QED
  BY <1>5 DEF Enters, x

LEMMA EntersUnique ==
  ASSUME NEW M, NEW w \in Seq(M), NEW g, NEW h, Enters(g, w), Enters(h, w), NEW m \in 0..Len(w)
  PROVE  g[m] = h[m]
<1> DEFINE T == {n \in 0..Len(w) : g[n] # h[n]}
<1> SUFFICES ASSUME m \in T
             PROVE  FALSE
  OBVIOUS
<1>1. Len(w) \in Nat /\ T \subseteq Nat
  OBVIOUS
<1>2. PICK n \in T : \A k \in T : n <= k
  <2> HIDE DEF T
  <2>1. QED
    BY <1>1, LeastNat
<1>3. \A k \in 0..Len(w) : /\ g[k] = IF k = 0 THEN <<>>
                                     ELSE IF w[k] \in {<<>>, <<".">>} THEN g[k - 1]
                                     ELSE Append(g[k - 1], w[k])
                           /\ h[k] = IF k = 0 THEN <<>>
                                     ELSE IF w[k] \in {<<>>, <<".">>} THEN h[k - 1]
                                     ELSE Append(h[k - 1], w[k])
  BY DEF Enters
<1>4. n # 0
  BY <1>2, <1>3
<1>5. n - 1 \in 0..Len(w) /\ n - 1 < n
  BY <1>1, <1>2, <1>4
<1>6. n - 1 \notin T
  <2> HIDE DEF T
  <2>1. QED
    BY <1>1, <1>2, <1>5
<1>7. g[n - 1] = h[n - 1]
  BY <1>5, <1>6
<1>8. QED
  BY <1>2, <1>3, <1>4, <1>7

LEMMA EntryIsKeep ==
  ASSUME NEW M, NEW s, Segments(s) \in Seq(M)
  PROVE  Entry(s) = Keep(Segments(s))
<1>1. PICK w \in Seq(M) : w = Segments(s)
  OBVIOUS
<1> DEFINE e == CHOOSE g : Enters(g, w)
           k == [n \in 0..Len(w) |-> Text(KeptOf(w), n)]
<1>2. Enters(k, w)
  BY EntersExists
<1>3. Enters(e, w)
  BY <1>2
<1>4. Entry(s) = e[Len(w)]
  BY <1>1 DEF Entry, Enters
<1>5. Len(w) \in 0..Len(w)
  OBVIOUS
<1> HIDE DEF e
<1>6. e[Len(w)] = k[Len(w)]
  <2> HIDE DEF k
  <2>1. QED
    BY <1>2, <1>3, <1>5, EntersUnique
<1>7. k[Len(w)] = Text(KeptOf(w), Len(KeptOf(w)))
  BY <1>5, KeptOfType
<1>8. FlattenSeq(KeptOf(w)) = Text(KeptOf(w), Len(KeptOf(w)))
  BY KeptOfType, FlattenIsText
<1>9. QED
  BY <1>1, <1>4, <1>6, <1>7, <1>8 DEF Keep

LEMMA KeepAll ==
  ASSUME NEW M, NEW w \in Seq(M), \A i \in 1..Len(w) : w[i] \notin {<<>>, <<".">>}
  PROVE  Keep(w) = w
<1>1. PICK I : I = KeptOf(w)
  OBVIOUS
<1>2. I \in Seq(Seq(M)) /\ Len(I) = Len(w) /\ Len(w) \in Nat
  BY <1>1, KeptOfType
<1>3. \A i \in 1..Len(w) : I[i] = << w[i] >>
  BY <1>1, KeptOfType DEF Kept
<1>4. Text(I, Len(w)) = Text(I, 0) \o SubSeq(w, 0 + 1, Len(w))
  <2>1. 0 \in 0..Len(w) /\ Len(w) \in 0..Len(w) /\ \A i \in (0+1)..Len(w) : I[i] = << w[i] >>
    BY <1>2, <1>3
  <2>2. QED
    BY <1>2, <2>1, TextCopies
<1>5. Text(I, 0) = <<>>
  BY <1>2, TextNone
<1>6. SubSeq(w, 0 + 1, Len(w)) = w /\ <<>> \o w = w
  BY SubSeqFull
<1>7. FlattenSeq(I) = Text(I, Len(w))
  BY <1>2, FlattenIsText
<1>8. QED
  BY <1>1, <1>4, <1>5, <1>6, <1>7 DEF Keep

(***************************************************************************)
(* The entry of p / q.                                                     *)
(***************************************************************************)
Root(s) == IF IsAbsolute(s) THEN << <<"/">> >> ELSE <<>>

Rest(s) == Keep(FileNames(s))

TrailingName(s) == IF FileNames(s) # <<>> /\ Last(s) = "/" THEN << <<>> >> ELSE <<>>

LEMMA SegmentsIs ==
  ASSUME NEW s
  PROVE  Segments(s) = Root(s) \o FileNames(s) \o TrailingName(s)
BY DEF Segments, Root, IsAbsolute, TrailingName

LEMMA PartsType ==
  ASSUME NEW C, "/" \in C, NEW s \in Seq(C)
  PROVE  /\ Root(s) \in Seq(Seq(C)) /\ FileNames(s) \in Seq(Seq(C))
         /\ TrailingName(s) \in Seq(Seq(C)) /\ Segments(s) \in Seq(Seq(C))
<1> DEFINE D == Seq(C)
<1>1. <<"/">> \in D /\ <<>> \in D
  OBVIOUS
<1>2. Names(C) \subseteq D
  BY DEF Names
<1>3. FileNames(s) \in Seq(Names(C))
  BY FileNamesType
<1> HIDE DEF D
<1>4. FileNames(s) \in Seq(D)
  BY <1>2, <1>3
<1>5. Root(s) \in Seq(D) /\ TrailingName(s) \in Seq(D)
  BY <1>1 DEF Root, TrailingName
<1>6. \A x, y \in Seq(D) : x \o y \in Seq(D)
  OBVIOUS
<1>7. Root(s) \o FileNames(s) \o TrailingName(s) \in Seq(D)
  BY <1>4, <1>5, <1>6
<1>8. QED
  BY <1>4, <1>5, <1>7, SegmentsIs DEF D

LEMMA RestType ==
  ASSUME NEW C, "/" \in C, NEW s \in Seq(C)
  PROVE  Rest(s) \in Seq(Seq(C))
<1> DEFINE D == Seq(C)
<1>1. FileNames(s) \in Seq(D)
  BY PartsType
<1> HIDE DEF D
<1>2. Keep(FileNames(s)) \in Seq(D)
  BY <1>1, KeepType
<1>3. QED
  BY <1>2 DEF Rest, D

LEMMA EntryIs ==
  ASSUME NEW C, "/" \in C, NEW s \in Seq(C)
  PROVE  Entry(s) = Root(s) \o Rest(s) /\ Entry(s) \in Seq(Seq(C))
<1> DEFINE D == Seq(C)
<1>1. PICK r \in Seq(D), n \in Seq(D), t \in Seq(D) :
        r = Root(s) /\ n = FileNames(s) /\ t = TrailingName(s)
  BY PartsType
<1>2. Segments(s) = (r \o n) \o t /\ Segments(s) \in Seq(D)
  BY <1>1, SegmentsIs, PartsType
<1> HIDE DEF D
<1>3. Entry(s) = Keep((r \o n) \o t)
  BY <1>2, EntryIsKeep
<1>4. PICK u \in Seq(D) : u = r \o n
  <2>1. \A x, y \in Seq(D) : x \o y \in Seq(D)
    OBVIOUS
  <2>2. QED
    BY <2>1
<1>5. Keep(u \o t) = Keep(u) \o Keep(t)
  BY KeepConcat
<1>6. Keep(r \o n) = Keep(r) \o Keep(n)
  BY KeepConcat
<1>7. Keep(t) = <<>>
  <2>1. Keep(<< <<>> >>) = <<>>
    BY KeepOne DEF Kept
  <2>2. t = <<>> \/ t = << <<>> >>
    BY <1>1 DEF TrailingName
  <2>3. QED
    BY <2>1, <2>2, KeepNone
<1>8. Keep(r) = r
  <2>1. <<"/">> # <<".">> /\ <<"/">> # <<>>
    OBVIOUS
  <2>2. Keep(<< <<"/">> >>) = << <<"/">> >>
    BY <2>1, KeepOne DEF Kept
  <2>3. r = <<>> \/ r = << <<"/">> >>
    BY <1>1 DEF Root
  <2>4. QED
    BY <2>2, <2>3, KeepNone
<1>9. PICK k \in Seq(D) : k = Keep(n)
  BY KeepType
<1>10. PICK e \in Seq(D) : e = r \o k
  <2>1. \A x, y \in Seq(D) : x \o y \in Seq(D)
    OBVIOUS
  <2>2. QED
    BY <2>1
<1>11. e \o <<>> = e
  OBVIOUS
<1>12. Entry(s) = e
  BY <1>3, <1>4, <1>5, <1>6, <1>7, <1>8, <1>9, <1>10, <1>11
<1>13. QED
  BY <1>1, <1>9, <1>10, <1>12 DEF Rest, D

LEMMA NamesEnd ==
  ASSUME NEW C, "/" \in C, NEW a \in Seq(C)
  PROVE  FileNames(a \o <<"/">>) = FileNames(a)
<1>1. PICK x : x = a \o <<"/">>
  OBVIOUS
<1>2. x \in Seq(C) /\ <<>> \in Seq(C)
  <2>1. <<"/">> \in Seq(C)
    OBVIOUS
  <2>2. QED
    BY <1>1, <2>1
<1>3. x \o <<>> = x
  BY <1>2
<1>4. FileNames(a \o <<"/">> \o <<>>) = FileNames(a) \o FileNames(<<>>)
  BY <1>2, NamesSplit
<1> DEFINE D == Seq(C)
<1>5. FileNames(a) \in Seq(D)
  BY PartsType
<1> HIDE DEF D
<1>6. FileNames(a) \o <<>> = FileNames(a)
  BY <1>5
<1>7. QED
  BY <1>1, <1>3, <1>4, <1>6, NamesNone

LEMMA SlashIs ==
  ASSUME NEW C, "/" \in C, NEW p \in Seq(C), NEW q \in Seq(C), p # <<>>, ~IsAbsolute(q)
  PROVE  /\ Slash(p, q) \in Seq(C) /\ Slash(p, q) # <<>>
         /\ FileNames(Slash(p, q)) = FileNames(p) \o FileNames(q)
         /\ Root(Slash(p, q)) = Root(p)
<1>1. <<"/">> \in Seq(C) /\ Len(p) \in Nat /\ Len(p) # 0
  OBVIOUS
<1>2. CASE Last(p) = "/"
  <2>1. Slash(p, q) = p \o q
    BY <1>2 DEF Slash
  <2>2. PICK a \in Seq(C) : p = a \o <<"/">>
    <3>1. PICK a : a = SubSeq(p, 1, Len(p) - 1)
      OBVIOUS
    <3>2. a \in Seq(C) /\ p = Append(a, Last(p))
      BY <1>1, <3>1 DEF Last
    <3>3. Append(a, "/") = a \o <<"/">>
      BY <3>2
    <3>4. QED
      BY <1>2, <3>2, <3>3
  <2>3. FileNames(p) = FileNames(a)
    BY <2>2, NamesEnd
  <2>4. FileNames(p \o q) = FileNames(a) \o FileNames(q)
    BY <2>2, NamesSplit
  <2>5. PICK x : x = p \o q
    OBVIOUS
  <2>6. x \in Seq(C) /\ x # <<>> /\ x[1] = p[1]
    BY <1>1, <2>5
  <2>7. QED
    BY <2>1, <2>3, <2>4, <2>5, <2>6 DEF Root, IsAbsolute
<1>3. CASE Last(p) # "/"
  <2>1. PICK a : a = p \o <<"/">>
    OBVIOUS
  <2>2. a \in Seq(C) /\ Len(a) \in Nat /\ Len(a) # 0 /\ a[1] = p[1]
    BY <1>1, <2>1
  <2>3. Slash(p, q) = a \o q
    BY <1>3, <2>1 DEF Slash
  <2>4. FileNames(a \o q) = FileNames(p) \o FileNames(q)
    BY <2>1, NamesSplit
  <2>5. PICK x : x = a \o q
    OBVIOUS
  <2>6. x \in Seq(C) /\ x # <<>> /\ x[1] = p[1]
    BY <2>2, <2>5
  <2>7. QED
    BY <2>3, <2>4, <2>5, <2>6 DEF Root, IsAbsolute
<1>4. QED
  BY <1>2, <1>3

LEMMA RestSlash ==
  ASSUME NEW C, "/" \in C, NEW p \in Seq(C), NEW q \in Seq(C), p # <<>>, ~IsAbsolute(q)
  PROVE  Rest(Slash(p, q)) = Rest(p) \o Rest(q)
<1> DEFINE D == Seq(C)
<1>1. PICK a \in Seq(D), b \in Seq(D) : a = FileNames(p) /\ b = FileNames(q)
  BY PartsType
<1>2. FileNames(Slash(p, q)) = a \o b
  BY <1>1, SlashIs
<1> HIDE DEF D
<1>3. Keep(a \o b) = Keep(a) \o Keep(b)
  BY KeepConcat
<1>4. QED
  BY <1>1, <1>2, <1>3 DEF Rest

LEMMA EntrySlash ==
  ASSUME NEW C, "/" \in C, NEW p \in Seq(C), NEW q \in Seq(C), p # <<>>, ~IsAbsolute(q)
  PROVE  Entry(Slash(p, q)) = Entry(p) \o Rest(q)
<1> DEFINE D == Seq(C)
<1>1. PICK r \in Seq(D), x \in Seq(D), y \in Seq(D) :
        r = Root(p) /\ x = Rest(p) /\ y = Rest(q)
  BY PartsType, RestType
<1>2. Slash(p, q) \in Seq(C)
  BY SlashIs
<1>3. Entry(Slash(p, q)) = Root(Slash(p, q)) \o Rest(Slash(p, q))
  BY <1>2, EntryIs
<1>4. Root(Slash(p, q)) = r /\ Rest(Slash(p, q)) = x \o y
  BY <1>1, SlashIs, RestSlash
<1>5. Entry(p) = r \o x
  BY <1>1, EntryIs
<1> HIDE DEF D
<1>6. (r \o x) \o y = r \o (x \o y)
  BY ConcatThree
<1>7. QED
  BY <1>1, <1>3, <1>4, <1>5, <1>6

\* What "." in place of p leaves: the file below p.
LEMMA RestDot ==
  ASSUME NEW C, "/" \in C, "." \in C, NEW r \in Seq(C), r = <<>> \/ r[1] = "/"
  PROVE  /\ <<".">> \o r \in Seq(C) /\ ~IsAbsolute(<<".">> \o r)
         /\ Rest(<<".">> \o r) = Rest(r)
         /\ \A p \in Seq(C) : Rest(p \o r) = Rest(p) \o Rest(r)
<1> DEFINE D == Seq(C)
<1>1. <<".">> \in Seq(C)
  OBVIOUS
<1>2. PICK x : x = <<".">> \o r
  OBVIOUS
<1>3. x \in Seq(C) /\ Len(x) # 0 /\ x[1] = "."
  BY <1>1, <1>2
<1>4. ~IsAbsolute(x)
  BY <1>3 DEF IsAbsolute
<1>5. Rest(<<".">>) = <<>>
  <2>1. <<".">> \in Names(C)
    BY <1>1 DEF Names
  <2>2. FileNames(<<".">>) = << <<".">> >>
    BY <2>1, NameSingle
  <2>3. QED
    BY <2>2, KeepOne DEF Rest, Kept
<1>6. ASSUME NEW p \in Seq(C)
      PROVE  Rest(p \o r) = Rest(p) \o Rest(r)
  <2>1. Rest(p) \in Seq(D)
    BY RestType
  <2>2. CASE r = <<>>
    <3>1. p \o r = p /\ Rest(r) = <<>>
      BY <2>2, NamesNone, KeepNone DEF Rest
    <3> HIDE DEF D
    <3>2. Rest(p) \o <<>> = Rest(p)
      BY <2>1
    <3>3. QED
      BY <3>1, <3>2
  <2>3. CASE r # <<>>
    <3>1. PICK t \in Seq(C) : r = <<"/">> \o t
      <4>1. Tail(r) \in Seq(C) /\ r = <<r[1]>> \o Tail(r)
        BY <2>3
      <4>2. QED
        BY <2>3, <4>1
    <3>2. <<"/">> \in Seq(C) /\ <<>> \in Seq(C)
      OBVIOUS
    <3>3. (p \o <<"/">>) \o t = p \o r
      BY <3>1, <3>2, ConcatThree
    <3>4. FileNames(p \o r) = FileNames(p) \o FileNames(t)
      BY <3>3, NamesSplit
    <3>5. <<>> \o <<"/">> \o t = r
      BY <3>1, <3>2
    <3>6. FileNames(r) = FileNames(<<>>) \o FileNames(t)
      BY <3>2, <3>5, NamesSplit
    <3>7. PICK a \in Seq(D), b \in Seq(D) : a = FileNames(p) /\ b = FileNames(t)
      BY PartsType
    <3> HIDE DEF D
    <3>8. FileNames(r) = b
      BY <3>6, <3>7, NamesNone, ConcatEmptySeq, SMTT(20)
    <3>9. Keep(a \o b) = Keep(a) \o Keep(b)
      BY KeepConcat
    <3>10. QED
      BY <3>4, <3>7, <3>8, <3>9 DEF Rest
  <2>4. QED
    BY <2>2, <2>3
<1>7. Rest(x) = Rest(r)
  <2>1. Rest(r) \in Seq(D)
    BY RestType
  <2>2. Rest(x) = <<>> \o Rest(r)
    BY <1>1, <1>2, <1>5, <1>6
  <2> HIDE DEF D
  <2>3. QED
    BY <2>1, <2>2
<1>8. QED
  BY <1>2, <1>3, <1>4, <1>6, <1>7

LEMMA RelocateLemma ==
  ASSUME NEW C, "/" \in C, "." \in C, NEW b \in Seq(C), NEW p \in Seq(C), NEW r \in Seq(C),
         p # <<>>, r = <<>> \/ r[1] = "/"
  PROVE  Entry(Slash(Slash(b, p), <<".">> \o r)) = Entry(Slash(b, p \o r))
<1>1. PICK f : f = p \o r
  OBVIOUS
<1>2. f \in Seq(C) /\ f # <<>> /\ f[1] = p[1]
  BY <1>1
<1>3. Root(f) = Root(p) /\ (IsAbsolute(f) <=> IsAbsolute(p))
  BY <1>2 DEF Root, IsAbsolute
<1>4. PICK x \in Seq(C) : x = <<".">> \o r /\ ~IsAbsolute(x) /\ Rest(x) = Rest(r)
  BY RestDot
<1>5. Rest(f) = Rest(p) \o Rest(r)
  BY <1>1, RestDot
<1>6. PICK u \in Seq(Seq(C)), v \in Seq(Seq(C)), w \in Seq(Seq(C)) : u = Rest(p) /\ v = Rest(r) /\ w = Root(p)
  BY RestType, PartsType
<1>7. CASE IsAbsolute(p) \/ b = <<>>
  <2>1. Slash(b, p) = p /\ Slash(b, f) = f
    BY <1>3, <1>7 DEF Slash
  <2>2. Entry(Slash(p, x)) = Entry(p) \o v
    BY <1>4, <1>6, EntrySlash
  <2>3. Entry(p) = w \o u /\ Entry(f) = w \o (u \o v)
    BY <1>2, <1>3, <1>5, <1>6, EntryIs
  <2>4. Assoc(w, u, v)
    BY <1>6, ConcatAssoc
  <2>5. QED
    BY <1>1, <1>4, <2>1, <2>2, <2>3, <2>4 DEF Assoc
<1>8. CASE ~IsAbsolute(p) /\ b # <<>>
  <2>1. PICK d \in Seq(C) : d = Slash(b, p) /\ d # <<>>
    BY <1>8, SlashIs
  <2>2. Entry(Slash(d, x)) = Entry(d) \o v
    BY <1>4, <1>6, <2>1, EntrySlash
  <2>3. Entry(d) = Entry(b) \o u
    BY <1>6, <1>8, <2>1, EntrySlash
  <2>4. Entry(Slash(b, f)) = Entry(b) \o (u \o v)
    BY <1>2, <1>3, <1>5, <1>6, <1>8, EntrySlash
  <2>5. Entry(b) \in Seq(Seq(C))
    BY EntryIs
  <2>6. Assoc(Entry(b), u, v)
    BY <1>6, <2>5, ConcatAssoc
  <2>7. QED
    BY <1>1, <1>4, <2>1, <2>2, <2>3, <2>4, <2>6 DEF Assoc
<1>9. QED
  BY <1>7, <1>8

LEMMA NoPrefixLemma ==
  ASSUME NEW C, "/" \in C, NEW b \in Seq(C), NEW f \in Seq(C)
  PROVE  Entry(Slash(Slash(b, <<>>), f)) = Entry(Slash(b, f))
<1> DEFINE D == Seq(C)
<1>1. ~IsAbsolute(<<>>) /\ <<>> \in Seq(C)
  BY DEF IsAbsolute
<1>2. CASE IsAbsolute(f) \/ b = <<>>
  BY <1>2 DEF Slash
<1>3. CASE ~IsAbsolute(f) /\ b # <<>>
  <2>1. PICK d \in Seq(C) : d = Slash(b, <<>>) /\ d # <<>>
    BY <1>1, <1>3, SlashIs
  <2>2. Entry(Slash(d, f)) = Entry(d) \o Rest(f) /\ Entry(Slash(b, f)) = Entry(b) \o Rest(f)
    BY <1>3, <2>1, EntrySlash
  <2>3. Entry(d) = Entry(b) \o <<>>
    BY <1>1, <1>3, <2>1, EntrySlash, NamesNone, KeepNone DEF Rest
  <2>4. Entry(b) \in Seq(D)
    BY EntryIs
  <2> HIDE DEF D
  <2>5. Entry(b) \o <<>> = Entry(b)
    BY <2>4
  <2>6. QED
    BY <2>1, <2>2, <2>3, <2>5
<1>4. QED
  BY <1>2, <1>3

LEMMA RootSegment ==
  ASSUME NEW C, "/" \in C, NEW s \in Seq(C)
  PROVE  IsAbsolute(s) <=> Segments(s) # <<>> /\ Segments(s)[1] = <<"/">>
<1> DEFINE D == Seq(C)
<1>1. /\ Root(s) \in Seq(D) /\ FileNames(s) \in Seq(D) /\ TrailingName(s) \in Seq(D)
      /\ FileNames(s) \in Seq(Names(C))
  BY PartsType, FileNamesType
<1>2. Segments(s) = (Root(s) \o FileNames(s)) \o TrailingName(s)
  BY SegmentsIs
<1>3. \A n \in Names(C) : n # <<"/">>
  <2>1. Len(<<"/">>) = 1 /\ <<"/">>[1] = "/"
    OBVIOUS
  <2>2. SUFFICES ASSUME NEW n \in Names(C), n = <<"/">>
                 PROVE  FALSE
    OBVIOUS
  <2>3. 1 \in 1..Len(n) /\ n[1] = "/"
    BY <2>1, <2>2
  <2>4. QED
    BY <2>3 DEF Names
<1>4. CASE IsAbsolute(s)
  <2>1. Root(s) = << <<"/">> >>
    BY <1>4 DEF Root
  <2>2. PICK r, f, t : r = Root(s) /\ f = FileNames(s) /\ t = TrailingName(s)
    OBVIOUS
  <2> HIDE DEF D
  <2>3. r \in Seq(D) /\ f \in Seq(D) /\ t \in Seq(D) /\ r # <<>> /\ r[1] = <<"/">>
    BY <1>1, <2>1, <2>2
  <2>4. (r \o f) \o t # <<>> /\ ((r \o f) \o t)[1] = r[1]
    BY <2>3
  <2>5. QED
    BY <1>2, <1>4, <2>2, <2>3, <2>4
<1>5. CASE ~IsAbsolute(s) /\ FileNames(s) = <<>>
  <2>1. Root(s) = <<>> /\ TrailingName(s) = <<>>
    BY <1>5 DEF Root, TrailingName
  <2>2. Segments(s) = <<>>
    BY <1>2, <1>5, <2>1
  <2>3. QED
    BY <1>5, <2>2
<1>6. CASE ~IsAbsolute(s) /\ FileNames(s) # <<>>
  <2>1. Root(s) = <<>>
    BY <1>6 DEF Root
  <2>2. PICK f, t : f = FileNames(s) /\ t = TrailingName(s)
    OBVIOUS
  <2>3. f[1] \in Names(C)
    BY <1>1, <1>6, <2>2
  <2> HIDE DEF D
  <2>4. f \in Seq(D) /\ t \in Seq(D) /\ f # <<>>
    BY <1>1, <1>6, <2>2
  <2>5. (<<>> \o f) \o t # <<>> /\ ((<<>> \o f) \o t)[1] = f[1]
    BY <2>4
  <2>6. QED
    BY <1>2, <1>3, <1>6, <2>1, <2>2, <2>3, <2>5
<1>7. QED
  BY <1>4, <1>5, <1>6

LEMMA SlashType ==
  ASSUME NEW C, "/" \in C, NEW a \in Seq(C), NEW b \in Seq(C)
  PROVE  Slash(a, b) \in Seq(C) /\ (IsAbsolute(a) => IsAbsolute(Slash(a, b)))
<1>1. CASE IsAbsolute(b) \/ a = <<>>
  BY <1>1 DEF Slash, IsAbsolute
<1>2. CASE ~IsAbsolute(b) /\ a # <<>>
  <2>1. <<"/">> \in Seq(C)
    OBVIOUS
  <2>2. PICK x : x = a \o b
    OBVIOUS
  <2>3. PICK y : y = a \o <<"/">>
    OBVIOUS
  <2>4. PICK z : z = y \o b
    OBVIOUS
  <2>5. x \in Seq(C) /\ x # <<>> /\ x[1] = a[1]
    BY <1>2, <2>2
  <2>6. y \in Seq(C) /\ y # <<>> /\ y[1] = a[1]
    BY <1>2, <2>1, <2>3
  <2>7. z \in Seq(C) /\ z # <<>> /\ z[1] = y[1]
    BY <2>4, <2>6
  <2>8. Slash(a, b) \in {x, z}
    BY <1>2, <2>2, <2>3, <2>4 DEF Slash
  <2>9. QED
    BY <2>5, <2>6, <2>7, <2>8 DEF IsAbsolute
<1>3. QED
  BY <1>1, <1>2

LEMMA AbsoluteStays ==
  ASSUME NEW d, NEW a, IsAbsolute(a)
  PROVE  Slash(d, a) = a
BY DEF Slash

(***************************************************************************)
(* The prefix that SearchPrefix builds.                                    *)
(***************************************************************************)
\* The function in Joined, for the first m segments.
Joins(g, w, m) ==
  g = [n \in 0..m |-> IF n = 0 THEN <<>> ELSE Slash(g[n - 1], w[n])]

LEMMA JoinsAt ==
  ASSUME NEW w, NEW m, NEW g, Joins(g, w, m), NEW n \in 0..m
  PROVE  g[n] = IF n = 0 THEN <<>> ELSE Slash(g[n - 1], w[n])
BY DEF Joins

LEMMA JoinsExists ==
  ASSUME NEW w, NEW m \in Nat
  PROVE  \E g : Joins(g, w, m)
<1> DEFINE T == {k \in Nat : ~\E g : Joins(g, w, k)}
<1> SUFFICES ASSUME m \in T
             PROVE  FALSE
  OBVIOUS
<1>1. PICK k \in T : \A l \in T : k <= l
  BY LeastNat
<1>2. k # 0
  <2>1. Joins([n \in 0..0 |-> <<>>], w, 0)
    BY DEF Joins
  <2>2. QED
    BY <2>1
<1>3. k \in Nat /\ k - 1 \in Nat /\ k - 1 \notin T
  BY <1>1, <1>2
<1>4. PICK g : Joins(g, w, k - 1)
  BY <1>3
<1> DEFINE h == [n \in 0..k |-> IF n = 0 THEN <<>> ELSE Slash(g[n - 1], w[n])]
<1>5. \A n \in 0..k : n # 0 => h[n-1] = g[n-1]
  <2>1. SUFFICES ASSUME NEW n \in 0..k, n # 0
                 PROVE  h[n-1] = g[n-1]
    OBVIOUS
  <2>2. n - 1 \in 0..(k-1) /\ n - 1 \in 0..k
    BY <1>3, <2>1
  <2>3. g[n-1] = IF n - 1 = 0 THEN <<>> ELSE Slash(g[(n-1)-1], w[n-1])
    BY <1>3, <1>4, <2>2, JoinsAt
  <2>4. QED
    BY <2>2, <2>3
<1>6. h = [n \in 0..k |-> IF n = 0 THEN <<>> ELSE Slash(h[n - 1], w[n])]
  <2>1. \A n \in 0..k : (IF n = 0 THEN <<>> ELSE Slash(g[n - 1], w[n]))
                        = (IF n = 0 THEN <<>> ELSE Slash(h[n - 1], w[n]))
    BY <1>5
  <2>2. QED
    BY <2>1
<1>7. Joins(h, w, k)
  BY <1>6 DEF Joins
<1>8. QED
  BY <1>1, <1>7

LEMMA JoinsUnique ==
  ASSUME NEW w, NEW v, NEW n \in Nat, NEW m \in Nat, n <= m,
         NEW g, NEW h, Joins(g, w, n), Joins(h, v, m),
         \A i \in 1..n : w[i] = v[i]
  PROVE  \A i \in 0..n : g[i] = h[i]
<1> DEFINE T == {i \in 0..n : g[i] # h[i]}
<1> SUFFICES ASSUME NEW k \in T
             PROVE  FALSE
  OBVIOUS
<1>1. PICK i \in T : \A j \in T : i <= j
  <2>1. T \subseteq Nat
    OBVIOUS
  <2> HIDE DEF T
  <2>2. QED
    BY <2>1, LeastNat
<1>2. i \in 0..n /\ i \in 0..m
  BY <1>1
<1>3. /\ g[i] = IF i = 0 THEN <<>> ELSE Slash(g[i-1], w[i])
      /\ h[i] = IF i = 0 THEN <<>> ELSE Slash(h[i-1], v[i])
  BY <1>2, JoinsAt
<1>4. i # 0
  BY <1>1, <1>3
<1>5. i - 1 \in 0..n /\ i - 1 \notin T
  BY <1>1, <1>4
<1>6. g[i-1] = h[i-1] /\ w[i] = v[i]
  BY <1>2, <1>4, <1>5
<1>7. QED
  BY <1>1, <1>3, <1>4, <1>6

LEMMA JoinedIs ==
  ASSUME NEW M, NEW w \in Seq(M)
  PROVE  \E g : Joins(g, w, Len(w)) /\ Joined(w) = g[Len(w)]
<1> DEFINE f == CHOOSE g : Joins(g, w, Len(w))
<1>1. Joins(f, w, Len(w))
  <2>1. Len(w) \in Nat
    OBVIOUS
  <2>2. QED
    BY <2>1, JoinsExists
<1>2. Joined(w) = f[Len(w)]
  BY DEF Joined, Joins
<1>3. QED
  BY <1>1, <1>2

LEMMA JoinedNone == Joined(<<>>) = <<>>
<1>1. <<>> \in Seq({}) /\ Len(<<>>) = 0
  OBVIOUS
<1>2. PICK g : Joins(g, <<>>, 0) /\ Joined(<<>>) = g[0]
  BY <1>1, JoinedIs
<1>3. g[0] = <<>>
  BY <1>2, JoinsAt
<1>4. QED
  BY <1>2, <1>3

LEMMA JoinedStep ==
  ASSUME NEW M, NEW w \in Seq(M), NEW x \in M
  PROVE  Joined(Append(w, x)) = Slash(Joined(w), x)
<1>1. PICK n \in Nat, m \in Nat : n = Len(w) /\ m = n + 1
  OBVIOUS
<1>2. PICK v : v = Append(w, x)
  OBVIOUS
<1>3. v \in Seq(M) /\ Len(v) = m /\ v[m] = x /\ \A i \in 1..n : w[i] = v[i]
  BY <1>1, <1>2
<1>4. PICK g : Joins(g, w, n) /\ Joined(w) = g[n]
  BY <1>1, JoinedIs
<1>5. PICK h : Joins(h, v, m) /\ Joined(v) = h[m]
  BY <1>3, JoinedIs
<1>6. n <= m /\ n \in 0..n /\ m \in 0..m /\ m # 0 /\ m - 1 = n
  BY <1>1
<1>7. \A i \in 0..n : g[i] = h[i]
  BY <1>3, <1>4, <1>5, <1>6, JoinsUnique
<1>8. h[m] = Slash(h[m - 1], v[m])
  BY <1>5, <1>6, JoinsAt
<1>9. QED
  BY <1>2, <1>3, <1>4, <1>5, <1>6, <1>7, <1>8

(***************************************************************************)
(* Sequences of segments as the iteration of a path yields them: a root    *)
(* only in front, an empty name only behind a name at the end.             *)
(***************************************************************************)
Segment(C, w, i) ==
  \/ w[i] \in Names(C)
  \/ i = 1 /\ w[i] = <<"/">>
  \/ i = Len(w) /\ i # 1 /\ w[i] = <<>> /\ w[i-1] \in Names(C)

IsPath(C, w) == w \in Seq(Seq(C)) /\ \A i \in 1..Len(w) : Segment(C, w, i)

LEMMA SegmentsPath ==
  ASSUME NEW C, "/" \in C, NEW s \in Seq(C)
  PROVE  IsPath(C, Segments(s))
<1> DEFINE D == Seq(C)
<1>1. PICK r \in Seq(D), n \in Seq(D), t \in Seq(D) :
        r = Root(s) /\ n = FileNames(s) /\ t = TrailingName(s)
  BY PartsType
<1>2. PICK k \in Nat, l \in Nat, m \in Nat : k = Len(r) /\ l = Len(n) /\ m = Len(t)
  BY <1>1
<1>3. n \in Seq(Names(C))
  BY <1>1, FileNamesType
<1>4. \A i \in 1..l : n[i] \in Names(C)
  BY <1>2, <1>3
<1>5. k = 0 \/ (k = 1 /\ r[1] = <<"/">>)
  BY <1>1, <1>2 DEF Root
<1>6. m = 0 \/ (m = 1 /\ l # 0 /\ t[1] = <<>>)
  BY <1>1, <1>2 DEF TrailingName
<1> HIDE DEF D
<1>7. PICK u \in Seq(D) : u = r \o n
  <2>1. \A x, y \in Seq(D) : x \o y \in Seq(D)
    OBVIOUS
  <2>2. QED
    BY <2>1
<1>8. Len(u) = k + l /\ (\A i \in 1..k : u[i] = r[i]) /\ \A i \in 1..l : u[k + i] = n[i]
  BY <1>2, <1>7
<1>9. PICK w \in Seq(D) : w = u \o t
  <2>1. \A x, y \in Seq(D) : x \o y \in Seq(D)
    OBVIOUS
  <2>2. QED
    BY <2>1
<1>10. Len(w) = (k + l) + m /\ (\A i \in 1..(k + l) : w[i] = u[i])
       /\ \A i \in 1..m : w[(k + l) + i] = t[i]
  <2>1. PICK p \in Nat : p = k + l /\ Len(u) = p
    BY <1>2, <1>8
  <2>2. Len(w) = p + m /\ (\A i \in 1..p : w[i] = u[i]) /\ \A i \in 1..m : w[p + i] = t[i]
    BY ONLY <1>2, <1>7, <1>9, <2>1, t \in Seq(D)
  <2>3. QED
    BY <2>1, <2>2
<1>11. w = Segments(s)
  BY <1>1, <1>7, <1>9, SegmentsIs
<1>12. ASSUME NEW i \in 1..Len(w)
       PROVE  Segment(C, w, i)
  <2>1. CASE i \in 1..k
    <3>1. i = 1 /\ w[i] = <<"/">>
      <4>1. i = 1 /\ k = 1 /\ i \in 1..(k + l)
        BY <1>2, <1>5, <2>1, SMTT(20)
      <4>2. QED
        BY <1>5, <1>8, <1>10, <2>1, <4>1
    <3>2. QED
      BY <3>1 DEF Segment
  <2>2. \A j \in 1..l : k + j \in 1..(k + l) /\ w[k + j] = n[j]
    <3>1. \A j \in 1..l : k + j \in 1..(k + l)
      BY <1>2
    <3>2. QED
      BY <1>8, <1>10, <3>1
  <2>3. CASE i \in (k+1)..(k+l)
    <3>1. i - k \in 1..l /\ i = k + (i - k)
      BY <1>2, <2>3
    <3>2. w[i] \in Names(C)
      BY <1>4, <2>2, <3>1
    <3>3. QED
      BY <3>2 DEF Segment
  <2>4. CASE i > k + l
    <3>1. m = 1 /\ l # 0 /\ i = (k + l) + 1 /\ i = Len(w) /\ i # 1 /\ l \in 1..l /\ i - 1 = k + l
      <4>1. PICK z \in Nat : z = Len(w) /\ z = (k + l) + m
        BY <1>10
      <4>2. i \in 1..z /\ i > k + l
        BY <2>4, <4>1
      <4>3. m = 1 /\ l # 0
        BY <1>6, <4>1, <4>2
      <4>4. QED
        BY <4>1, <4>2, <4>3
    <3>2. w[i] = <<>>
      BY <1>6, <1>10, <3>1
    <3>3. w[i-1] \in Names(C)
      BY <1>4, <2>2, <3>1
    <3>4. QED
      BY <3>1, <3>2, <3>3 DEF Segment
  <2>5. i \in 1..k \/ i \in (k+1)..(k+l) \/ i > k + l
    BY <1>2, <1>10
  <2>6. QED
    BY <2>1, <2>3, <2>4, <2>5
<1>13. QED
  BY <1>11, <1>12 DEF IsPath, D

LEMMA PathFront ==
  ASSUME NEW C, NEW w, IsPath(C, w), w # <<>>
  PROVE  \E v, x : /\ IsPath(C, v) /\ x \in Seq(C) /\ w = Append(v, x)
                   /\ \A i \in 1..Len(v) : v[i] # <<>>
                   /\ \/ x \in Names(C)
                      \/ v = <<>> /\ x = <<"/">>
                      \/ v # <<>> /\ x = <<>> /\ v[Len(v)] \in Names(C)
<1> DEFINE D == Seq(C)
<1>1. w \in Seq(D) /\ \A i \in 1..Len(w) : Segment(C, w, i)
  BY DEF IsPath
<1>2. PICK n \in Nat : n = Len(w) /\ n # 0
  BY <1>1
<1>3. PICK v : v = SubSeq(w, 1, n - 1)
  OBVIOUS
<1> HIDE DEF D
<1>4. v \in Seq(D) /\ Len(v) = n - 1 /\ w = Append(v, w[n]) /\ w[n] \in D
      /\ \A i \in 1..(n-1) : v[i] = w[i]
  BY <1>1, <1>2, <1>3
<1>5. ASSUME NEW i \in 1..Len(v)
      PROVE  v[i] # <<>> /\ Segment(C, v, i)
  <2>1. i \in 1..n /\ i # n /\ i \in 1..(n-1)
    BY <1>2, <1>4
  <2>2. w[i] \in Names(C) \/ (i = 1 /\ w[i] = <<"/">>)
    BY <1>1, <1>2, <2>1 DEF Segment
  <2>3. v[i] \in Names(C) \/ (i = 1 /\ v[i] = <<"/">>)
    BY <1>4, <2>1, <2>2
  <2>4. QED
    BY <2>3 DEF Names, Segment
<1>6. IsPath(C, v)
  BY <1>4, <1>5 DEF IsPath, D
<1>7. \/ w[n] \in Names(C)
      \/ v = <<>> /\ w[n] = <<"/">>
      \/ v # <<>> /\ w[n] = <<>> /\ v[Len(v)] \in Names(C)
  <2>1. n \in 1..Len(w)
    BY <1>2
  <2>2. Segment(C, w, n)
    BY <1>1, <2>1
  <2>3. n = 1 => v = <<>>
    BY <1>4
  <2>4. n # 1 => v # <<>> /\ v[Len(v)] = w[n-1]
    <3>1. n # 1 => Len(v) # 0 /\ Len(v) \in 1..(n-1)
      BY <1>2, <1>4
    <3>2. QED
      BY <1>4, <3>1
  <2>5. QED
    BY <1>2, <2>2, <2>3, <2>4 DEF Segment
<1>8. QED
  BY <1>4, <1>5, <1>6, <1>7 DEF D

\* Without the empty name behind a trailing slash.
Plain(w) == IF w # <<>> /\ w[Len(w)] = <<>> THEN SubSeq(w, 1, Len(w) - 1) ELSE w

JoinedFacts(C, w) ==
  /\ Joined(w) \in Seq(C)
  /\ Joined(w) = <<>> <=> w = <<>>
  /\ Root(Joined(w)) \o FileNames(Joined(w)) = Plain(w)
  /\ w # <<>> => (Last(Joined(w)) = "/" <=> w[Len(w)] \notin Names(C))

LEMMA LastName ==
  ASSUME NEW C, "/" \in C, NEW p \in Seq(C), NEW x \in Names(C)
  PROVE  ~IsAbsolute(x) /\ Last(Slash(p, x)) # "/"
<1>1. x \in Seq(C) /\ Len(x) \in Nat /\ Len(x) # 0 /\ \A i \in 1..Len(x) : x[i] # "/"
  BY DEF Names
<1>2. ~IsAbsolute(x)
  BY <1>1 DEF IsAbsolute
<1>3. Last(x) # "/"
  BY <1>1 DEF Last
<1>4. \A a \in Seq(C) : Last(a \o x) = Last(x)
  BY <1>1 DEF Last
<1>5. <<"/">> \in Seq(C)
  OBVIOUS
<1>6. p \o <<"/">> \in Seq(C)
  BY <1>5
<1>7. QED
  BY <1>2, <1>3, <1>4, <1>6 DEF Slash

LEMMA AppendFacts ==
  ASSUME NEW M, NEW v \in Seq(M), NEW x \in M, NEW w, w = Append(v, x)
  PROVE  /\ w \in Seq(M) /\ w # <<>> /\ w[Len(w)] = x /\ SubSeq(w, 1, Len(w) - 1) = v
         /\ Len(w) = Len(v) + 1 /\ v \o <<x>> = w
<1>1. PICK n \in Nat : n = Len(v)
  OBVIOUS
<1>2. w \in Seq(M) /\ Len(w) = n + 1 /\ w[n + 1] = x /\ \A i \in 1..n : w[i] = v[i]
  BY <1>1
<1>3. PICK u : u = SubSeq(w, 1, n)
  OBVIOUS
<1>4. u \in Seq(M) /\ Len(u) = n /\ \A i \in 1..n : u[i] = w[i]
  BY <1>2, <1>3
<1>5. u = v
  BY <1>1, <1>2, <1>4, SeqEqual
<1>6. (n + 1) - 1 = n
  OBVIOUS
<1>7. v \o <<x>> = w
  OBVIOUS
<1>8. QED
  BY <1>1, <1>2, <1>3, <1>5, <1>6, <1>7

LEMMA JoinedFactsStep ==
  ASSUME NEW C, "/" \in C, NEW v, NEW x \in Seq(C), IsPath(C, v), JoinedFacts(C, v),
         \A i \in 1..Len(v) : v[i] # <<>>,
         \/ x \in Names(C)
         \/ v = <<>> /\ x = <<"/">>
         \/ v # <<>> /\ x = <<>> /\ v[Len(v)] \in Names(C)
  PROVE  JoinedFacts(C, Append(v, x))
<1> DEFINE D == Seq(C)
<1>1. v \in Seq(D)
  BY DEF IsPath
<1>2. PICK w : w = Append(v, x)
  OBVIOUS
<1>3. PICK p \in Seq(C), j \in Seq(C) : p = Joined(v) /\ j = Joined(w) /\ j = Slash(p, x)
  <2>1. Joined(v) \in Seq(C)
    BY DEF JoinedFacts
  <2>2. Joined(w) = Slash(Joined(v), x)
    <3> HIDE DEF D
    <3>1. x \in D
      BY DEF D
    <3>2. QED
      BY <1>1, <1>2, <3>1, JoinedStep
  <2>3. \A a, b \in Seq(C) : a \o b \in Seq(C) /\ a \o <<"/">> \o b \in Seq(C)
    <3>1. <<"/">> \in Seq(C)
      OBVIOUS
    <3>2. \A a, b \in Seq(C) : a \o b \in Seq(C)
      OBVIOUS
    <3>3. QED
      BY <3>1, <3>2
  <2>4. Slash(Joined(v), x) \in Seq(C)
    BY <2>1, <2>3 DEF Slash
  <2>5. QED
    BY <2>1, <2>2, <2>4
<1>4. Plain(v) = v
  <2>1. v # <<>> => Len(v) \in 1..Len(v)
    BY <1>1
  <2>2. QED
    BY <2>1 DEF Plain
<1>5. Root(p) \o FileNames(p) = v /\ (p = <<>> <=> v = <<>>)
      /\ (v # <<>> => (Last(p) = "/" <=> v[Len(v)] \notin Names(C)))
  BY <1>3, <1>4 DEF JoinedFacts
<1>6. w \in Seq(D) /\ w # <<>> /\ w[Len(w)] = x /\ SubSeq(w, 1, Len(w) - 1) = v
  <2>1. x \in D
    OBVIOUS
  <2> HIDE DEF D
  <2>2. QED
    BY <1>1, <1>2, <2>1, AppendFacts
<1>7. PICK r \in Seq(D), f \in Seq(D) : r = Root(p) /\ f = FileNames(p)
  BY PartsType
<1>8. CASE x \in Names(C)
  <2>1. ~IsAbsolute(x) /\ Last(j) # "/"
    BY <1>3, <1>8, LastName
  <2>2. FileNames(x) = <<x>>
    BY <1>8, NameSingle
  <2>3. x # <<>>
    BY <1>8 DEF Names
  <2>4. Plain(w) = w
    BY <1>6, <2>3 DEF Plain
  <2>5. CASE v = <<>>
    <3>1. j = x /\ w = <<x>>
      BY <1>2, <1>3, <1>5, <2>5 DEF Slash
    <3>2. Root(j) = <<>>
      BY <2>1, <3>1 DEF Root
    <3>3. <<>> \o <<x>> = <<x>>
      OBVIOUS
    <3>4. QED
      BY <1>2, <1>3, <1>6, <1>8, <2>1, <2>2, <2>3, <2>4, <3>1, <3>2, <3>3 DEF JoinedFacts
  <2>6. CASE v # <<>>
    <3>1. j # <<>> /\ FileNames(j) = f \o <<x>> /\ Root(j) = r
      <4>1. p # <<>>
        BY <1>5, <2>6
      <4>2. Slash(p, x) # <<>> /\ FileNames(Slash(p, x)) = FileNames(p) \o FileNames(x)
            /\ Root(Slash(p, x)) = Root(p)
        BY <2>1, <4>1, SlashIs
      <4>3. QED
        BY <1>3, <1>7, <2>2, <4>2
    <3>2. <<x>> \in Seq(D)
      OBVIOUS
    <3>3. Assoc(r, f, <<x>>)
      BY <1>7, <3>2, ConcatAssoc
    <3>4. r \o (f \o <<x>>) = v \o <<x>>
      BY <1>5, <1>7, <3>3 DEF Assoc
    <3>5. v \o <<x>> = w
      <4>1. x \in D
        OBVIOUS
      <4> HIDE DEF D
      <4>2. QED
        BY <1>1, <1>2, <4>1
    <3>6. QED
      BY <1>2, <1>3, <1>6, <1>8, <2>1, <2>4, <3>1, <3>4, <3>5 DEF JoinedFacts
  <2>7. QED
    BY <2>5, <2>6
<1>9. CASE v = <<>> /\ x = <<"/">>
  <2>1. j = <<"/">> /\ w = << <<"/">> >>
    BY <1>2, <1>3, <1>5, <1>9 DEF Slash
  <2>2. Root(j) = << <<"/">> >> /\ Last(j) = "/" /\ j # <<>>
    BY <2>1 DEF Root, IsAbsolute, Last
  <2>3. FileNames(j) = <<>>
    <3>1. <<>> \in Seq(C) /\ <<>> \o <<"/">> = <<"/">>
      OBVIOUS
    <3>2. FileNames(<<>> \o <<"/">>) = FileNames(<<>>)
      BY <3>1, NamesEnd
    <3>3. QED
      BY <2>1, <3>1, <3>2, NamesNone
  <2>4. Plain(w) = w
    BY <2>1 DEF Plain
  <2>5. << <<"/">> >> \o <<>> = << <<"/">> >>
    OBVIOUS
  <2>6. w[Len(w)] \notin Names(C)
    BY <1>6, <1>9 DEF Names
  <2>7. QED
    BY <1>2, <1>3, <1>6, <2>1, <2>2, <2>3, <2>4, <2>5, <2>6 DEF JoinedFacts
<1>10. CASE v # <<>> /\ x = <<>> /\ v[Len(v)] \in Names(C)
  <2>1. Last(p) # "/" /\ p # <<>> /\ ~IsAbsolute(x)
    BY <1>5, <1>10 DEF IsAbsolute
  <2>2. j # <<>> /\ FileNames(j) = f \o <<>> /\ Root(j) = r
    <3>1. Slash(p, x) # <<>> /\ FileNames(Slash(p, x)) = FileNames(p) \o FileNames(x)
          /\ Root(Slash(p, x)) = Root(p)
      BY <2>1, SlashIs
    <3>2. QED
      BY <1>3, <1>7, <1>10, <3>1, NamesNone
  <2>3. f \o <<>> = f
    <3> HIDE DEF D
    <3>1. QED
      BY <1>7
  <2>4. Plain(w) = v
    BY <1>6, <1>10 DEF Plain
  <2>5. Last(j) = "/"
    <3>1. PICK a : a = p \o <<"/">>
      OBVIOUS
    <3>2. j = a \o <<>>
      BY <1>3, <1>10, <2>1, <3>1 DEF Slash
    <3>3. a \in Seq(C) /\ Last(a) = "/"
      BY <3>1 DEF Last
    <3>4. QED
      BY <3>2, <3>3
  <2>6. w[Len(w)] \notin Names(C)
    BY <1>6, <1>10 DEF Names
  <2>7. QED
    BY <1>2, <1>3, <1>5, <1>6, <1>7, <2>2, <2>3, <2>4, <2>5, <2>6 DEF JoinedFacts
<1>11. QED
  BY <1>8, <1>9, <1>10

LEMMA JoinedPath ==
  ASSUME NEW C, "/" \in C, NEW w, IsPath(C, w)
  PROVE  JoinedFacts(C, w)
<1> DEFINE Fails(n, u) == IsPath(C, u) /\ Len(u) = n /\ ~JoinedFacts(C, u)
           T == {n \in Nat : \E u : Fails(n, u)}
<1>1. Len(w) \in Nat
  BY DEF IsPath
<1> SUFFICES ASSUME NEW n \in T
             PROVE  FALSE
  BY <1>1
<1>2. PICK m \in T : \A k \in T : m <= k
  BY LeastNat
<1>3. PICK u : IsPath(C, u) /\ Len(u) = m /\ ~JoinedFacts(C, u)
  BY <1>2
<1>4. u # <<>>
  <2>1. SUFFICES ASSUME u = <<>>
                 PROVE  JoinedFacts(C, <<>>)
    BY <1>3
  <2>2. Joined(<<>>) = <<>> /\ <<>> \in Seq(C)
    BY JoinedNone
  <2>3. Root(<<>>) = <<>> /\ Plain(<<>>) = <<>> /\ FileNames(<<>>) = <<>> /\ <<>> \o <<>> = <<>>
    BY NamesNone DEF Root, IsAbsolute, Plain
  <2>4. QED
    BY <2>2, <2>3 DEF JoinedFacts
<1>5. PICK v, x : /\ IsPath(C, v) /\ x \in Seq(C) /\ u = Append(v, x)
                  /\ \A i \in 1..Len(v) : v[i] # <<>>
                  /\ \/ x \in Names(C)
                     \/ v = <<>> /\ x = <<"/">>
                     \/ v # <<>> /\ x = <<>> /\ v[Len(v)] \in Names(C)
  BY <1>3, <1>4, PathFront
<1>6. Len(v) \in Nat /\ Len(v) < m
  <2>1. v \in Seq(Seq(C))
    BY <1>5 DEF IsPath
  <2> DEFINE D == Seq(C)
  <2>2. v \in Seq(D) /\ x \in D
    BY <1>5, <2>1
  <2> HIDE DEF D
  <2>3. QED
    BY <1>3, <1>5, <2>2
<1>7. JoinedFacts(C, v)
  <2>1. Len(v) \notin T
    <3> HIDE DEF T
    <3>1. m \in Nat
      BY <1>2 DEF T
    <3>2. QED
      BY <1>2, <1>6, <3>1
  <2>2. ~Fails(Len(v), v)
    BY <1>6, <2>1
  <2>3. QED
    BY <1>5, <2>2
<1>8. JoinedFacts(C, u)
  BY <1>5, <1>7, JoinedFactsStep
<1>9. QED
  BY <1>3, <1>8

LEMMA SegmentsJoined ==
  ASSUME NEW C, "/" \in C, NEW w, IsPath(C, w)
  PROVE  Segments(Joined(w)) = w
<1> DEFINE D == Seq(C)
<1>1. w \in Seq(D)
  BY DEF IsPath
<1>2. PICK j \in Seq(C) : j = Joined(w)
  BY JoinedPath DEF JoinedFacts
<1>3. PICK r \in Seq(D), f \in Seq(D), t \in Seq(D) :
        r = Root(j) /\ f = FileNames(j) /\ t = TrailingName(j)
  BY PartsType
<1>4. Segments(j) = r \o f \o t
  BY <1>3, SegmentsIs
<1>5. r \o f = Plain(w) /\ (w # <<>> => (Last(j) = "/" <=> w[Len(w)] \notin Names(C)))
      /\ (j = <<>> <=> w = <<>>)
  <2>1. JoinedFacts(C, w)
    BY JoinedPath
  <2>2. QED
    BY <1>2, <1>3, <2>1 DEF JoinedFacts
<1>6. CASE w = <<>>
  <2>1. r = <<>> /\ f = <<>> /\ t = <<>>
    BY <1>3, <1>5, <1>6, NamesNone DEF Root, IsAbsolute, TrailingName
  <2>2. QED
    BY <1>2, <1>4, <1>6, <2>1
<1>7. CASE w # <<>>
  <2>1. PICK v, x : /\ IsPath(C, v) /\ x \in Seq(C) /\ w = Append(v, x)
                    /\ \A i \in 1..Len(v) : v[i] # <<>>
                    /\ \/ x \in Names(C)
                       \/ v = <<>> /\ x = <<"/">>
                       \/ v # <<>> /\ x = <<>> /\ v[Len(v)] \in Names(C)
    BY <1>7, PathFront
  <2>2. v \in Seq(D) /\ x \in D
    BY <2>1 DEF IsPath
  <2> HIDE DEF D
  <2>3. w[Len(w)] = x /\ SubSeq(w, 1, Len(w) - 1) = v
    BY <2>1, <2>2, AppendFacts
  <2>4. w \o <<>> = w /\ v \o <<x>> = w
    BY <1>1, <2>1, <2>2, AppendFacts
  <2>5. <<>> \notin Names(C) /\ <<"/">> \notin Names(C)
    BY DEF Names
  <2>6. CASE x \in Names(C)
    <3>1. t = <<>> /\ Plain(w) = w
      BY <1>3, <1>5, <1>7, <2>3, <2>5, <2>6 DEF TrailingName, Plain
    <3>2. QED
      BY <1>2, <1>4, <1>5, <2>4, <3>1
  <2>7. CASE v = <<>> /\ x = <<"/">>
    <3>1. w = << <<"/">> >> /\ Plain(w) = w
      BY <2>1, <2>7 DEF Plain
    <3>2. f = <<>>
      <4>1. SUFFICES ASSUME f # <<>>
                     PROVE  FALSE
        OBVIOUS
      <4>2. PICK g \in Seq(Names(C)) : g = f
        BY <1>3, FileNamesType
      <4>3. Len(g) # 0 /\ Len(g) \in 1..Len(g)
        BY <4>1, <4>2
      <4>4. g[Len(g)] \in Names(C)
        BY <4>2, <4>3
      <4>5. Len(r \o f) = Len(r) + Len(f) /\ (r \o f)[Len(r) + Len(f)] = f[Len(f)]
        BY <1>3, <4>2, <4>3
      <4>6. Len(r \o f) = 1 /\ (r \o f)[1] = <<"/">>
        <5>1. r \o f = << <<"/">> >>
          BY <1>5, <3>1
        <5>2. QED
          BY ONLY <5>1
      <4>7. QED
        BY <2>5, <4>2, <4>4, <4>5, <4>6
    <3>3. t = <<>>
      BY <1>3, <3>2 DEF TrailingName
    <3>4. QED
      BY <1>2, <1>4, <1>5, <2>4, <3>1, <3>3
  <2>8. CASE v # <<>> /\ x = <<>> /\ v[Len(v)] \in Names(C)
    <3>1. Plain(w) = v /\ Last(j) = "/"
      BY <1>5, <1>7, <2>3, <2>5, <2>8 DEF Plain
    <3>2. f # <<>>
      <4>1. SUFFICES ASSUME f = <<>>
                     PROVE  FALSE
        OBVIOUS
      <4>2. r = v
        BY <1>3, <1>5, <3>1, <4>1
      <4>3. r = <<>> \/ r = << <<"/">> >>
        BY <1>3 DEF Root
      <4>4. QED
        BY <2>5, <2>8, <4>2, <4>3
    <3>3. t = << <<>> >>
      BY <1>3, <3>1, <3>2 DEF TrailingName
    <3>4. QED
      BY <1>2, <1>4, <1>5, <2>4, <2>8, <3>1, <3>3
  <2>9. QED
    BY <2>1, <2>6, <2>7, <2>8
<1>8. QED
  BY <1>6, <1>7

LEMMA PrefixPath ==
  ASSUME NEW C, NEW w, IsPath(C, w), NEW q \in Prefixes(w)
  PROVE  IsPath(C, q)
<1>1. w \in Seq(Seq(C)) /\ \A i \in 1..Len(w) : Segment(C, w, i)
  BY DEF IsPath
<1>2. q \in Seq(Seq(C)) /\ Len(q) <= Len(w) /\ \A i \in 1..Len(q) : q[i] = w[i]
  BY <1>1, PrefixOfSeq
<1>3. ASSUME NEW i \in 1..Len(q)
      PROVE  Segment(C, q, i)
  <2>1. i \in 1..Len(w) /\ (i = Len(w) => i = Len(q)) /\ (i # 1 => i - 1 \in 1..Len(q))
    BY <1>1, <1>2
  <2>2. Segment(C, w, i) /\ q[i] = w[i] /\ (i # 1 => q[i-1] = w[i-1])
    BY <1>1, <1>2, <2>1
  <2>3. QED
    BY <2>1, <2>2 DEF Segment
<1>4. QED
  BY <1>2, <1>3 DEF IsPath

\* a ends where a name may begin, y begins with one.
Complete(a) == a = <<>> \/ Last(a) = "/"

Begins(y) == y # <<>> /\ y[1] # "/"

LEMMA NamesJoin ==
  ASSUME NEW C, "/" \in C, NEW a \in Seq(C), Complete(a), NEW y \in Seq(C), Begins(y)
  PROVE  Root(a \o y) = Root(a) /\ FileNames(a \o y) = FileNames(a) \o FileNames(y)
<1>0. ~IsAbsolute(y) /\ (a = <<>> \/ Last(a) = "/")
  BY DEF IsAbsolute, Complete, Begins
<1>1. CASE a = <<>>
  <2>1. a \o y = y
    BY <1>1
  <2>2. FileNames(y) \in Seq(Seq(C))
    BY PartsType
  <2>3. <<>> \o FileNames(y) = FileNames(y)
    BY <2>2
  <2>4. QED
    BY <1>0, <1>1, <2>1, <2>3, NamesNone DEF Root, IsAbsolute
<1>2. CASE a # <<>>
  <2>1. Slash(a, y) = a \o y
    BY <1>0, <1>2 DEF Slash
  <2>2. FileNames(Slash(a, y)) = FileNames(a) \o FileNames(y) /\ Root(Slash(a, y)) = Root(a)
    BY <1>0, <1>2, SlashIs
  <2>3. QED
    BY <2>1, <2>2
<1>3. QED
  BY <1>1, <1>2

\* The segment behind those of a.
NamedBy(s, n, y) == \E j : EndsAt(y, 1, j) /\ Segments(s)[n + 1] = SubSeq(y, 1, j)

LEMMA SegmentBehind ==
  ASSUME NEW C, "/" \in C, NEW a \in Seq(C), Complete(a), NEW y \in Seq(C), Begins(y),
         NEW v \in Seq(Seq(C)), Root(a) \o FileNames(a) = v
  PROVE  NamedBy(a \o y, Len(v), y)
<1> DEFINE D == Seq(C)
<1>1. PICK r \in Seq(D), f \in Seq(D), g \in Seq(D) :
        r = Root(a) /\ f = FileNames(a) /\ g = FileNames(y)
  BY PartsType
<1>2. a \o y \in Seq(C)
  OBVIOUS
<1>3. PICK t \in Seq(D) : t = TrailingName(a \o y)
  BY <1>2, PartsType
<1>4. Root(a \o y) = r /\ FileNames(a \o y) = f \o g
  BY <1>1, NamesJoin
<1>5. Segments(a \o y) = (r \o (f \o g)) \o t
  BY <1>3, <1>4, SegmentsIs
<1>6. Assoc(r, f, g)
  BY <1>1, ConcatAssoc
<1>7. Segments(a \o y) = (v \o g) \o t
  BY <1>1, <1>5, <1>6 DEF Assoc
<1>8. PICK j : EndsAt(y, 1, j)
  <2>1. 1 \in 1..Len(y) /\ y[1] # "/"
    BY DEF Begins
  <2>2. QED
    BY <2>1, NameEnds
<1>9. g # <<>> /\ g[1] = SubSeq(y, 1, j)
  BY <1>1, <1>8, FirstName DEF Begins
<1> HIDE DEF D
<1>10. v \in Seq(D)
  BY DEF D
<1>11. Len(g) # 0 /\ Len(v) \in Nat /\ Len(g) \in Nat
  BY <1>1, <1>9, <1>10
<1>12. PICK k \in Nat : k = Len(v) + 1
  BY <1>11
<1>13. PICK x : x = v \o g
  OBVIOUS
<1>14. x \in Seq(D) /\ k \in 1..Len(x) /\ x[k] = g[1]
  <2>1. x \in Seq(D) /\ Len(x) = Len(v) + Len(g) /\ \A i \in 1..Len(g) : x[Len(v) + i] = g[i]
    BY ONLY <1>1, <1>10, <1>13
  <2>2. 1 \in 1..Len(g)
    BY <1>11
  <2>3. QED
    BY <1>11, <1>12, <2>1, <2>2
<1>15. (x \o t)[k] = x[k]
  BY ONLY <1>3, <1>14
<1>16. Segments(a \o y)[Len(v) + 1] = SubSeq(y, 1, j)
  BY <1>7, <1>9, <1>12, <1>14, <1>15, <1>13
<1>17. QED
  BY <1>8, <1>16 DEF NamedBy

LEMMA FirstNameWhole ==
  ASSUME NEW C, NEW x \in Names(C), NEW r \in Seq(C), r # <<>>, r[1] # "/",
         NEW j, EndsAt(x \o r, 1, j)
  PROVE  SubSeq(x \o r, 1, j) # x
<1>1. x \in Seq(C) /\ x # <<>>
  BY DEF Names
<1>2. PICK n \in Nat, m \in Nat : n = Len(x) /\ m = Len(r) /\ m # 0
  BY <1>1
<1>3. PICK y : y = x \o r
  OBVIOUS
<1>4. y \in Seq(C) /\ Len(y) = n + m /\ y[n + 1] = r[1]
  <2>1. 1 \in 1..Len(r)
    BY <1>2
  <2>2. QED
    BY <1>1, <1>2, <1>3, <2>1
<1>5. j \in 1..Len(y) /\ (j = Len(y) \/ y[j+1] = "/")
  BY <1>3 DEF EndsAt
<1>6. j # n
  BY <1>2, <1>4, <1>5
<1>7. Len(SubSeq(y, 1, j)) = j
  BY <1>4, <1>5
<1>8. QED
  BY <1>2, <1>3, <1>6, <1>7

LEMMA Boundary ==
  ASSUME NEW C, "/" \in C, NEW f \in Seq(C), NEW q \in Prefixes(Segments(f)),
         NEW r \in Seq(C), f = Joined(q) \o r, Joined(q) # <<>>, Joined(q) # <<"/">>
  PROVE  r = <<>> \/ r[1] = "/"
<1> SUFFICES ASSUME r # <<>>, r[1] # "/"
             PROVE  FALSE
  OBVIOUS
<1>1. PICK w : w = Segments(f)
  OBVIOUS
<1>2. IsPath(C, w) /\ w \in Seq(Seq(C))
  BY <1>1, SegmentsPath DEF IsPath
<1>3. IsPath(C, q) /\ q \in Seq(Seq(C)) /\ \A i \in 1..Len(q) : q[i] = w[i]
  <2>1. IsPath(C, q)
    BY <1>1, <1>2, PrefixPath
  <2>2. \A i \in 1..Len(q) : q[i] = w[i]
    BY <1>1, <1>2, PrefixOfSeq
  <2>3. QED
    BY <2>1, <2>2 DEF IsPath
<1>4. q # <<>>
  BY JoinedNone
<1>5. PICK v, x : /\ IsPath(C, v) /\ x \in Seq(C) /\ q = Append(v, x)
                  /\ \A i \in 1..Len(v) : v[i] # <<>>
                  /\ \/ x \in Names(C)
                     \/ v = <<>> /\ x = <<"/">>
                     \/ v # <<>> /\ x = <<>> /\ v[Len(v)] \in Names(C)
  BY <1>3, <1>4, PathFront
<1>6. v \in Seq(Seq(C)) /\ q[Len(v) + 1] = x /\ Len(q) = Len(v) + 1 /\ q[Len(q)] = x
      /\ SubSeq(q, 1, Len(q) - 1) = v
  <2>1. v \in Seq(Seq(C)) /\ x \in Seq(C)
    BY <1>5 DEF IsPath
  <2>2. QED
    BY <1>5, <2>1, AppendFacts
<1>7. w[Len(v) + 1] = x
  <2>1. Len(v) + 1 \in 1..Len(q)
    BY <1>6
  <2>2. QED
    BY <1>3, <1>6, <2>1
<1>8. JoinedFacts(C, q) /\ JoinedFacts(C, v)
  BY <1>3, <1>5, JoinedPath
<1>9. \A i \in 1..Len(v) : v[i] # <<>>
  BY <1>5
<1>10. Plain(v) = v
  <2>1. v # <<>> => Len(v) \in 1..Len(v)
    BY <1>6
  <2>2. QED
    BY <1>9, <2>1 DEF Plain
<1>11. CASE x \in Names(C)
  <2>1. PICK p \in Seq(C) : p = Joined(v)
    BY <1>8 DEF JoinedFacts
  <2>2. Root(p) \o FileNames(p) = v
    BY <1>8, <1>10, <2>1 DEF JoinedFacts
  <2>3. Joined(q) = Slash(p, x)
    BY <1>5, <1>6, <2>1, JoinedStep
  <2>4. ~IsAbsolute(x) /\ x # <<>> /\ x[1] # "/" /\ x \in Seq(C)
    <3>1. x \in Seq(C) /\ x # <<>> /\ \A i \in 1..Len(x) : x[i] # "/"
      BY <1>11 DEF Names
    <3>2. 1 \in 1..Len(x)
      BY <3>1
    <3>3. QED
      BY <3>1, <3>2 DEF IsAbsolute
  <2>5. \E a \in Seq(C) : /\ a = <<>> \/ Last(a) = "/"
                          /\ Root(a) = Root(p) /\ FileNames(a) = FileNames(p)
                          /\ Joined(q) = a \o x
    <3>1. CASE p = <<>> \/ Last(p) = "/"
      <4>1. p = <<>> => <<>> \o x = x
        BY <2>4
      <4>2. Joined(q) = p \o x
        BY <2>3, <2>4, <3>1, <4>1 DEF Slash
      <4>3. QED
        BY <3>1, <4>2
    <3>2. CASE p # <<>> /\ Last(p) # "/"
      <4>1. PICK a : a = p \o <<"/">>
        OBVIOUS
      <4>2. a \in Seq(C) /\ Last(a) = "/" /\ a # <<>> /\ a[1] = p[1]
        BY <3>2, <4>1 DEF Last
      <4>3. FileNames(a) = FileNames(p)
        BY <4>1, NamesEnd
      <4>4. Root(a) = Root(p)
        BY <3>2, <4>2 DEF Root, IsAbsolute
      <4>5. Joined(q) = a \o x
        BY <2>3, <2>4, <3>2, <4>1 DEF Slash
      <4>6. QED
        BY <4>2, <4>3, <4>4, <4>5
    <3>3. QED
      BY <3>1, <3>2
  <2>6. PICK a \in Seq(C) : /\ a = <<>> \/ Last(a) = "/"
                            /\ Root(a) = Root(p) /\ FileNames(a) = FileNames(p)
                            /\ Joined(q) = a \o x
    BY <2>5
  <2>7. PICK y : y = x \o r
    OBVIOUS
  <2>8. y \in Seq(C) /\ Begins(y) /\ Complete(a)
    <3>1. y \in Seq(C) /\ y[1] = x[1] /\ Len(y) # 0
      BY <2>4, <2>7
    <3>2. QED
      BY <2>4, <2>6, <3>1 DEF Begins, Complete
  <2>9. f = a \o y
    <3>1. Assoc(a, x, r)
      BY <2>4, ConcatAssoc
    <3>2. QED
      BY <2>6, <2>7, <3>1 DEF Assoc
  <2>10. Root(a) \o FileNames(a) = v
    BY <2>2, <2>6
  <2>11. PICK j : EndsAt(y, 1, j) /\ Segments(a \o y)[Len(v) + 1] = SubSeq(y, 1, j)
    <3>1. NamedBy(a \o y, Len(v), y)
      BY <1>6, <2>8, <2>10, SegmentBehind
    <3>2. QED
      BY <3>1 DEF NamedBy
  <2>12. SubSeq(y, 1, j) = x
    BY <1>1, <1>7, <2>9, <2>11
  <2>13. QED
    BY <1>11, <2>7, <2>11, <2>12, FirstNameWhole
<1>12. CASE v = <<>> /\ x = <<"/">>
  <2>1. Joined(q) = Slash(<<>>, <<"/">>)
    <3>1. Joined(Append(v, x)) = Slash(Joined(v), x)
      BY <1>5, <1>6, JoinedStep
    <3>2. QED
      BY <1>5, <1>12, <3>1, JoinedNone
  <2>2. Joined(q) = <<"/">>
    BY <2>1 DEF Slash, IsAbsolute
  <2>3. QED
    BY <2>2
<1>13. CASE v # <<>> /\ x = <<>> /\ v[Len(v)] \in Names(C)
  <2>1. PICK a \in Seq(C) : a = Joined(q)
    BY <1>8 DEF JoinedFacts
  <2>2. <<>> \notin Names(C)
    BY DEF Names
  <2>3. Last(a) = "/" /\ Root(a) \o FileNames(a) = v
    BY <1>4, <1>6, <1>8, <1>13, <2>1, <2>2 DEF JoinedFacts, Plain
  <2>4. PICK j : EndsAt(r, 1, j) /\ Segments(a \o r)[Len(v) + 1] = SubSeq(r, 1, j)
    <3>1. Complete(a) /\ Begins(r)
      BY <2>3 DEF Complete, Begins
    <3>2. NamedBy(a \o r, Len(v), r)
      BY <1>6, <2>3, <3>1, SegmentBehind
    <3>3. QED
      BY <3>2 DEF NamedBy
  <2>5. SubSeq(r, 1, j) = <<>>
    BY <1>1, <1>7, <1>13, <2>1, <2>4
  <2>6. j \in 1..Len(r)
    BY <2>4 DEF EndsAt
  <2>7. Len(SubSeq(r, 1, j)) = j
    BY <2>6
  <2>8. QED
    BY ONLY <2>5, <2>6, <2>7
<1>14. QED
  BY <1>5, <1>11, <1>12, <1>13

(***************************************************************************)
(* The result of string_replace with one occurrence, or none.              *)
(***************************************************************************)
LEMMA ScannedOne ==
  ASSUME NEW s, NEW old, NEW k \in Nat, Occurrences(s, old) = {k}
  PROVE  Taken(s, old, -1) = {k}
<1> DEFINE Overlaps(i, j) == i < j /\ j < i + Len(old)
           Good(M) == /\ \A i, j \in M : ~Overlaps(i, j)
                      /\ \A j \in {k} \ M : \E i \in M : Overlaps(i, j)
<1>1. Good({k})
  OBVIOUS
<1>2. \A M \in SUBSET {k} : Good(M) => M = {k}
  <2>1. ASSUME NEW M \in SUBSET {k}, Good(M), k \notin M
        PROVE  FALSE
    <3>1. k \in {k} \ M
      BY <2>1
    <3>2. PICK i \in M : Overlaps(i, k)
      BY <2>1, <3>1
    <3>3. i = k
      BY <3>2
    <3>4. QED
      BY <2>1, <3>2, <3>3
  <2>2. \A M \in SUBSET {k} : k \in M => M = {k}
    OBVIOUS
  <2> HIDE DEF Good
  <2>3. QED
    BY <2>1, <2>2
<1>3. (CHOOSE M \in SUBSET {k} : Good(M)) = {k}
  <2> HIDE DEF Good
  <2>1. QED
    BY <1>1, <1>2
<1>4. Scanned(s, old) = {k}
  BY <1>3 DEF Scanned
<1>5. QED
  BY <1>4 DEF Taken

LEMMA ScannedNone ==
  ASSUME NEW s, NEW old, Occurrences(s, old) = {}
  PROVE  Taken(s, old, -1) = {}
BY DEF Taken, Scanned

LEMMA ImagesType ==
  ASSUME NEW C, NEW s \in Seq(C), NEW old, NEW new \in Seq(C)
  PROVE  Images(s, old, new, -1) \in Seq(Seq(C)) /\ Len(Images(s, old, new, -1)) = Len(s)
<1> DEFINE taken == Taken(s, old, -1)
           D == Seq(C)
           image(p) == IF p \in taken THEN new
                       ELSE IF \E i \in taken : p \in (i + 1)..(i + Len(old) - 1) THEN <<>>
                       ELSE <<s[p]>>
<1>1. Len(s) \in Nat /\ DOMAIN s = 1..Len(s)
  OBVIOUS
<1>2. \A p \in 1..Len(s) : <<s[p]>> \in D
  OBVIOUS
<1>3. <<>> \in D /\ new \in D
  OBVIOUS
<1>4. \A p \in 1..Len(s) : image(p) \in D
  <2> HIDE DEF D, taken
  <2>1. QED
    BY <1>2, <1>3
<1>5. Images(s, old, new, -1) = [p \in 1..Len(s) |-> image(p)]
  BY <1>1 DEF Images
<1> HIDE DEF D, image
<1>6. Images(s, old, new, -1) \in Seq(D) /\ Len(Images(s, old, new, -1)) = Len(s)
  BY <1>1, <1>4, <1>5
<1>7. QED
  BY <1>6 DEF D

LEMMA ReplacedNone ==
  ASSUME NEW C, NEW s \in Seq(C), NEW old, NEW new \in Seq(C),
         old = <<>> \/ Occurrences(s, old) = {}
  PROVE  Replaced(s, old, new, -1) = s
<1>1. CASE old = <<>>
  BY <1>1 DEF Replaced
<1>2. CASE old # <<>>
  <2>1. Taken(s, old, -1) = {}
    BY <1>2, ScannedNone
  <2>2. PICK I : I = Images(s, old, new, -1)
    OBVIOUS
  <2>3. I \in Seq(Seq(C)) /\ Len(I) = Len(s) /\ Len(s) \in Nat
    BY <2>2, ImagesType
  <2>4. \A p \in 1..Len(s) : I[p] = <<s[p]>>
    BY <2>1, <2>2 DEF Images
  <2>5. Text(I, Len(s)) = Text(I, 0) \o SubSeq(s, 0 + 1, Len(s))
    <3>1. 0 \in 0..Len(s) /\ Len(s) \in 0..Len(s) /\ \A p \in (0+1)..Len(s) : I[p] = <<s[p]>>
      BY <2>3, <2>4
    <3>2. QED
      BY <2>3, <3>1, TextCopies
  <2>6. Text(I, 0) = <<>>
    BY <2>3, TextNone
  <2>7. SubSeq(s, 0 + 1, Len(s)) = s /\ <<>> \o s = s
    BY SubSeqFull
  <2>8. FlattenSeq(I) = Text(I, Len(s))
    BY <2>3, FlattenIsText
  <2>9. QED
    BY <1>2, <2>2, <2>5, <2>6, <2>7, <2>8 DEF Replaced
<1>3. QED
  BY <1>1, <1>2

\* What comes before the text that occurs at k, and what comes behind it.
Ahead(s, k) == SubSeq(s, 1, k - 1)

Following(s, old, k) == SubSeq(s, k + Len(old), Len(s))

LEMMA SplitAt ==
  ASSUME NEW C, NEW s \in Seq(C), NEW old \in Seq(C), NEW k \in Occurrences(s, old)
  PROVE  /\ Ahead(s, k) \in Seq(C) /\ Following(s, old, k) \in Seq(C)
         /\ k \in Nat \ {0} /\ k + Len(old) - 1 \in 0..Len(s)
         /\ s = Ahead(s, k) \o (old \o Following(s, old, k))
<1>1. PICK n \in Nat, m \in Nat : n = Len(old) /\ m = Len(s)
  OBVIOUS
<1>2. k \in 1..((m - n) + 1) /\ SubSeq(s, k, (k + n) - 1) = old
  BY <1>1 DEF Occurrences
<1>3. PICK a, r : a = SubSeq(s, 1, k - 1) /\ r = SubSeq(s, k + n, m)
  OBVIOUS
<1>4. a \in Seq(C) /\ Len(a) = k - 1 /\ (\A i \in 1..(k-1) : a[i] = s[i])
  BY <1>1, <1>2, <1>3
<1>5. r \in Seq(C) /\ Len(r) = ((m - k) - n) + 1 /\ \A i \in 1..Len(r) : r[i] = s[(k + n) + i - 1]
  <2>1. PICK e \in Nat : e = k + n
    BY <1>1, <1>2
  <2>2. e \in 1..(m + 1) /\ r = SubSeq(s, e, m) /\ (m - e) + 1 \in Nat
    BY <1>1, <1>2, <1>3, <2>1
  <2>3. \A i \in e..m : s[i] \in C
    BY <1>1, <2>2
  <2>4. r \in Seq(C)
    BY <1>1, <2>1, <2>2, <2>3, SubSeqProperties
  <2>5. Len(r) = (m - e) + 1 /\ \A i \in 1..Len(r) : r[i] = s[e + i - 1]
    BY <1>1, <2>1, <2>2
  <2>6. QED
    BY <1>1, <1>2, <2>1, <2>4, <2>5
<1>6. \A i \in 1..n : old[i] = s[(k + i) - 1]
  <2>1. PICK e \in Nat : e = (k + n) - 1
    <3>1. k \in Nat /\ k >= 1
      BY <1>2
    <3>2. (k + n) - 1 \in Nat
      BY <3>1
    <3>3. QED
      BY <3>2
  <2>2. k \in Nat /\ old = SubSeq(s, k, e) /\ (e - k) + 1 = n
    BY <1>1, <1>2, <2>1
  <2>3. \A i \in k..e : s[i] \in C
    BY <1>1, <1>2, <2>1
  <2>4. \A i \in 1..((e - k) + 1) : old[i] = s[(k + i) - 1]
    BY <2>2, <2>3, SubSeqProperties
  <2>5. QED
    BY <2>2, <2>4
<1>7. PICK x : x = old \o r
  OBVIOUS
<1>8. x \in Seq(C) /\ Len(x) = (m - k) + 1 /\ (\A i \in 1..n : x[i] = old[i])
      /\ \A i \in 1..Len(r) : x[n + i] = r[i]
  <2>1. x \in Seq(C) /\ Len(x) = n + Len(r) /\ (\A i \in 1..n : x[i] = old[i])
        /\ \A i \in 1..Len(r) : x[n + i] = r[i]
    BY ONLY <1>1, <1>5, <1>7, old \in Seq(C)
  <2>2. QED
    BY <1>1, <1>2, <1>5, <2>1
<1>9. ASSUME NEW i \in 1..Len(x)
      PROVE  x[i] = s[(k + i) - 1]
  <2>1. CASE i <= n
    <3>1. i \in 1..n
      BY <1>8, <2>1
    <3>2. QED
      BY <1>6, <1>8, <3>1
  <2>2. CASE i > n
    <3>1. i - n \in 1..Len(r) /\ i = n + (i - n) /\ (k + n) + (i - n) - 1 = (k + i) - 1
      BY <1>1, <1>2, <1>5, <1>8, <2>2
    <3>2. x[i] = r[i - n] /\ r[i - n] = s[(k + n) + (i - n) - 1]
      BY <1>5, <1>8, <3>1
    <3>3. QED
      BY <3>1, <3>2
  <2>3. QED
    BY <1>1, <1>8, <2>1, <2>2
<1>10. PICK y : y = a \o x
  OBVIOUS
<1>11. y \in Seq(C) /\ Len(y) = (k - 1) + Len(x) /\ (\A i \in 1..(k-1) : y[i] = a[i])
       /\ \A i \in 1..Len(x) : y[(k - 1) + i] = x[i]
  <2>1. x \in Seq(C) /\ a \in Seq(C)
    BY <1>4, <1>8
  <2>2. y \in Seq(C) /\ Len(y) = Len(a) + Len(x) /\ (\A i \in 1..Len(a) : y[i] = a[i])
       /\ \A i \in 1..Len(x) : y[Len(a) + i] = x[i]
    BY ONLY <1>10, <2>1
  <2>3. QED
    BY <1>4, <2>2
<1>12. ASSUME NEW i \in 1..m
       PROVE  y[i] = s[i]
  <2>1. CASE i < k
    <3>1. i \in 1..(k-1)
      BY <1>2, <2>1
    <3>2. QED
      BY <1>4, <1>11, <3>1
  <2>2. CASE i >= k
    <3>1. PICK j \in 1..Len(x) : i = (k - 1) + j /\ (k + j) - 1 = i
      <4>1. (i - k) + 1 \in 1..Len(x) /\ i = (k - 1) + ((i - k) + 1)
            /\ (k + ((i - k) + 1)) - 1 = i
        BY <1>1, <1>2, <1>8, <2>2
      <4>2. QED
        BY <4>1
    <3>2. QED
      BY <1>9, <1>11, <3>1
  <2>3. QED
    BY <1>2, <2>1, <2>2
<1>13. s = y
  <2>1. Len(y) = m
    BY <1>1, <1>2, <1>8, <1>11
  <2>2. QED
    BY <1>1, <1>11, <1>12, <2>1, SeqEqual
<1>14. a = Ahead(s, k) /\ r = Following(s, old, k)
  BY <1>1, <1>3 DEF Ahead, Following
<1>15. k \in Nat \ {0} /\ k + Len(old) - 1 \in 0..Len(s)
  BY <1>1, <1>2
<1>16. QED
  BY <1>4, <1>5, <1>7, <1>10, <1>13, <1>14, <1>15

LEMMA ReplacedOne ==
  ASSUME NEW C, NEW s \in Seq(C), NEW old \in Seq(C), NEW new \in Seq(C), old # <<>>,
         NEW k, Occurrences(s, old) = {k}
  PROVE  Replaced(s, old, new, -1) = Ahead(s, k) \o (new \o Following(s, old, k))
<1>1. PICK n \in Nat, m \in Nat : n = Len(old) /\ m = Len(s) /\ n # 0
  OBVIOUS
<1>2. k \in Occurrences(s, old)
  OBVIOUS
<1>3. k \in Nat \ {0} /\ k + n - 1 \in 0..m /\ k \in 1..m
  <2>1. k \in Nat \ {0} /\ k + n - 1 \in 0..m
    BY <1>1, <1>2, SplitAt
  <2>2. QED
    BY <1>1, <2>1
<1>4. PICK I : I = Images(s, old, new, -1)
  OBVIOUS
<1>5. I \in Seq(Seq(C)) /\ Len(I) = m
  BY <1>1, <1>4, ImagesType
<1>6. Taken(s, old, -1) = {k}
  BY <1>3, ScannedOne
<1>7. \A p \in 1..m : I[p] = IF p = k THEN new
                            ELSE IF p \in (k + 1)..(k + n - 1) THEN <<>>
                            ELSE <<s[p]>>
  BY <1>1, <1>4, <1>6 DEF Images
<1>8. PICK a \in Nat, b \in Nat : a = k - 1 /\ b = (k + n) - 1
  BY <1>3
<1>9. a \in 0..m /\ b \in k..m /\ b \in 0..m /\ a + 1 = k /\ b + 1 = k + n
  BY <1>1, <1>3, <1>8
<1>10. Text(I, 0) = <<>>
  BY <1>5, TextNone
<1>11. Text(I, a) = Text(I, 0) \o SubSeq(s, 0 + 1, a)
  <2>1. 0 \in 0..Len(s) /\ a \in 0..Len(s)
    BY <1>1, <1>9
  <2>2. ASSUME NEW p \in (0+1)..a
        PROVE  I[p] = <<s[p]>>
    <3>1. p \in 1..m /\ p # k /\ p \notin (k + 1)..(k + n - 1)
      BY ONLY <1>3, <1>9, n \in Nat, m \in Nat, p \in (0+1)..a
    <3>2. QED
      BY <1>7, <3>1
  <2>3. QED
    BY <1>1, <1>5, <2>1, <2>2, TextCopies
<1>12. Text(I, k) = Text(I, k - 1) \o new
  <2>1. I[k] = new
    BY <1>3, <1>7
  <2>2. k \in 1..Len(I)
    BY <1>3, <1>5
  <2>3. QED
    BY <1>5, <2>1, <2>2, TextNext
<1>13. Text(I, b) = Text(I, k)
  <2>1. k \in 0..Len(I) /\ b \in k..Len(I)
    BY <1>3, <1>5, <1>9
  <2>2. ASSUME NEW p \in (k+1)..b
        PROVE  I[p] = <<>>
    <3>1. p \in 1..m /\ p # k /\ p \in (k + 1)..(k + n - 1)
      BY ONLY <1>3, <1>8, <1>9, n \in Nat, m \in Nat, p \in (k+1)..b
    <3>2. QED
      BY <1>7, <3>1
  <2>3. QED
    BY <1>5, <2>1, <2>2, TextDrops
<1>14. Text(I, m) = Text(I, b) \o SubSeq(s, b + 1, m)
  <2>1. b \in 0..Len(s) /\ m \in b..Len(s)
    BY <1>1, <1>9
  <2>2. ASSUME NEW p \in (b+1)..m
        PROVE  I[p] = <<s[p]>>
    <3>1. p \in 1..m /\ p # k /\ p \notin (k + 1)..(k + n - 1)
      BY ONLY <1>1, <1>3, <1>8, <1>9, n \in Nat, m \in Nat, p \in (b+1)..m
    <3>2. QED
      BY <1>7, <3>1
  <2>3. QED
    BY <1>1, <1>5, <2>1, <2>2, TextCopies
<1>15. PICK x \in Seq(C), z \in Seq(C) : x = Ahead(s, k) /\ z = Following(s, old, k)
  BY <1>2, SplitAt
<1>16. SubSeq(s, 0 + 1, a) = x /\ SubSeq(s, b + 1, m) = z
  <2>1. 0 + 1 = 1 /\ a = k - 1 /\ b + 1 = k + Len(old) /\ m = Len(s)
    BY <1>1, <1>8, <1>9
  <2>2. QED
    BY <1>15, <2>1 DEF Ahead, Following
<1>17. <<>> \o x = x
  OBVIOUS
<1>18. Text(I, m) = (x \o new) \o z
  BY <1>8, <1>10, <1>11, <1>12, <1>13, <1>14, <1>16, <1>17
<1>19. Assoc(x, new, z)
  BY ConcatAssoc
<1>20. FlattenSeq(I) = Text(I, m)
  BY <1>5, FlattenIsText
<1>21. QED
  BY <1>4, <1>15, <1>18, <1>19, <1>20 DEF Replaced, Assoc

PartsAt(C, s, old, new, k, a) ==
  /\ a = Ahead(s, k)
  /\ \E r \in Seq(C) : /\ s = a \o (old \o r)
                       /\ Replaced(s, old, new, -1) = a \o (new \o r)

LEMMA OneOccurrence ==
  ASSUME NEW C, NEW s \in Seq(C), NEW old \in Seq(C), NEW new \in Seq(C), old # <<>>,
         NEW k, Occurrences(s, old) = {k}
  PROVE  \E a \in Seq(C) : PartsAt(C, s, old, new, k, a)
<1>1. k \in Occurrences(s, old)
  OBVIOUS
<1>2. /\ Ahead(s, k) \in Seq(C) /\ Following(s, old, k) \in Seq(C)
      /\ s = Ahead(s, k) \o (old \o Following(s, old, k))
  BY <1>1, SplitAt
<1>3. Replaced(s, old, new, -1) = Ahead(s, k) \o (new \o Following(s, old, k))
  BY ReplacedOne
<1>4. QED
  BY ONLY <1>2, <1>3 DEF PartsAt
=============================================================================

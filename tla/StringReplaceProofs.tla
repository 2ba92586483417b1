------------------------ MODULE StringReplaceProofs ------------------------
(***************************************************************************)
(* Theorems about StringReplace, for any characters and any strings: the   *)
(* loop of string_replace computes the closed form of module Strings.      *)
(***************************************************************************)
EXTENDS StringReplace, Lemmas, SequenceTheorems

Overlaps(i, j, n) == i < j /\ j < i + n

\* M is what a scan from the left finds of occ, for a length n.
IsScan(M, occ, n) ==
  /\ M \subseteq occ
  /\ \A i, j \in M : ~Overlaps(i, j, n)
  /\ \A j \in occ \ M : \E i \in M : Overlaps(i, j, n)

LEMMA ScanExists ==
  ASSUME NEW occ, NEW m \in Nat, occ \subseteq 1..m, NEW n \in Nat
  PROVE  \E M : IsScan(M, occ, n)
<1> DEFINE T == {b \in Nat : ~\E M : IsScan(M, occ \cap 1..b, n)}
<1>1. m \notin T
  <2> SUFFICES ASSUME m \in T
               PROVE  FALSE
    OBVIOUS
  <2>1. PICK b \in T : \A j \in T : b <= j
    BY LeastNat
  <2>2. b # 0
    <3>1. IsScan({}, occ \cap 1..0, n)
      BY DEF IsScan
    <3>2. QED
      BY <3>1
  <2>3. b \in Nat /\ b - 1 \in Nat /\ b - 1 \notin T
    BY <2>1, <2>2
  <2>4. PICK M : IsScan(M, occ \cap 1..(b-1), n)
    BY <2>3
  <2>5. \A j \in occ \cap 1..b : j = b \/ j \in occ \cap 1..(b-1)
    BY <2>3
  <2>6. M \subseteq occ \cap 1..b /\ \A i \in M : i \in Nat /\ i < b
    BY <2>3, <2>4 DEF IsScan
  <2>7. CASE b \notin occ
    <3>1. IsScan(M, occ \cap 1..b, n)
      BY <2>4, <2>5, <2>6, <2>7 DEF IsScan
    <3>2. QED
      BY <2>1, <3>1
  <2>8. CASE \E i \in M : Overlaps(i, b, n)
    <3>1. IsScan(M, occ \cap 1..b, n)
      BY <2>4, <2>5, <2>6, <2>8 DEF IsScan
    <3>2. QED
      BY <2>1, <3>1
  <2>9. CASE b \in occ /\ \A i \in M : ~Overlaps(i, b, n)
    <3>1. \A i \in M : ~Overlaps(b, i, n) /\ ~Overlaps(b, b, n)
      BY <2>3, <2>6 DEF Overlaps
    <3>2. IsScan(M \cup {b}, occ \cap 1..b, n)
      <4>1. M \cup {b} \subseteq occ \cap 1..b
        <5>1. b \in 1..b
          BY <2>3
        <5>2. QED
          BY <5>1, <2>6, <2>9
      <4>2. \A i, j \in M \cup {b} : ~Overlaps(i, j, n)
        BY <2>3, <2>4, <2>9, <3>1 DEF IsScan, Overlaps
      <4>3. \A j \in (occ \cap 1..b) \ (M \cup {b}) : \E i \in M \cup {b} : Overlaps(i, j, n)
        BY <2>4, <2>5 DEF IsScan
      <4>4. QED
        BY <4>1, <4>2, <4>3 DEF IsScan
    <3>3. QED
      BY <2>1, <3>2
  <2>10. QED
    BY <2>7, <2>8, <2>9
<1>2. PICK M : IsScan(M, occ \cap 1..m, n)
  BY <1>1
<1>3. occ \cap 1..m = occ
  OBVIOUS
<1>4. QED
  BY <1>2, <1>3

\* Scanned is such a scan.
LEMMA ScannedIsScan ==
  ASSUME NEW C, NEW s \in Seq(C), NEW old \in Seq(C), old # <<>>
  PROVE  /\ IsScan(Scanned(s, old), Occurrences(s, old), Len(old))
         /\ Scanned(s, old) \subseteq 1..Len(s)
<1>1. Len(s) \in Nat /\ Len(old) \in Nat /\ Len(old) >= 1
  OBVIOUS
<1>2. PICK occ : occ = Occurrences(s, old)
  OBVIOUS
<1>3. PICK n \in Nat : n = Len(old)
  BY <1>1
<1>4. occ \subseteq 1..Len(s)
  BY <1>1, <1>2 DEF Occurrences
<1>5. PICK M : IsScan(M, occ, n)
  BY <1>1, <1>4, ScanExists
<1>6. M \in SUBSET occ
  BY <1>5 DEF IsScan
<1>7. Scanned(s, old) = CHOOSE N \in SUBSET occ : IsScan(N, occ, n)
  <2>1. \A N \in SUBSET occ :
          IsScan(N, occ, n) <=>
             /\ \A i, j \in N : ~(i < j /\ j < i + n)
             /\ \A j \in occ \ N : \E i \in N : i < j /\ j < i + n
    BY DEF IsScan, Overlaps
  <2>2. QED
    BY <1>2, <1>3, <2>1 DEF Scanned
<1>8. IsScan(Scanned(s, old), occ, n)
  BY <1>5, <1>6, <1>7
<1>9. QED
  BY <1>2, <1>3, <1>4, <1>8 DEF IsScan

(***************************************************************************)
(* The loop invariant: the text of the first done characters of input is   *)
(* in result, the others are in current; no occurrence that the scan takes *)
(* has only a part of it before done, and k counts the others.             *)
(***************************************************************************)
Matches == Scanned(input, old_value)
Image == Images(input, old_value, New, times)
done == Len(input) - Len(current)
Before(p) == {j \in Matches : j < p}

Position ==
  /\ done \in 0..Len(input)
  /\ current = SubSeq(input, done + 1, Len(input))
  /\ \A i \in Matches : i <= done => i + Len(old_value) - 1 <= done
  /\ IF times < 0 THEN k = times
     ELSE k = times - Cardinality(Before(done + 1)) /\ k >= 0

IInv ==
  /\ TypeOK
  /\ old_value # <<>> => Position /\ (~returned => result = Text(Image, done))
  /\ ResultIsReplaced
  /\ ~returned /\ old_value = <<>> => result = <<>>

LEMMA Lengths ==
  ASSUME TypeOK
  PROVE  /\ input \in Seq(Char) /\ old_value \in Seq(Char)
         /\ result \in Seq(Char) /\ current \in Seq(Char)
         /\ Len(input) \in Nat /\ Len(old_value) \in Nat /\ Len(current) \in Nat
         /\ old_value # <<>> => Len(old_value) >= 1
         /\ times \in Int /\ k \in Int
<1>1. /\ input \in Seq(Char) /\ old_value \in Seq(Char)
      /\ result \in Seq(Char) /\ current \in Seq(Char)
  BY DEF TypeOK
<1>2. times \in Int /\ k \in Int
  BY DEF TypeOK
<1>3. QED
  BY <1>1, <1>2

LEMMA MatchFacts ==
  ASSUME TypeOK, old_value # <<>>
  PROVE  /\ Matches \subseteq 1..Len(input)
         /\ Matches \subseteq Occurrences(input, old_value)
         /\ \A i, j \in Matches : i < j => i + Len(old_value) <= j
         /\ \A p \in Occurrences(input, old_value) \ Matches :
              \E i \in Matches : i < p /\ p < i + Len(old_value)
<1>1. /\ IsScan(Matches, Occurrences(input, old_value), Len(old_value))
      /\ Matches \subseteq 1..Len(input)
  BY Lengths, ScannedIsScan DEF Matches
<1>2. \A i, j \in Matches : i < j => i + Len(old_value) <= j
  BY <1>1, Lengths DEF IsScan, Overlaps
<1>3. QED
  BY <1>1, <1>2 DEF IsScan, Overlaps

LEMMA ImageFacts ==
  ASSUME TypeOK, old_value # <<>>, StringReplaceAssumption
  PROVE  /\ Image \in Seq(Seq(Char))
         /\ Len(Image) = Len(input)
         /\ \A p \in 1..Len(input) :
              Image[p] = IF p \in Taken(input, old_value, times) THEN New
                         ELSE IF \E i \in Taken(input, old_value, times) :
                                   p \in (i + 1)..(i + Len(old_value) - 1) THEN <<>>
                         ELSE <<input[p]>>
<1>1. input \in Seq(Char) /\ New \in Seq(Char) /\ DOMAIN input = 1..Len(input)
  BY Lengths DEF StringReplaceAssumption
<1> DEFINE taken == Taken(input, old_value, times)
           e(p) == IF p \in taken THEN New
                   ELSE IF \E i \in taken : p \in (i + 1)..(i + Len(old_value) - 1) THEN <<>>
                   ELSE <<input[p]>>
<1>2. Image = [p \in 1..Len(input) |-> e(p)]
  BY <1>1 DEF Image, Images
<1>3. \A p \in 1..Len(input) : e(p) \in Seq(Char)
  <2>1. \A p \in 1..Len(input) : <<input[p]>> \in Seq(Char)
    BY <1>1
  <2>2. <<>> \in Seq(Char)
    OBVIOUS
  <2>3. QED
    BY <1>1, <2>1, <2>2
<1>4. Len(input) \in Nat
  BY Lengths
<1> HIDE DEF taken, e
<1>5. Image \in [1..Len(input) -> Seq(Char)]
  BY <1>2, <1>3
<1>6. Image \in Seq(Seq(Char)) /\ Len(Image) = Len(input)
  BY <1>4, <1>5
<1>7. \A p \in 1..Len(input) : Image[p] = e(p)
  BY <1>2
<1>8. QED
  BY <1>6, <1>7 DEF e, taken

LEMMA SubSeqOfRest ==
  ASSUME NEW C, NEW s \in Seq(C), NEW d \in 0..Len(s), NEW q \in Nat, q >= 1,
         NEW r \in (q - 1)..(Len(s) - d)
  PROVE  SubSeq(SubSeq(s, d + 1, Len(s)), q, r) = SubSeq(s, d + q, d + r)
OBVIOUS

LEMMA RestLength ==
  ASSUME NEW C, NEW s \in Seq(C), NEW d \in 0..Len(s)
  PROVE  Len(SubSeq(s, d + 1, Len(s))) = Len(s) - d
OBVIOUS

\* An occurrence in current is one in input, done further on.
LEMMA CurrentOccurrences ==
  ASSUME TypeOK, Position, old_value # <<>>
  PROVE  \A q \in Int : q \in Occurrences(current, old_value)
                         <=> q >= 1 /\ q + done \in Occurrences(input, old_value)
<1>1. Len(current) = Len(input) - done
  BY Lengths DEF done
<1> SUFFICES ASSUME NEW q \in Int
             PROVE  q \in Occurrences(current, old_value)
                    <=> q >= 1 /\ q + done \in Occurrences(input, old_value)
  OBVIOUS
<1>2. done \in 0..Len(input) /\ current = SubSeq(input, done + 1, Len(input))
  BY DEF Position
<1>3. /\ done \in Nat /\ Len(input) \in Nat /\ Len(old_value) \in Nat /\ Len(current) \in Nat
      /\ done <= Len(input)
  BY <1>2, Lengths
<1> DEFINE n == Len(input)  m == Len(old_value)  d == done  c == Len(current)
<1> HIDE DEF n, m, d, c
<1>4. /\ n \in Nat /\ m \in Nat /\ d \in Nat /\ c \in Nat
      /\ m >= 1 /\ c = n - d /\ d <= n
  BY <1>1, <1>3, Lengths DEF n, m, d, c
<1>5. q \in 1..(c - m + 1) <=> q >= 1 /\ q + d \in 1..(n - m + 1)
  BY <1>4
<1>6. ASSUME q \in 1..(c - m + 1)
      PROVE  SubSeq(current, q, q + m - 1) = SubSeq(input, q + d, q + d + m - 1)
  <2>1. PICK r \in (q - 1)..(n - d) : r = q + m - 1
    BY <1>4, <1>6
  <2>2. SubSeq(current, q, r) = SubSeq(input, d + q, d + r)
    <3>1. q \in Nat /\ q >= 1
      BY <1>6
    <3>2. input \in Seq(Char) /\ d \in 0..n
      BY <1>4, Lengths
    <3>3. SubSeq(SubSeq(input, d + 1, n), q, r) = SubSeq(input, d + q, d + r)
      BY <2>1, <3>1, <3>2, SubSeqOfRest DEF n
    <3>4. QED
      BY <1>2, <3>3 DEF n, d
  <2>3. d + q = q + d /\ d + r = q + d + m - 1
    BY <1>4, <2>1
  <2>4. QED
    BY <2>1, <2>2, <2>3
<1>7. /\ q \in Occurrences(current, old_value)
         <=> q \in 1..(c - m + 1) /\ SubSeq(current, q, q + m - 1) = old_value
      /\ q + d \in Occurrences(input, old_value)
         <=> q + d \in 1..(n - m + 1) /\ SubSeq(input, q + d, q + d + m - 1) = old_value
  BY DEF Occurrences, n, m, c
<1>8. QED
  BY <1>5, <1>6, <1>7 DEF d

LEMMA PosFacts ==
  ASSUME TypeOK, Position, old_value # <<>>, Found
  PROVE  /\ Pos \in Nat /\ Pos >= 1 /\ Pos + Len(old_value) - 1 <= Len(current)
         /\ done + Pos \in Matches
         /\ \A j \in Matches : j <= done \/ done + Pos <= j
<1> DEFINE occ == Occurrences(current, old_value)
<1>1. occ \subseteq Nat
  BY DEF Occurrences
<1>2. \E i \in occ : \A j \in occ : i <= j
  <2> HIDE DEF occ
  <2>1. PICK x \in occ : TRUE
    BY DEF Found, occ
  <2>2. QED
    BY <1>1, <2>1, LeastNat
<1>3. Pos \in occ /\ \A j \in occ : Pos <= j
  BY <1>2 DEF Pos
<1>4. Pos \in Nat /\ Pos >= 1 /\ Pos + Len(old_value) - 1 <= Len(current)
  BY <1>3, Lengths DEF Occurrences
<1>5. done \in Nat
  BY Lengths DEF Position
<1>6. \A q \in Int : q \in occ <=> q >= 1 /\ q + done \in Occurrences(input, old_value)
  BY CurrentOccurrences
<1> HIDE DEF occ
<1>7. done + Pos \in Occurrences(input, old_value)
  BY <1>3, <1>4, <1>5, <1>6
<1>8. \A j \in Matches : j \in Int /\ (j <= done \/ done + Pos <= j)
  <2>1. SUFFICES ASSUME NEW j \in Matches
                 PROVE  j \in Int /\ (j <= done \/ done + Pos <= j)
    OBVIOUS
  <2>2. j \in Nat /\ j \in Occurrences(input, old_value)
    BY MatchFacts, Lengths
  <2>3. CASE j > done
    <3>1. PICK q \in Int : q = j - done
      BY <1>5, <2>2
    <3>2. q >= 1 /\ q + done = j
      BY <1>5, <2>2, <2>3, <3>1
    <3>3. Pos <= q
      BY <1>3, <1>6, <2>2, <3>2
    <3>4. QED
      BY <1>4, <1>5, <2>2, <3>2, <3>3
  <2>4. QED
    BY <1>5, <2>2, <2>3
<1>9. done + Pos \in Matches
  <2>1. SUFFICES ASSUME done + Pos \notin Matches
                 PROVE  FALSE
    OBVIOUS
  <2>2. PICK i \in Matches : i < done + Pos /\ done + Pos < i + Len(old_value)
    BY <1>7, <2>1, MatchFacts
  <2>3. i <= done
    BY <1>4, <1>5, <1>8, <2>2
  <2>4. i + Len(old_value) - 1 <= done
    BY <2>3 DEF Position
  <2>5. QED
    BY <1>4, <1>5, <1>8, <2>2, <2>4, Lengths
<1>10. QED
  BY <1>4, <1>8, <1>9

LEMMA BeforeFacts ==
  ASSUME TypeOK, old_value # <<>>, NEW p \in Int
  PROVE  /\ IsFiniteSet(Before(p)) /\ Cardinality(Before(p)) \in Nat
         /\ \A j \in Matches : j \in Int
         /\ p \in Taken(input, old_value, times)
              <=> p \in Matches /\ (times < 0 \/ Cardinality(Before(p)) < times)
<1>1. Before(p) \subseteq 1..Len(input) /\ \A j \in Matches : j \in Int
  BY MatchFacts DEF Before
<1>2. IsFiniteSet(1..Len(input))
  BY Lengths, FS_Interval
<1>3. IsFiniteSet(Before(p))
  BY <1>1, <1>2, FS_Subset
<1>4. Cardinality(Before(p)) \in Nat
  BY <1>3, FS_CardinalityType
<1>5. p \in Taken(input, old_value, times)
        <=> p \in Matches /\ (times < 0 \/ Cardinality(Before(p)) < times)
  BY DEF Taken, Before, Matches
<1>6. QED
  BY <1>1, <1>3, <1>4, <1>5

\* The next match is one more.
LEMMA BeforeNext ==
  ASSUME TypeOK, Position, old_value # <<>>, Found
  PROVE  /\ Before(done + Pos) = Before(done + 1)
         /\ Cardinality(Before(done + Pos + Len(old_value))) = Cardinality(Before(done + 1)) + 1
<1>1. done \in Int /\ Pos \in Nat /\ Pos >= 1 /\ Len(old_value) >= 1 /\ Len(old_value) \in Nat
  BY PosFacts, Lengths DEF Position
<1>2. /\ done + Pos \in Matches
      /\ \A j \in Matches : j \in Int /\ (j <= done \/ done + Pos <= j)
  BY PosFacts, MatchFacts
<1>3. Before(done + Pos) = Before(done + 1)
  BY <1>1, <1>2 DEF Before
<1>4. \A j \in Matches : j < done + Pos + Len(old_value) => j < done + 1 \/ j = done + Pos
  BY <1>1, <1>2, MatchFacts
<1>5. Before(done + Pos + Len(old_value)) = Before(done + 1) \cup {done + Pos}
  BY <1>1, <1>2, <1>4 DEF Before
<1>6. done + Pos \notin Before(done + 1) /\ done + 1 \in Int
  BY <1>1 DEF Before
<1>7. IsFiniteSet(Before(done + 1))
  BY <1>6, BeforeFacts
<1>8. QED
  BY <1>3, <1>5, <1>6, <1>7, FS_AddElement

\* The pieces of the text that one iteration appends.
LEMMA TextOfIteration ==
  ASSUME StringReplaceAssumption, TypeOK, Position, old_value # <<>>, k # 0, Found
  PROVE  Text(Image, done + Pos + Len(old_value) - 1)
           = Text(Image, done) \o SubSeq(current, 1, Pos - 1) \o New
<1>1. /\ done \in Nat /\ Pos \in Nat /\ Pos >= 1 /\ Len(old_value) >= 1
      /\ Len(old_value) \in Nat /\ Len(input) \in Nat
      /\ Len(current) = Len(input) - done /\ Pos + Len(old_value) - 1 <= Len(current)
  <2>1. Len(current) = Len(input) - done
    BY Lengths DEF done
  <2>2. QED
    BY <2>1, PosFacts, Lengths DEF Position
<1> DEFINE d == done  m == done + Pos  e == done + Pos + Len(old_value) - 1  n == Len(input)
<1>2. /\ d \in Nat /\ m \in Nat /\ e \in Nat /\ n \in Nat
      /\ d < m /\ m <= e /\ e <= n
  BY <1>1
<1>3. /\ m \in Matches
      /\ \A j \in Matches : j \in Int /\ (j <= d \/ m <= j)
  BY PosFacts, MatchFacts
<1>4. \A i \in Matches : i <= d => i + Len(old_value) - 1 <= d
  BY DEF Position
<1>5. \A i \in Taken(input, old_value, times) : i \in Matches
  BY DEF Taken, Matches
<1>6. m \in Taken(input, old_value, times)
  <2>1. times < 0 \/ Cardinality(Before(d + 1)) < times
    <3>1. d + 1 \in Int
      BY <1>2
    <3>2. Cardinality(Before(d + 1)) \in Nat
      BY <3>1, BeforeFacts
    <3>3. QED
      BY <3>2, Lengths DEF Position
  <2>2. Before(m) = Before(d + 1) /\ m \in Int
    BY <1>2, BeforeNext
  <2>3. QED
    BY <1>3, <2>1, <2>2, BeforeFacts
<1> HIDE DEF d, m, e, n
<1>7. /\ Image \in Seq(Seq(Char)) /\ Len(Image) = n
      /\ \A p \in 1..n :
           Image[p] = IF p \in Taken(input, old_value, times) THEN New
                      ELSE IF \E i \in Taken(input, old_value, times) :
                                p \in (i + 1)..(i + Len(old_value) - 1) THEN <<>>
                      ELSE <<input[p]>>
  BY ImageFacts DEF n
<1>8. \A p \in (d + 1)..(m - 1) : Image[p] = <<input[p]>>
  <2>1. SUFFICES ASSUME NEW p \in (d + 1)..(m - 1)
                 PROVE  Image[p] = <<input[p]>>
    OBVIOUS
  <2>2. p \in 1..n /\ p \notin Matches
    BY <1>2, <1>3
  <2>3. \A i \in Matches : p \notin (i + 1)..(i + Len(old_value) - 1)
    BY <1>1, <1>2, <1>3, <1>4
  <2>4. QED
    BY <1>5, <1>7, <2>2, <2>3
<1>9. Image[m] = New
  BY <1>2, <1>6, <1>7
<1>10. \A p \in (m + 1)..e : Image[p] = <<>>
  <2>1. SUFFICES ASSUME NEW p \in (m + 1)..e
                 PROVE  Image[p] = <<>>
    OBVIOUS
  <2>2. p \in 1..n /\ p \in (m + 1)..(m + Len(old_value) - 1)
    BY <1>1, <1>2 DEF e, m
  <2>3. p \notin Matches
    <3>1. ASSUME p \in Matches PROVE FALSE
      <4>1. m + Len(old_value) <= p
        BY <1>2, <1>3, <2>2, <3>1, MatchFacts
      <4>2. QED
        BY <1>1, <1>2, <2>2, <4>1
    <3>2. QED
      BY <3>1
  <2>4. QED
    BY <1>5, <1>6, <1>7, <2>2, <2>3
<1>11. Text(Image, m - 1) = Text(Image, d) \o SubSeq(input, d + 1, m - 1)
  <2>1. input \in Seq(Char) /\ Len(Image) = Len(input)
    BY <1>7, Lengths DEF n
  <2>2. d \in 0..Len(input) /\ m - 1 \in d..Len(input)
    BY <1>2 DEF n
  <2>3. QED
    BY <1>7, <1>8, <2>1, <2>2, TextCopies
<1>12. Text(Image, m) = Text(Image, m - 1) \o New
  <2>1. m \in 1..Len(Image)
    BY <1>2, <1>7
  <2>2. Text(Image, m) = Text(Image, m - 1) \o Image[m]
    BY <1>7, <2>1, TextNext
  <2>3. QED
    BY <1>9, <2>2
<1>13. Text(Image, e) = Text(Image, m)
  <2>1. m \in 0..Len(Image) /\ e \in m..Len(Image)
    BY <1>2, <1>7
  <2>2. QED
    BY <1>7, <1>10, <2>1, TextDrops
<1>14. SubSeq(current, 1, Pos - 1) = SubSeq(input, d + 1, m - 1)
  <2>1. SubSeq(SubSeq(input, d + 1, n), 1, Pos - 1) = SubSeq(input, d + 1, d + (Pos - 1))
    <3>1. /\ input \in Seq(Char) /\ d \in 0..Len(input) /\ 1 \in Nat /\ 1 >= 1
          /\ Pos - 1 \in (1 - 1)..(Len(input) - d)
      BY <1>1, <1>2, Lengths DEF n, d
    <3>2. QED
      BY <3>1, SubSeqOfRest DEF n
  <2>2. d + (Pos - 1) = m - 1 /\ current = SubSeq(input, d + 1, n)
    BY <1>1 DEF d, m, n, Position
  <2>3. QED
    BY <2>1, <2>2
<1>15. QED
  BY <1>11, <1>12, <1>13, <1>14 DEF d, m, e

\* When the loop ends, the rest is copied.
LEMMA TextOfRest ==
  ASSUME StringReplaceAssumption, TypeOK, Position, old_value # <<>>, k = 0 \/ ~Found
  PROVE  Replaced(input, old_value, New, times) = Text(Image, done) \o current
<1> DEFINE d == done  n == Len(input)
<1>1. d \in Nat /\ n \in Nat /\ d <= n /\ Len(old_value) \in Nat
  BY Lengths DEF Position
<1>2. \A i \in Matches : i <= d => i + Len(old_value) - 1 <= d
  BY DEF Position
<1>3. \A i \in Taken(input, old_value, times) : i \in Int /\ i <= d /\ i \in Matches
  <2>1. SUFFICES ASSUME NEW i \in Taken(input, old_value, times), ~(i \in Int /\ i <= d)
                 PROVE  FALSE
    BY DEF Taken, Matches
  <2>2. i \in Matches
    BY DEF Taken, Matches
  <2>3. i \in Int /\ d < i /\ i \in Occurrences(input, old_value)
    BY <1>1, <2>1, <2>2, MatchFacts
  <2>4. Found
    <3>1. PICK q \in Int : q = i - d
      BY <1>1, <2>3
    <3>2. q >= 1 /\ q + d = i
      BY <1>1, <2>3, <3>1
    <3>3. q \in Occurrences(current, old_value)
      BY <2>3, <3>2, CurrentOccurrences
    <3>4. QED
      BY <3>3 DEF Found
  <2>5. k = 0 /\ d + 1 \in Int
    BY <1>1, <2>4
  <2>6. /\ IsFiniteSet(Before(i)) /\ Cardinality(Before(i)) \in Nat
        /\ Cardinality(Before(d + 1)) \in Nat
        /\ times < 0 \/ Cardinality(Before(i)) < times
    BY <2>3, <2>5, BeforeFacts
  <2>7. Before(d + 1) \subseteq Before(i)
    <3>1. \A j \in Matches : j \in Int
      BY MatchFacts
    <3>2. QED
      BY <1>1, <2>3, <3>1 DEF Before
  <2>8. Cardinality(Before(d + 1)) <= Cardinality(Before(i))
    BY <2>6, <2>7, FS_Subset
  <2>9. times >= 0 /\ k = times - Cardinality(Before(d + 1))
    BY <2>5, Lengths DEF Position
  <2>10. QED
    BY <2>5, <2>6, <2>8, <2>9, Lengths
<1> HIDE DEF d, n
<1>4. /\ Image \in Seq(Seq(Char)) /\ Len(Image) = n
      /\ \A p \in 1..n :
           Image[p] = IF p \in Taken(input, old_value, times) THEN New
                      ELSE IF \E i \in Taken(input, old_value, times) :
                                p \in (i + 1)..(i + Len(old_value) - 1) THEN <<>>
                      ELSE <<input[p]>>
  BY ImageFacts DEF n
<1>5. \A p \in (d + 1)..n : Image[p] = <<input[p]>>
  <2>1. SUFFICES ASSUME NEW p \in (d + 1)..n
                 PROVE  Image[p] = <<input[p]>>
    OBVIOUS
  <2>2. p \in 1..n /\ p \notin Taken(input, old_value, times)
    BY <1>1, <1>3
  <2>3. \A i \in Taken(input, old_value, times) : p \notin (i + 1)..(i + Len(old_value) - 1)
    BY <1>1, <1>2, <1>3
  <2>4. QED
    BY <1>4, <2>2, <2>3
<1>6. Text(Image, n) = Text(Image, d) \o SubSeq(input, d + 1, n)
  <2>1. input \in Seq(Char) /\ Len(Image) = Len(input)
    BY <1>4, Lengths DEF n
  <2>2. d \in 0..Len(input) /\ n \in d..Len(input)
    BY <1>1 DEF n
  <2>3. QED
    BY <1>4, <1>5, <2>1, <2>2, TextCopies
<1>7. Replaced(input, old_value, New, times) = FlattenSeq(Image)
  BY DEF Replaced, Image
<1>8. SubSeq(Image, 1, n) = Image
  <2> DEFINE D == Seq(Char)
  <2>1. Image \in Seq(D) /\ Len(Image) = n
    BY <1>4
  <2> HIDE DEF D
  <2>2. QED
    BY <2>1, SubSeqFull
<1>9. QED
  BY <1>6, <1>7, <1>8 DEF Text, Position, d, n

(***************************************************************************)
(* The steps.                                                              *)
(***************************************************************************)
LEMMA InitIInv ==
  ASSUME StringReplaceAssumption, Init
  PROVE  IInv
<1>1. \A n \in Nat : SeqOf(Char, n) \subseteq Seq(Char)
  BY DEF SeqOf
<1>2. input \in Seq(Char) /\ old_value \in Seq(Char) /\ <<>> \in Seq(Char)
  BY <1>1 DEF Init, StringReplaceAssumption
<1>3. TypeOK
  BY <1>2 DEF Init, TypeOK, StringReplaceAssumption
<1>4. ASSUME old_value # <<>>
      PROVE  Position /\ result = Text(Image, done)
  <2>1. done = 0
    BY <1>3, Lengths DEF Init, done
  <2>2. current = SubSeq(input, done + 1, Len(input))
    <3>1. SubSeq(input, 1, Len(input)) = input
      BY <1>2, SubSeqFull
    <3>2. QED
      BY <2>1, <3>1 DEF Init
  <2>3. \A i \in Matches : i \in Int /\ i >= 1
    BY <1>3, <1>4, MatchFacts, Lengths
  <2>4. Before(done + 1) = {}
    BY <2>1, <2>3 DEF Before
  <2>5. Cardinality(Before(done + 1)) = 0
    BY <2>4, FS_EmptySet
  <2>6. Position
    BY <1>3, <2>1, <2>2, <2>3, <2>5, Lengths DEF Init, Position
  <2>7. Image \in Seq(Seq(Char))
    BY <1>3, <1>4, ImageFacts
  <2>8. QED
    BY <2>1, <2>6, <2>7, TextNone DEF Init
<1>5. QED
  BY <1>3, <1>4 DEF Init, IInv, ResultIsReplaced

LEMMA ReturnInputKeeps ==
  ASSUME StringReplaceAssumption, IInv, ReturnInput
  PROVE  IInv'
<1>1. TypeOK'
  BY DEF IInv, TypeOK, ReturnInput
<1>2. old_value' = <<>> /\ result' = input' /\ returned'
  BY DEF ReturnInput
<1>3. ResultIsReplaced'
  BY <1>2 DEF ResultIsReplaced, Replaced
<1>4. QED
  BY <1>1, <1>2, <1>3 DEF IInv

LEMMA ReplaceNextKeeps ==
  ASSUME StringReplaceAssumption, IInv, ReplaceNext
  PROVE  IInv'
<1>1. /\ TypeOK /\ Position /\ old_value # <<>> /\ k # 0 /\ Found /\ ~returned
      /\ result = Text(Image, done)
  BY DEF IInv, ReplaceNext
<1>2. /\ input' = input /\ old_value' = old_value /\ times' = times /\ returned' = returned
      /\ result' = result \o SubSeq(current, 1, Pos - 1) \o New
      /\ current' = SubSeq(current, Pos + Len(old_value), Len(current))
      /\ k' = IF k > 0 THEN k - 1 ELSE k
  BY DEF ReplaceNext
<1> DEFINE L == Len(old_value)  N == Len(input)  d == done  e == done + Pos + L - 1
<1>3. /\ d \in Nat /\ Pos \in Nat /\ Pos >= 1 /\ L >= 1 /\ L \in Nat /\ N \in Nat
      /\ Len(current) = N - d /\ Pos + L - 1 <= Len(current) /\ d <= N
  <2>1. Len(current) = Len(input) - done
    BY <1>1, Lengths DEF done
  <2>2. QED
    BY <1>1, <2>1, PosFacts, Lengths DEF Position
<1>4. current \in Seq(Char) /\ input \in Seq(Char) /\ result \in Seq(Char)
  BY <1>1, Lengths
<1>5. TypeOK'
  <2>1. SubSeq(current, 1, Pos - 1) \in Seq(Char)
    BY <1>3, <1>4
  <2>2. current' \in Seq(Char)
    BY <1>2, <1>3, <1>4
  <2>3. result' \in Seq(Char)
    BY <1>2, <1>4, <2>1 DEF StringReplaceAssumption
  <2>4. k' \in -1..MaxTimes
    BY <1>1, <1>2 DEF TypeOK, StringReplaceAssumption
  <2>5. QED
    BY <1>1, <1>2, <2>2, <2>3, <2>4 DEF TypeOK
<1>6. current' = SubSeq(input, e + 1, N)
  <2> DEFINE q == Pos + L  r == N - d
  <2>1. q \in Nat /\ r \in Nat
    BY <1>3
  <2>2. q >= 1 /\ r \in (q - 1)..(Len(input) - d) /\ d \in 0..Len(input)
    BY <1>3, <2>1
  <2>3. SubSeq(SubSeq(input, d + 1, Len(input)), q, r) = SubSeq(input, d + q, d + r)
    <3> HIDE DEF q, r, d
    <3>1. QED
      BY <1>4, <2>1, <2>2, SubSeqOfRest
  <2>4. d + q = e + 1 /\ d + r = N
    BY <1>3, <2>1
  <2>5. current = SubSeq(input, d + 1, Len(input))
    BY <1>1 DEF Position
  <2>6. QED
    BY <1>2, <1>3, <2>1, <2>3, <2>4, <2>5
<1>7. e \in 0..N /\ e \in Nat
  BY <1>3
<1>8. done' = e
  <2>1. Len(SubSeq(input, e + 1, N)) = N - e
    <3> HIDE DEF e
    <3>1. QED
      BY <1>3, <1>4, <1>7, RestLength
  <2>2. Len(input') = N /\ Len(current') = N - e
    BY <1>2, <1>6, <2>1
  <2>3. done' = Len(input') - Len(current')
    BY DEF done
  <2> HIDE DEF N, e
  <2>4. QED
    BY <1>3, <1>7, <2>2, <2>3
<1>9. Matches' = Matches /\ Image' = Image
  BY <1>2 DEF Matches, Image
<1>10. \A i \in Matches : i <= e => i + L - 1 <= e
  <2>1. SUFFICES ASSUME NEW i \in Matches, i <= e
                 PROVE  i + L - 1 <= e
    OBVIOUS
  <2>2. i \in Nat /\ (i <= d \/ d + Pos <= i) /\ d + Pos \in Matches
    BY <1>1, PosFacts, MatchFacts, Lengths
  <2>3. i <= d => i + L - 1 <= d
    BY <1>1 DEF Position
  <2>4. d + Pos < i => d + Pos + L <= i
    BY <1>1, <2>2, MatchFacts
  <2>5. QED
    BY <1>3, <2>1, <2>2, <2>3, <2>4
<1>11. IF times < 0 THEN k' = times
       ELSE k' = times - Cardinality(Before(e + 1)) /\ k' >= 0
  <2>1. Cardinality(Before(e + 1)) = Cardinality(Before(d + 1)) + 1
    <3>1. e + 1 = d + Pos + L
      BY <1>3
    <3>2. QED
      BY <1>1, <3>1, BeforeNext
  <2>2. Cardinality(Before(d + 1)) \in Nat
    <3>1. d + 1 \in Int
      BY <1>3
    <3>2. QED
      BY <1>1, <3>1, BeforeFacts
  <2>3. IF times < 0 THEN k = times
        ELSE k = times - Cardinality(Before(d + 1)) /\ k >= 0
    BY <1>1 DEF Position
  <2>4. times \in Int /\ k \in Int
    BY <1>1, Lengths
  <2>5. QED
    BY <1>1, <1>2, <2>1, <2>2, <2>3, <2>4
<1>12. Position'
  <2>1. \A p : Before(p)' = Before(p)
    BY <1>9 DEF Before
  <2>2. Cardinality(Before(done + 1))' = Cardinality(Before(e + 1))
    BY <1>8, <1>9 DEF Before
  <2>3. done' \in 0..Len(input') /\ current' = SubSeq(input', done' + 1, Len(input'))
    BY <1>2, <1>6, <1>7, <1>8
  <2>4. \A i \in Matches' : i <= done' => i + Len(old_value') - 1 <= done'
    BY <1>2, <1>8, <1>9, <1>10
  <2>5. QED
    BY <1>2, <1>11, <2>2, <2>3, <2>4 DEF Position
<1>13. result' = Text(Image', done')
  <2>1. Text(Image, e) = Text(Image, done) \o SubSeq(current, 1, Pos - 1) \o New
    BY <1>1, TextOfIteration
  <2>2. QED
    BY <1>1, <1>2, <1>8, <1>9, <2>1
<1>14. QED
  BY <1>1, <1>2, <1>5, <1>12, <1>13 DEF IInv, ResultIsReplaced, Text

LEMMA AppendRestKeeps ==
  ASSUME StringReplaceAssumption, IInv, AppendRest
  PROVE  IInv'
<1>1. /\ TypeOK /\ Position /\ old_value # <<>> /\ (k = 0 \/ ~Found) /\ ~returned
      /\ result = Text(Image, done)
  BY DEF IInv, AppendRest
<1>2. /\ input' = input /\ old_value' = old_value /\ times' = times /\ returned' = TRUE
      /\ current' = current /\ k' = k /\ result' = result \o current
  BY DEF AppendRest
<1>3. result' = Replaced(input, old_value, New, times)
  BY <1>1, <1>2, TextOfRest
<1>4. TypeOK'
  <2>1. result' \in Seq(Char)
    BY <1>1, <1>2, Lengths
  <2>2. QED
    BY <1>1, <1>2, <2>1 DEF TypeOK
<1>5. Position'
  BY <1>1, <1>2 DEF Position, done, Matches, Before
<1>6. ResultIsReplaced'
  BY <1>2, <1>3 DEF ResultIsReplaced
<1>7. QED
  BY <1>1, <1>2, <1>4, <1>5, <1>6 DEF IInv

LEMMA StutterKeeps ==
  ASSUME IInv, UNCHANGED vars
  PROVE  IInv'
BY DEF IInv, TypeOK, Position, done, Matches, Before, Image, ResultIsReplaced, vars

(***************************************************************************)
(* The loop of string_replace (util.hpp:122) keeps its invariant.          *)
(***************************************************************************)
THEOREM Invariance == Spec => []IInv
<1> USE StringReplaceAssumption
<1>1. Init => IInv
  BY InitIInv
<1>2. IInv /\ [Next]_vars => IInv'
  BY ReturnInputKeeps, ReplaceNextKeeps, AppendRestKeeps, StutterKeeps DEF Next
<1>3. QED
  BY <1>1, <1>2, PTL DEF Spec

(***************************************************************************)
(* The local variables of the loop have their types: in particular k never *)
(* goes below -1, which would make the loop one without a limit.           *)
(***************************************************************************)
THEOREM TypeCorrect == Spec => []TypeOK
<1>1. IInv => TypeOK
  BY DEF IInv
<1>2. QED
  BY <1>1, Invariance, PTL

(***************************************************************************)
(* What string_replace returns is, for any strings and any k, the closed   *)
(* form: the first k occurrences of a scan from the left are replaced, and *)
(* nothing inside a replacement ever is.                                   *)
(***************************************************************************)
THEOREM ResultCorrect == Spec => []ResultIsReplaced
<1>1. IInv => ResultIsReplaced
  BY DEF IInv
<1>2. QED
  BY <1>1, Invariance, PTL

(***************************************************************************)
(* Each iteration leaves less of current, so that the loop ends.           *)
(***************************************************************************)
THEOREM IterationsShorten == Spec => IterationShortens
<1> USE StringReplaceAssumption
<1>1. ASSUME IInv, [Next]_vars, result' # result, ~returned'
      PROVE  Len(current') < Len(current)
  <2>1. ReplaceNext
    BY <1>1 DEF Next, ReturnInput, AppendRest, vars
  <2>2. TypeOK /\ Position /\ old_value # <<>> /\ Found
    BY <1>1, <2>1 DEF IInv, ReplaceNext
  <2>3. /\ Pos \in Nat /\ Pos >= 1 /\ Len(old_value) \in Nat /\ Len(old_value) >= 1
        /\ Len(current) \in Nat /\ current \in Seq(Char)
        /\ Pos + Len(old_value) - 1 <= Len(current)
    BY <2>2, PosFacts, Lengths
  <2>4. Len(SubSeq(current, Pos + Len(old_value), Len(current)))
          = Len(current) - (Pos + Len(old_value)) + 1
    BY <2>3
  <2>5. current' = SubSeq(current, Pos + Len(old_value), Len(current))
    BY <2>1 DEF ReplaceNext
  <2>6. QED
    BY <2>3, <2>4, <2>5
<1>2. IInv /\ [Next]_vars => [result' # result /\ ~returned' => Len(current') < Len(current)]_vars
  BY <1>1
<1>3. QED
  BY <1>2, Invariance, PTL DEF Spec, IterationShortens
=============================================================================

-------------------------- MODULE SharedMmapProofs --------------------------
(***************************************************************************)
(* Theorems about SharedMmap, and with it about Mmap, for any objects,     *)
(* holders, handles, regions, page size, width of size_t and file size.    *)
(***************************************************************************)
EXTENDS SharedMmap, TLAPS

(***************************************************************************)
(* Pages and size_t.                                                       *)
(***************************************************************************)
LEMMA ModFacts ==
  ASSUME NEW w \in Nat \ {0}
  PROVE  /\ \A a \in Int : a % w \in 0..(w - 1)
         /\ \A a \in 0..(w - 1) : a % w = a
         /\ \A a \in w..(2 * w - 1) : a % w = a - w
         /\ \A a \in (-w)..(-1) : a % w = a + w
OBVIOUS

LEMMA PageDown ==
  ASSUME NEW p \in Nat \ {0}, NEW a \in Nat
  PROVE  /\ (a \div p) \in Nat
         /\ (a \div p) * p \in Nat
         /\ (a \div p) * p <= a
         /\ a < (a \div p) * p + p
OBVIOUS

\* The pages of a range that mmap accepts fit into size_t.
LEMMA PagesFit ==
  ASSUME MmapAssumption, NEW n \in Nat, n < Word \div 2
  PROVE  /\ InPages(n) \in Sizes
         /\ n <= InPages(n)
<1> DEFINE p == PageSize
           k == Word \div p
           c == (n + p - 1) \div p
<1>1. p \in Nat \ {0} /\ Word \in Nat /\ Word > 0 /\ Word % p = 0 /\ k % 2 = 0
  BY DEF MmapAssumption
<1>2. k \in Nat /\ k * p = Word
  BY <1>1
<1>3. PICK j \in Nat : k = 2 * j
  <2>1. k \div 2 \in Nat /\ k = 2 * (k \div 2)
    BY <1>1, <1>2
  <2>2. QED
    BY <2>1
<1>4. Word = 2 * (j * p) /\ j * p \in Nat
  BY <1>1, <1>2, <1>3
<1>5. Word \div 2 = j * p
  BY <1>4
<1>6. c \in Nat /\ c * p \in Nat /\ c * p <= n + p - 1 /\ n + p - 1 < c * p + p
  BY <1>1, PageDown
<1>7. c <= j
  <2>1. SUFFICES ASSUME c >= j + 1 PROVE FALSE
    BY <1>3, <1>6
  <2>2. c * p >= (j + 1) * p
    BY <2>1, <1>1, <1>3, <1>6
  <2>3. (j + 1) * p = j * p + p
    BY <1>1, <1>3
  <2>4. QED
    BY <2>2, <2>3, <1>1, <1>4, <1>5, <1>6
<1>8. c * p <= j * p
  BY <1>7, <1>1, <1>3, <1>6
<1>9. InPages(n) = c * p
  BY DEF InPages
<1>10. c * p \in Nat /\ c * p < Word /\ n <= c * p
  BY <1>8, <1>1, <1>4, <1>6
<1>11. QED
  BY <1>9, <1>10, <1>1 DEF Sizes

(***************************************************************************)
(* The inductive invariant, as a predicate on members, regions, handles    *)
(* and leaked handles, so that it can be said of a state in the middle of  *)
(* a call.  A mapping is right by itself, or there is none.                *)
(***************************************************************************)
Covers(x) ==
  x.asked[1] + x.asked[2] < Word =>
    /\ x.asked[1] + x.length_ <= Size
    /\ x.length_ = (IF x.asked[2] = map_entire_file THEN Size - x.asked[1] ELSE x.asked[2])
    /\ x.disp + x.length_ <= InPages(x.mapped_length_)

Whole(x) ==
  /\ x \in Mapping
  /\ is_open(x) => /\ x.at # NoRegion
                   /\ x.disp = mapping_offset(x)
                   /\ InPages(x.mapped_length_) \in Sizes \ {0}
                   /\ Covers(x)
  /\ ~is_open(x) => x.at = NoRegion

Belongs(x, h) == x.file_handle_ = h /\ x.is_handle_internal_

\* Who closes which handle.
HandlesFit(m, f, l) ==
  /\ f \in [Handle -> {"closed", "user", "lib"}]
  /\ l \subseteq Handle
  /\ \A h \in Handle : f[h] = "lib" <=> (h \in l \/ \E o \in Obj : Belongs(m[o], h))
  /\ \A h \in l, o \in Obj : ~Belongs(m[o], h)
  /\ \A h \in Handle, o, q \in Obj : Belongs(m[o], h) /\ Belongs(m[q], h) => o = q

\* Who unmaps which region.
RegionsFit(m, g) ==
  /\ g \in [Region -> Sizes]
  /\ \A r \in Region : g[r] # 0 => \E o \in Obj : m[o].at = r
  /\ \A o \in Obj : m[o].at # NoRegion => g[m[o].at] = InPages(m[o].mapped_length_)
  /\ \A o, q \in Obj : m[o].at = m[q].at => o = q \/ m[o].at = NoRegion

Consistent(m, g, f, l) ==
  /\ m \in [Obj -> Mapping]
  /\ \A o \in Obj : Whole(m[o])
  /\ HandlesFit(m, f, l)
  /\ RegionsFit(m, g)

MmapInv ==
  /\ alive \subseteq Obj
  /\ error \in BOOLEAN
  /\ Consistent(mm, region, fd, leaked)
  /\ \A o \in Obj \ alive : ~is_open(mm[o])

\* What shared_ptr sees to: the objects on the heap are those that are held.
HeapIsHeld == heap = {pimpl_[s] : s \in Holder} \ {Nobody}

HeapInv ==
  /\ pimpl_ \in [Holder -> heap \cup {Nobody}]
  /\ heap \subseteq alive
  /\ HeapIsHeld

IInv == MmapInv /\ HeapInv

\* What a step leaves alone: the handles of the caller, everything if it
\* fails, and the objects that are not in O.
UserKept ==
  \A h \in Handle : fd[h] = "user" /\ fd'[h] # "user" => UNCHANGED <<alive, mm, region>>

FailureKept ==
  error' => /\ UNCHANGED <<alive, mm, region>>
            /\ \A h \in Handle : fd[h] # "closed" => fd'[h] = fd[h]

OthersKept(O) == \A o \in alive \ O : o \in alive' /\ mm'[o] = mm[o]

\* An object without a mapping.
Vacant(d) == Whole(d) /\ ~is_open(d)

LEMMA DefaultVacant ==
  ASSUME MmapAssumption, NEW b \in BOOLEAN
  PROVE  Vacant(Default(b))
<1>1. Word > 0 /\ Word \in Nat
  BY DEF MmapAssumption
<1>2. 0 \in Sizes
  BY <1>1 DEF Sizes
<1>3. Default(b) \in Mapping
  BY <1>2 DEF Mapping, Default
<1>4. QED
  BY <1>3 DEF Vacant, Whole, Default, is_open

LEMMA UnmappedVacant ==
  ASSUME MmapAssumption, NEW x, Whole(x)
  PROVE  Vacant(Unmapped(x))
<1>1. x.is_handle_internal_ \in BOOLEAN
  BY DEF Whole, Mapping
<1>2. CASE is_open(x)
  BY <1>1, <1>2, DefaultVacant DEF Unmapped
<1>3. CASE ~is_open(x)
  BY <1>3 DEF Unmapped, Vacant
<1>4. QED
  BY <1>2, <1>3

\* A handle belongs to an object with a mapping, and Invalid is none.
LEMMA OpenFacts ==
  ASSUME MmapAssumption, NEW x, Whole(x)
  PROVE  /\ is_open(x) <=> x.file_handle_ \in Handle
         /\ is_open(x) <=> x.at \in Region
         /\ \A h \in Handle : Belongs(x, h) => is_open(x)
<1>1. Invalid \notin Handle /\ NoRegion \notin Region
  BY DEF MmapAssumption, Invalid
<1>2. x.file_handle_ \in Handle \cup {Invalid} /\ x.at \in Region \cup {NoRegion}
  BY DEF Whole, Mapping
<1>3. QED
  BY <1>1, <1>2 DEF Whole, is_open, Belongs

(***************************************************************************)
(* The pieces that calls are made of.                                      *)
(***************************************************************************)
\* An object that has nothing takes all that another has.
LEMMA Moved ==
  ASSUME MmapAssumption, NEW m, NEW g, NEW f, NEW l, Consistent(m, g, f, l),
         NEW o \in Obj, NEW q \in Obj, o # q, ~is_open(m[o]), NEW d, Vacant(d)
  PROVE  Consistent([m EXCEPT ![o] = m[q], ![q] = d], g, f, l)
<1> DEFINE n == [m EXCEPT ![o] = m[q], ![q] = d]
<1>1. /\ m \in [Obj -> Mapping] /\ HandlesFit(m, f, l) /\ RegionsFit(m, g)
      /\ \A x \in Obj : Whole(m[x])
      /\ Whole(d) /\ d \in Mapping
  BY DEF Consistent, Vacant, Whole
<1>2. /\ n \in [Obj -> Mapping] /\ n[o] = m[q] /\ n[q] = d
      /\ \A x \in Obj \ {o, q} : n[x] = m[x]
  BY <1>1
<1> HIDE DEF n
<1>3. \A x \in Obj : Whole(n[x])
  BY <1>1, <1>2
<1>4. /\ m[o].at = NoRegion /\ d.at = NoRegion
      /\ \A h \in Handle : ~Belongs(m[o], h) /\ ~Belongs(d, h)
  BY <1>1, OpenFacts DEF Vacant, Whole
<1>5. HandlesFit(n, f, l)
  <2>1. /\ f \in [Handle -> {"closed", "user", "lib"}] /\ l \subseteq Handle
        /\ \A h \in Handle : f[h] = "lib" <=> (h \in l \/ \E x \in Obj : Belongs(m[x], h))
        /\ \A h \in l, x \in Obj : ~Belongs(m[x], h)
        /\ \A h \in Handle, x, y \in Obj : Belongs(m[x], h) /\ Belongs(m[y], h) => x = y
    BY <1>1 DEF HandlesFit
  <2>2. \A h \in Handle, x \in Obj : Belongs(n[x], h) <=>
          \/ x \notin {o, q} /\ Belongs(m[x], h)
          \/ x = o /\ Belongs(m[q], h)
    BY <1>2, <1>4
  <2>3. \A h \in Handle : (\E x \in Obj : Belongs(n[x], h)) <=> (\E x \in Obj : Belongs(m[x], h))
    BY <2>2, <1>4
  <2>4. \A h \in l, x \in Obj : ~Belongs(n[x], h)
    BY <2>1, <2>2
  <2>5. \A h \in Handle, x, y \in Obj : Belongs(n[x], h) /\ Belongs(n[y], h) => x = y
    BY <2>1, <2>2
  <2>6. QED
    BY <2>1, <2>3, <2>4, <2>5 DEF HandlesFit
<1>6. RegionsFit(n, g)
  <2>1. \A r \in Region : g[r] # 0 => \E x \in Obj : n[x].at = r
    <3>1. SUFFICES ASSUME NEW r \in Region, g[r] # 0
                   PROVE  \E x \in Obj : n[x].at = r
      OBVIOUS
    <3>2. PICK x \in Obj : m[x].at = r
      BY <3>1, <1>1 DEF RegionsFit
    <3>3. x # o
      BY <3>2, <1>4 DEF MmapAssumption
    <3>4. QED
      BY <3>2, <3>3, <1>2
  <2>2. \A x \in Obj : n[x].at # NoRegion => g[n[x].at] = InPages(n[x].mapped_length_)
    BY <1>1, <1>2, <1>4 DEF RegionsFit
  <2>3. \A x, y \in Obj : n[x].at = n[y].at => x = y \/ n[x].at = NoRegion
    BY <1>1, <1>2, <1>4 DEF RegionsFit
  <2>4. QED
    BY <2>1, <2>2, <2>3, <1>1 DEF RegionsFit
<1>7. QED
  BY <1>2, <1>3, <1>5, <1>6 DEF Consistent, n

\* Two objects exchange all they have.
LEMMA Swapped ==
  ASSUME NEW m, NEW g, NEW f, NEW l, Consistent(m, g, f, l),
         NEW o \in Obj, NEW q \in Obj, o # q
  PROVE  Consistent([m EXCEPT ![o] = m[q], ![q] = m[o]], g, f, l)
<1> DEFINE n == [m EXCEPT ![o] = m[q], ![q] = m[o]]
<1>1. /\ m \in [Obj -> Mapping] /\ HandlesFit(m, f, l) /\ RegionsFit(m, g)
      /\ \A x \in Obj : Whole(m[x])
  BY DEF Consistent
<1>2. /\ n \in [Obj -> Mapping] /\ n[o] = m[q] /\ n[q] = m[o]
      /\ \A x \in Obj \ {o, q} : n[x] = m[x]
  BY <1>1
<1> HIDE DEF n
<1>3. \A x \in Obj : Whole(n[x])
  BY <1>1, <1>2
<1>4. HandlesFit(n, f, l)
  <2>1. \A h \in Handle : (\E x \in Obj : Belongs(n[x], h)) <=> (\E x \in Obj : Belongs(m[x], h))
    BY <1>2
  <2>2. \A h \in l, x \in Obj : ~Belongs(n[x], h)
    BY <1>1, <1>2 DEF HandlesFit
  <2>3. \A h \in Handle, x, y \in Obj : Belongs(n[x], h) /\ Belongs(n[y], h) => x = y
    BY <1>1, <1>2 DEF HandlesFit
  <2>4. QED
    BY <2>1, <2>2, <2>3, <1>1 DEF HandlesFit
<1>5. RegionsFit(n, g)
  <2>1. \A r \in Region : (\E x \in Obj : n[x].at = r) <=> (\E x \in Obj : m[x].at = r)
    BY <1>2
  <2>2. \A x \in Obj : n[x].at # NoRegion => g[n[x].at] = InPages(n[x].mapped_length_)
    BY <1>1, <1>2 DEF RegionsFit
  <2>3. \A x, y \in Obj : n[x].at = n[y].at => x = y \/ n[x].at = NoRegion
    BY <1>1, <1>2 DEF RegionsFit
  <2>4. QED
    BY <2>1, <2>2, <2>3, <1>1 DEF RegionsFit
<1>6. QED
  BY <1>2, <1>3, <1>4, <1>5 DEF Consistent, n

\* What has a mapping hits it when it unmaps.
LEMMA Hits ==
  ASSUME MmapAssumption, NEW m, NEW f, NEW l, Consistent(m, region, f, l),
         NEW o \in Obj, is_open(m[o])
  PROVE  MunmapHits(m[o])
<1>1. Whole(m[o]) /\ RegionsFit(m, region)
  BY DEF Consistent
<1>2. QED
  BY <1>1 DEF Whole, RegionsFit, MunmapHits

\* unmap: one region and the handle that belongs to it are given back.
LEMMA Released ==
  ASSUME MmapAssumption, NEW m, NEW f, NEW l, Consistent(m, region, f, l),
         NEW o \in Obj, NEW d, Vacant(d)
  PROVE  Consistent([m EXCEPT ![o] = d], RegionsWithout(m[o]), HandlesWithout(m[o], f), l)
<1> DEFINE n == [m EXCEPT ![o] = d]
           g == RegionsWithout(m[o])
           e == HandlesWithout(m[o], f)
<1>1. /\ m \in [Obj -> Mapping] /\ HandlesFit(m, f, l) /\ RegionsFit(m, region)
      /\ \A x \in Obj : Whole(m[x])
      /\ Whole(d) /\ d \in Mapping
  BY DEF Consistent, Vacant, Whole
<1>2. /\ n \in [Obj -> Mapping] /\ n[o] = d
      /\ \A x \in Obj \ {o} : n[x] = m[x]
  BY <1>1
<1>3. \A x \in Obj : Whole(n[x])
  BY <1>1, <1>2
<1>4. /\ d.at = NoRegion
      /\ \A h \in Handle : ~Belongs(d, h)
  BY <1>1, OpenFacts DEF Vacant, Whole
<1>5. \A h \in Handle : e[h] = IF Belongs(m[o], h) THEN "closed" ELSE f[h]
  <2>1. is_open(m[o]) <=> m[o].file_handle_ \in Handle
    BY <1>1, OpenFacts
  <2>2. f \in [Handle -> {"closed", "user", "lib"}]
    BY <1>1 DEF HandlesFit
  <2>3. QED
    BY <2>1, <2>2 DEF HandlesWithout, Belongs
<1>6. e \in [Handle -> {"closed", "user", "lib"}]
  BY <1>1 DEF HandlesFit, HandlesWithout
<1>7. \A r \in Region : g[r] = IF r = m[o].at THEN 0 ELSE region[r]
  <2>1. region \in [Region -> Sizes]
    BY <1>1 DEF RegionsFit
  <2>2. CASE is_open(m[o])
    BY <2>1, <2>2, Hits DEF RegionsWithout
  <2>3. CASE ~is_open(m[o])
    <3>1. m[o].at = NoRegion /\ NoRegion \notin Region
      BY <2>3, <1>1 DEF Whole, MmapAssumption
    <3>2. QED
      BY <3>1, <2>3 DEF RegionsWithout, MunmapHits
  <2>4. QED
    BY <2>2, <2>3
<1>8. g \in [Region -> Sizes]
  <2>1. 0 \in Sizes /\ region \in [Region -> Sizes]
    BY <1>1 DEF MmapAssumption, Sizes, RegionsFit
  <2>2. QED
    BY <2>1 DEF RegionsWithout
<1> HIDE DEF n, e, g
<1>9. HandlesFit(n, e, l)
  <2>1. /\ f \in [Handle -> {"closed", "user", "lib"}] /\ l \subseteq Handle
        /\ \A h \in Handle : f[h] = "lib" <=> (h \in l \/ \E x \in Obj : Belongs(m[x], h))
        /\ \A h \in l, x \in Obj : ~Belongs(m[x], h)
        /\ \A h \in Handle, x, y \in Obj : Belongs(m[x], h) /\ Belongs(m[y], h) => x = y
    BY <1>1 DEF HandlesFit
  <2>2. \A h \in Handle, x \in Obj : Belongs(n[x], h) <=> x # o /\ Belongs(m[x], h)
    BY <1>2, <1>4
  <2>3. \A h \in l, x \in Obj : ~Belongs(n[x], h)
    BY <2>1, <2>2
  <2>4. \A h \in Handle, x, y \in Obj : Belongs(n[x], h) /\ Belongs(n[y], h) => x = y
    BY <2>1, <2>2
  <2>5. ASSUME NEW h \in Handle
        PROVE  e[h] = "lib" <=> (h \in l \/ \E x \in Obj : Belongs(n[x], h))
    <3>1. CASE Belongs(m[o], h)
      BY <3>1, <2>1, <2>2, <1>5
    <3>2. CASE ~Belongs(m[o], h)
      BY <3>2, <2>1, <2>2, <1>5
    <3>3. QED
      BY <3>1, <3>2
  <2>6. QED
    BY <2>1, <2>3, <2>4, <2>5, <1>6 DEF HandlesFit
<1>10. RegionsFit(n, g)
  <2>1. /\ \A r \in Region : region[r] # 0 => \E x \in Obj : m[x].at = r
        /\ \A x \in Obj : m[x].at # NoRegion => region[m[x].at] = InPages(m[x].mapped_length_)
        /\ \A x, y \in Obj : m[x].at = m[y].at => x = y \/ m[x].at = NoRegion
    BY <1>1 DEF RegionsFit
  <2>2. \A r \in Region : g[r] # 0 => \E x \in Obj : n[x].at = r
    <3>1. SUFFICES ASSUME NEW r \in Region, g[r] # 0
                   PROVE  \E x \in Obj : n[x].at = r
      OBVIOUS
    <3>2. r # m[o].at /\ region[r] # 0
      BY <3>1, <1>7
    <3>3. PICK x \in Obj : m[x].at = r
      BY <3>2, <2>1
    <3>4. QED
      BY <3>2, <3>3, <1>2
  <2>3. ASSUME NEW x \in Obj, n[x].at # NoRegion
        PROVE  g[n[x].at] = InPages(n[x].mapped_length_)
    <3>1. x # o /\ n[x] = m[x]
      BY <2>3, <1>2, <1>4
    <3>2. m[x].at \in Region /\ m[x].at # m[o].at
      BY <3>1, <2>1, <2>3, <1>1, OpenFacts DEF Whole
    <3>3. QED
      BY <3>1, <3>2, <2>1, <2>3, <1>7
  <2>4. \A x, y \in Obj : n[x].at = n[y].at => x = y \/ n[x].at = NoRegion
    BY <2>1, <1>2, <1>4
  <2>5. QED
    BY <2>2, <2>3, <2>4, <1>8 DEF RegionsFit
<1>11. QED
  BY <1>2, <1>3, <1>9, <1>10 DEF Consistent, n, e, g

\* A vacant object takes a new mapping, with the handle of somebody else or
\* with one that was closed and is now the object's own.
LEMMA Taken ==
  ASSUME MmapAssumption, NEW m, NEW g, NEW f, NEW l, Consistent(m, g, f, l),
         NEW o \in Obj, ~is_open(m[o]), NEW x, Whole(x), is_open(x), g[x.at] = 0,
         x.is_handle_internal_ => f[x.file_handle_] = "closed",
         NEW e, e = IF x.is_handle_internal_ THEN [f EXCEPT ![x.file_handle_] = "lib"] ELSE f
  PROVE  Consistent([m EXCEPT ![o] = x], [g EXCEPT ![x.at] = InPages(x.mapped_length_)], e, l)
<1> DEFINE n == [m EXCEPT ![o] = x]
           k == [g EXCEPT ![x.at] = InPages(x.mapped_length_)]
<1>1. /\ m \in [Obj -> Mapping] /\ HandlesFit(m, f, l) /\ RegionsFit(m, g)
      /\ \A y \in Obj : Whole(m[y])
      /\ x \in Mapping
  BY DEF Consistent, Whole
<1>2. /\ n \in [Obj -> Mapping] /\ n[o] = x
      /\ \A y \in Obj \ {o} : n[y] = m[y]
  BY <1>1
<1>3. \A y \in Obj : Whole(n[y])
  BY <1>1, <1>2
<1>4. /\ m[o].at = NoRegion /\ x.at \in Region /\ x.file_handle_ \in Handle
      /\ \A h \in Handle : ~Belongs(m[o], h)
  BY <1>1, OpenFacts DEF Whole
<1>5. k \in [Region -> Sizes] /\ k[x.at] # 0 /\ \A r \in Region \ {x.at} : k[r] = g[r]
  BY <1>1, <1>4 DEF Whole, RegionsFit
<1>6. /\ e \in [Handle -> {"closed", "user", "lib"}]
      /\ \A h \in Handle : e[h] = IF Belongs(x, h) THEN "lib" ELSE f[h]
      /\ \A h \in Handle : Belongs(x, h) => f[h] = "closed"
  BY <1>1, <1>4 DEF HandlesFit, Belongs
<1> HIDE DEF n, k
<1>7. HandlesFit(n, e, l)
  <2>1. /\ l \subseteq Handle
        /\ \A h \in Handle : f[h] = "lib" <=> (h \in l \/ \E y \in Obj : Belongs(m[y], h))
        /\ \A h \in l, y \in Obj : ~Belongs(m[y], h)
        /\ \A h \in Handle, y, z \in Obj : Belongs(m[y], h) /\ Belongs(m[z], h) => y = z
    BY <1>1 DEF HandlesFit
  <2>2. \A h \in Handle, y \in Obj :
          Belongs(n[y], h) <=> (y = o /\ Belongs(x, h)) \/ (y # o /\ Belongs(m[y], h))
    BY <1>2
  <2>3. \A h \in Handle : Belongs(x, h) => h \notin l /\ \A y \in Obj : ~Belongs(m[y], h)
    BY <1>6, <2>1
  <2>4. \A h \in l, y \in Obj : ~Belongs(n[y], h)
    BY <2>1, <2>2, <2>3
  <2>5. \A h \in Handle, y, z \in Obj : Belongs(n[y], h) /\ Belongs(n[z], h) => y = z
    BY <2>1, <2>2, <2>3
  <2>6. ASSUME NEW h \in Handle
        PROVE  e[h] = "lib" <=> (h \in l \/ \E y \in Obj : Belongs(n[y], h))
    <3>1. CASE Belongs(x, h)
      BY <3>1, <2>2, <1>6
    <3>2. CASE ~Belongs(x, h)
      BY <3>2, <2>1, <2>2, <1>4, <1>6
    <3>3. QED
      BY <3>1, <3>2
  <2>7. QED
    BY <2>1, <2>4, <2>5, <2>6, <1>6 DEF HandlesFit
<1>8. RegionsFit(n, k)
  <2>1. /\ \A r \in Region : g[r] # 0 => \E y \in Obj : m[y].at = r
        /\ \A y \in Obj : m[y].at # NoRegion => g[m[y].at] = InPages(m[y].mapped_length_)
        /\ \A y, z \in Obj : m[y].at = m[z].at => y = z \/ m[y].at = NoRegion
    BY <1>1 DEF RegionsFit
  <2>2. ASSUME NEW y \in Obj, y # o, m[y].at # NoRegion
        PROVE  m[y].at \in Region /\ m[y].at # x.at
    <3>1. Whole(m[y]) /\ is_open(m[y])
      BY <1>1, <2>2 DEF Whole
    <3>2. g[m[y].at] # 0
      BY <3>1, <2>1, <2>2 DEF Whole
    <3>3. QED
      BY <3>1, <3>2, OpenFacts
  <2>3. \A r \in Region : k[r] # 0 => \E y \in Obj : n[y].at = r
    <3>1. SUFFICES ASSUME NEW r \in Region, k[r] # 0
                   PROVE  \E y \in Obj : n[y].at = r
      OBVIOUS
    <3>2. CASE r = x.at
      BY <3>2, <1>2
    <3>3. CASE r # x.at
      <4>1. PICK y \in Obj : m[y].at = r
        BY <3>1, <3>3, <1>5, <2>1
      <4>2. y # o
        BY <4>1, <1>4 DEF MmapAssumption
      <4>3. QED
        BY <4>1, <4>2, <1>2
    <3>4. QED
      BY <3>2, <3>3
  <2>4. ASSUME NEW y \in Obj, n[y].at # NoRegion
        PROVE  k[n[y].at] = InPages(n[y].mapped_length_)
    <3>1. CASE y = o
      BY <3>1, <1>1, <1>2, <1>4 DEF RegionsFit, k
    <3>2. CASE y # o
      BY <3>2, <1>2, <1>5, <2>1, <2>2, <2>4
    <3>3. QED
      BY <3>1, <3>2
  <2>5. \A y, z \in Obj : n[y].at = n[z].at => y = z \/ n[y].at = NoRegion
    BY <2>1, <2>2, <1>2
  <2>6. QED
    BY <2>3, <2>4, <2>5, <1>5 DEF RegionsFit
<1>9. QED
  BY <1>2, <1>3, <1>7, <1>8 DEF Consistent, n, k

\* The numbers of a mapping that map accepts.
LEMMA MapNumbers ==
  ASSUME MmapAssumption, NEW offset \in Sizes, NEW length \in Sizes,
         NEW aligned, aligned = make_offset_page_aligned(offset),
         NEW len, len = IF length = map_entire_file THEN (Size - offset) % Word ELSE length,
         NEW n, n = (offset - aligned + len) % Word,
         RangeValid(offset, length), MayMap(aligned, n)
  PROVE  /\ offset - aligned \in Sizes /\ len \in Sizes /\ n \in Sizes
         /\ offset - aligned = (n - len) % Word
         /\ InPages(n) \in Sizes \ {0}
         /\ offset + length < Word =>
              /\ offset + len <= Size
              /\ len = (IF length = map_entire_file THEN Size - offset ELSE length)
              /\ offset - aligned + len <= InPages(n)
<1>1. Word \in Nat \ {0} /\ Size \in Nat /\ 2 * Size < Word /\ PageSize \in Nat \ {0}
  BY DEF MmapAssumption
<1>2. /\ \A a \in Int : a % Word \in 0..(Word - 1)
      /\ \A a \in 0..(Word - 1) : a % Word = a
      /\ \A a \in Word..(2 * Word - 1) : a % Word = a - Word
      /\ \A a \in (-Word)..(-1) : a % Word = a + Word
  BY <1>1, ModFacts
<1>3. /\ offset \in Nat /\ offset < Word /\ length \in Nat /\ length < Word
      /\ \A a : a \in Sizes <=> a \in Int /\ 0 <= a /\ a < Word
  BY <1>1 DEF Sizes
<1>4. aligned \in Nat /\ aligned <= offset
  BY <1>1, <1>3, PageDown DEF make_offset_page_aligned
<1>5. PICK d \in Nat : d = offset - aligned /\ d < Word
  BY <1>3, <1>4
<1>6. len \in Nat /\ len < Word
  <2>1. Size - offset \in Int
    BY <1>1, <1>3
  <2>2. (Size - offset) % Word \in 0..(Word - 1)
    BY <2>1, <1>2
  <2>3. QED
    BY <2>2, <1>1, <1>3
<1>7. n = (d + len) % Word /\ n \in Nat /\ n < Word
  <2>1. d + len \in Int /\ n = (d + len) % Word
    BY <1>5, <1>6
  <2>2. (d + len) % Word \in 0..(Word - 1)
    BY <2>1, <1>2
  <2>3. QED
    BY <2>1, <2>2, <1>1
<1>8. d = (n - len) % Word
  <2>1. CASE d + len < Word
    <3>1. d + len \in 0..(Word - 1) /\ d \in 0..(Word - 1)
      BY <2>1, <1>1, <1>5, <1>6
    <3>2. n - len = d
      BY <3>1, <1>2, <1>5, <1>6, <1>7
    <3>3. QED
      BY <3>1, <3>2, <1>2
  <2>2. CASE d + len >= Word
    <3>1. d + len \in Word..(2 * Word - 1)
      BY <2>2, <1>1, <1>5, <1>6
    <3>2. n - len = d - Word
      BY <3>1, <1>1, <1>2, <1>5, <1>6, <1>7
    <3>3. d - Word \in (-Word)..(-1)
      BY <1>1, <1>5
    <3>4. QED
      BY <3>2, <3>3, <1>1, <1>2, <1>5
  <2>3. QED
    BY <2>1, <2>2, <1>1, <1>5, <1>6
<1>9. InPages(n) \in Sizes \ {0} /\ n <= InPages(n) /\ InPages(n) \in Nat
  <2>1. 0 < n /\ n < Word \div 2
    BY DEF MayMap
  <2>2. InPages(n) \in Sizes /\ n <= InPages(n)
    BY <2>1, <1>7, PagesFit
  <2>3. QED
    BY <2>1, <2>2, <1>3, <1>7
<1>10. ASSUME offset + length < Word
       PROVE  /\ offset + len <= Size
              /\ len = (IF length = map_entire_file THEN Size - offset ELSE length)
              /\ offset - aligned + len <= InPages(n)
  <2>1. offset + length <= Size
    <3>1. offset + length \in 0..(Word - 1)
      BY <1>10, <1>1, <1>3
    <3>2. (offset + length) % Word = offset + length
      BY <3>1, <1>2
    <3>3. QED
      BY <3>2 DEF RangeValid
  <2>2. (Size - offset) % Word = Size - offset
    <3>1. Size - offset \in 0..(Word - 1)
      BY <2>1, <1>1, <1>3
    <3>2. QED
      BY <3>1, <1>2
  <2>3. len = (IF length = map_entire_file THEN Size - offset ELSE length)
    BY <2>2
  <2>4. offset + len <= Size
    BY <2>1, <2>3, <1>1, <1>3 DEF map_entire_file
  <2>5. n = d + len
    <3>1. d + len \in 0..(Word - 1)
      BY <2>4, <1>1, <1>3, <1>4, <1>5, <1>6
    <3>2. QED
      BY <3>1, <1>2, <1>7
  <2>6. QED
    BY <2>3, <2>4, <2>5, <1>5, <1>9
<1>11. QED
  BY <1>3, <1>5, <1>6, <1>7, <1>8, <1>9, <1>10

\* A call of map that succeeds, by handle or by path.
LEMMA MapKeeps ==
  ASSUME MmapAssumption, Consistent(mm, region, fd, leaked),
         NEW o \in Obj, NEW h \in Handle, NEW offset \in Offsets, NEW length \in Lengths,
         NEW f, NEW internal \in BOOLEAN, MapSucceeds(o, h, offset, length, f, internal),
         IF internal THEN fd[h] = "closed" /\ f = open_file(h) ELSE f = fd
  PROVE  /\ Consistent(mm', region', fd', leaked)
         /\ \E x : mm' = [mm EXCEPT ![o] = x]
<1> DEFINE aligned == make_offset_page_aligned(offset)
           len == IF length = map_entire_file THEN (Size - offset) % Word ELSE length
           n == (offset - aligned + len) % Word
           m == [mm EXCEPT ![o] = Default(FALSE)]
           g == RegionsWithout(mm[o])
           e == HandlesWithout(mm[o], fd)
<1>1. PICK r \in Region :
        /\ region[r] = 0
        /\ region' = [g EXCEPT ![r] = InPages(n)]
        /\ mm' = [mm EXCEPT ![o] =
             [at |-> r, disp |-> offset - aligned, length_ |-> len, mapped_length_ |-> n,
              file_handle_ |-> h, is_handle_internal_ |-> internal,
              asked |-> <<offset, length>>]]
  BY DEF MapSucceeds
<1> DEFINE x == [at |-> r, disp |-> offset - aligned, length_ |-> len, mapped_length_ |-> n,
                 file_handle_ |-> h, is_handle_internal_ |-> internal,
                 asked |-> <<offset, length>>]
<1>2. /\ RangeValid(offset, length) /\ MayMap(aligned, n)
      /\ fd' = HandlesWithout(mm[o], f)
  BY DEF MapSucceeds
<1>3. offset \in Sizes /\ length \in Sizes
  BY DEF MmapAssumption, Sizes
<1>4. /\ offset - aligned \in Sizes /\ len \in Sizes /\ n \in Sizes
      /\ offset - aligned = (n - len) % Word
      /\ InPages(n) \in Sizes \ {0}
      /\ offset + length < Word =>
           /\ offset + len <= Size
           /\ len = (IF length = map_entire_file THEN Size - offset ELSE length)
           /\ offset - aligned + len <= InPages(n)
  BY <1>2, <1>3, MapNumbers
<1> HIDE DEF aligned, len, n
<1>5. Whole(x) /\ is_open(x)
  <2>1. x \in Mapping
    BY <1>4 DEF Mapping
  <2>2. is_open(x)
    BY DEF is_open, Invalid, MmapAssumption
  <2>3. x.at # NoRegion /\ x.disp = mapping_offset(x)
    BY <1>4 DEF mapping_offset, MmapAssumption
  <2>4. Covers(x)
    BY <1>4 DEF Covers, len, map_entire_file
  <2>5. QED
    BY <1>4, <2>1, <2>2, <2>3, <2>4 DEF Whole
<1>6. Vacant(Default(FALSE))
  BY DefaultVacant
<1>7. Consistent(m, g, e, leaked)
  BY <1>6, Released
<1>8. mm \in [Obj -> Mapping] /\ region \in [Region -> Sizes] /\ HandlesFit(mm, fd, leaked)
  BY DEF Consistent, RegionsFit
<1>9. g[r] = 0
  BY <1>1, <1>8 DEF RegionsWithout
<1>10. ~is_open(m[o])
  BY <1>8 DEF is_open, Default
<1>11. fd' = IF internal THEN [e EXCEPT ![h] = "lib"] ELSE e
  <2>1. CASE internal
    <3>1. ~Belongs(mm[o], h)
      BY <2>1, <1>8 DEF HandlesFit
    <3>2. fd \in [Handle -> {"closed", "user", "lib"}]
      BY <1>8 DEF HandlesFit
    <3>3. QED
      BY <2>1, <3>1, <3>2, <1>2 DEF HandlesWithout, open_file, Belongs
  <2>2. CASE ~internal
    BY <2>2, <1>2
  <2>3. QED
    BY <2>1, <2>2
<1>12. internal => e[h] = "closed"
  BY <1>8 DEF HandlesWithout, HandlesFit
<1>13. mm' = [m EXCEPT ![o] = x]
  BY <1>1, <1>8
<1>14. Consistent([m EXCEPT ![o] = x], [g EXCEPT ![r] = InPages(n)], fd', leaked)
  <2>1. x.is_handle_internal_ = internal /\ x.file_handle_ = h /\ x.at = r /\ x.mapped_length_ = n
    OBVIOUS
  <2> HIDE DEF x, m, g, e
  <2>2. fd' = IF x.is_handle_internal_ THEN [e EXCEPT ![x.file_handle_] = "lib"] ELSE e
    BY <2>1, <1>11
  <2>3. QED
    BY <2>1, <2>2, <1>5, <1>7, <1>9, <1>10, <1>12, Taken
<1>15. QED
  BY <1>1, <1>13, <1>14

\* Handles that no object has: open returns one and it is lost, the caller
\* opens or closes one.
LEMMA HandleLost ==
  ASSUME NEW m, NEW g, Consistent(m, g, fd, leaked), NEW h \in Handle, fd[h] = "closed"
  PROVE  Consistent(m, g, open_file(h), leaked \cup {h})
<1>1. HandlesFit(m, fd, leaked)
  BY DEF Consistent
<1>2. \A o \in Obj : ~Belongs(m[o], h)
  BY <1>1 DEF HandlesFit
<1>3. open_file(h) \in [Handle -> {"closed", "user", "lib"}]
  BY <1>1 DEF HandlesFit, open_file
<1>4. \A i \in Handle : open_file(h)[i] = "lib" <=> i = h \/ fd[i] = "lib"
  BY <1>1 DEF HandlesFit, open_file
<1>5. HandlesFit(m, open_file(h), leaked \cup {h})
  BY <1>1, <1>2, <1>3, <1>4 DEF HandlesFit
<1>6. QED
  BY <1>5 DEF Consistent

LEMMA HandleUsed ==
  ASSUME NEW m, NEW g, Consistent(m, g, fd, leaked), NEW h \in Handle, fd[h] # "lib",
         NEW w \in {"user", "closed"}
  PROVE  Consistent(m, g, [fd EXCEPT ![h] = w], leaked)
<1> DEFINE e == [fd EXCEPT ![h] = w]
<1>1. HandlesFit(m, fd, leaked)
  BY DEF Consistent
<1>2. /\ e \in [Handle -> {"closed", "user", "lib"}]
      /\ \A i \in Handle : e[i] = "lib" <=> fd[i] = "lib"
  BY <1>1 DEF HandlesFit
<1> HIDE DEF e
<1>3. HandlesFit(m, e, leaked)
  BY <1>1, <1>2 DEF HandlesFit
<1>4. QED
  BY <1>3 DEF Consistent, e

\* unmap closes no handle of the caller's.
LEMMA ClosesItsOwn ==
  ASSUME MmapInv, NEW o \in Obj, NEW h \in Handle, fd[h] = "user",
         NEW f \in [Handle -> {"closed", "user", "lib"}], f[h] = "user"
  PROVE  HandlesWithout(mm[o], f)[h] = "user"
<1>1. HandlesFit(mm, fd, leaked)
  BY DEF MmapInv, Consistent
<1>2. ~Belongs(mm[o], h)
  BY <1>1 DEF HandlesFit
<1>3. QED
  BY <1>2 DEF HandlesWithout, Belongs

LEMMA Types ==
  ASSUME MmapInv
  PROVE  /\ mm \in [Obj -> Mapping] /\ \A o \in Obj : Whole(mm[o])
         /\ fd \in [Handle -> {"closed", "user", "lib"}]
         /\ HandlesFit(mm, fd, leaked) /\ RegionsFit(mm, region)
BY DEF MmapInv, Consistent, HandlesFit

(***************************************************************************)
(* The calls on a basic_mmap, one lemma each.                              *)
(***************************************************************************)
LEMMA ConstructKeeps ==
  ASSUME MmapAssumption, MmapInv, NEW o \in Obj, Construct(o)
  PROVE  MmapInv' /\ UserKept /\ FailureKept /\ OthersKept({o})
<1>1. PICK b \in BOOLEAN : mm' = [mm EXCEPT ![o] = Default(b)]
  BY DEF Construct
<1>2. /\ o \notin alive /\ alive' = alive \cup {o} /\ error' = FALSE
      /\ fd' = fd /\ region' = region /\ leaked' = leaked
  BY DEF Construct
<1>3. ~is_open(mm[o]) /\ Vacant(Default(b))
  BY <1>2, DefaultVacant DEF MmapInv
<1>4. RegionsWithout(mm[o]) = region /\ HandlesWithout(mm[o], fd) = fd
  BY <1>3 DEF RegionsWithout, HandlesWithout, MunmapHits
<1>5. Consistent(mm', region', fd', leaked')
  <2>1. Consistent(mm, region, fd, leaked)
    BY DEF MmapInv
  <2>2. Consistent([mm EXCEPT ![o] = Default(b)], RegionsWithout(mm[o]),
                   HandlesWithout(mm[o], fd), leaked)
    BY <2>1, <1>3, Released
  <2>3. QED
    BY <2>2, <1>1, <1>2, <1>4
<1>6. \A x \in Obj \ {o} : mm'[x] = mm[x]
  BY <1>1, Types
<1>7. MmapInv'
  BY <1>2, <1>5, <1>6 DEF MmapInv
<1>8. QED
  BY <1>2, <1>6, <1>7 DEF UserKept, FailureKept, OthersKept, MmapInv

\* Destroy and Unmap release, and differ in what is left.
LEMMA ReleaseKeeps ==
  ASSUME MmapAssumption, MmapInv, NEW o \in Obj, NEW d, Vacant(d),
         mm' = [mm EXCEPT ![o] = d], region' = RegionsWithout(mm[o]),
         fd' = HandlesWithout(mm[o], fd), leaked' = leaked, error' = FALSE,
         alive' \in {alive, alive \ {o}}
  PROVE  MmapInv' /\ UserKept /\ FailureKept /\ OthersKept({o})
<1>1. Consistent(mm', region', fd', leaked')
  BY Released DEF MmapInv
<1>2. mm'[o] = d /\ \A x \in Obj \ {o} : mm'[x] = mm[x]
  BY Types
<1>3. ~is_open(d)
  BY DEF Vacant
<1>4. MmapInv'
  BY <1>1, <1>2, <1>3 DEF MmapInv
<1>5. UserKept
  BY Types, ClosesItsOwn DEF UserKept
<1>6. QED
  BY <1>2, <1>4, <1>5 DEF FailureKept, OthersKept, MmapInv

LEMMA DestroyKeeps ==
  ASSUME MmapAssumption, MmapInv, NEW o \in Obj, Destroy(o)
  PROVE  MmapInv' /\ UserKept /\ FailureKept /\ OthersKept({o})
<1>1. Vacant(Default(FALSE))
  BY DefaultVacant
<1>2. QED
  BY <1>1, ReleaseKeeps DEF Destroy

LEMMA UnmapKeeps ==
  ASSUME MmapAssumption, MmapInv, NEW o \in Obj, Unmap(o)
  PROVE  MmapInv' /\ UserKept /\ FailureKept /\ OthersKept({o})
<1>1. Vacant(Unmapped(mm[o]))
  BY Types, UnmappedVacant
<1>2. QED
  BY <1>1, ReleaseKeeps DEF Unmap

\* A map that succeeds, on an object that lives or is about to.
LEMMA MapSucceedsKeeps ==
  ASSUME MmapAssumption, MmapInv,
         NEW o \in Obj, NEW h \in Handle, NEW offset \in Offsets, NEW length \in Lengths,
         NEW f, NEW internal \in BOOLEAN, MapSucceeds(o, h, offset, length, f, internal),
         IF internal THEN fd[h] = "closed" /\ f = open_file(h) ELSE f = fd,
         leaked' = leaked, alive' = alive \cup {o}
  PROVE  MmapInv' /\ UserKept /\ FailureKept /\ OthersKept({o})
<1>1. Consistent(mm, region, fd, leaked)
  BY DEF MmapInv
<1>2. Consistent(mm', region', fd', leaked) /\ \E x : mm' = [mm EXCEPT ![o] = x]
  BY <1>1, MapKeeps
<1>3. \A x \in Obj \ {o} : mm'[x] = mm[x]
  BY <1>2, Types
<1>4. error' = FALSE /\ fd' = HandlesWithout(mm[o], f)
  BY DEF MapSucceeds
<1>5. MmapInv'
  BY <1>2, <1>3, <1>4 DEF MmapInv
<1>6. /\ f \in [Handle -> {"closed", "user", "lib"}]
      /\ \A i \in Handle : fd[i] = "user" => f[i] = "user"
  BY Types DEF open_file
<1>7. UserKept
  BY <1>4, <1>6, ClosesItsOwn DEF UserKept
<1>8. QED
  BY <1>3, <1>4, <1>5, <1>7 DEF FailureKept, OthersKept, MmapInv

LEMMA MapFailsKeeps ==
  ASSUME MmapInv, UNCHANGED <<alive, mm, region>>, error' = TRUE,
         \/ fd' = fd /\ leaked' = leaked
         \/ \E h \in Handle : fd[h] = "closed" /\ fd' = open_file(h) /\ leaked' = leaked \cup {h}
  PROVE  MmapInv' /\ UserKept /\ FailureKept /\ \A O : OthersKept(O)
<1>1. Consistent(mm, region, fd, leaked)
  BY DEF MmapInv
<1>2. Consistent(mm, region, fd', leaked')
  BY <1>1, HandleLost
<1>3. \A h \in Handle : fd[h] # "closed" => fd'[h] = fd[h]
  BY Types DEF open_file
<1>4. QED
  BY <1>2, <1>3 DEF MmapInv, UserKept, FailureKept, OthersKept

LEMMA MapHandleKeeps ==
  ASSUME MmapAssumption, MmapInv, NEW o \in Obj, MapHandle(o)
  PROVE  MmapInv' /\ UserKept /\ FailureKept /\ OthersKept({o})
<1>1. PICK h \in Handle, offset \in Offsets, length \in Lengths :
        MapSucceeds(o, h, offset, length, fd, FALSE) \/ MapFails(o, fd)
  BY DEF MapHandle
<1>2. alive' = alive \cup {o} /\ alive' = alive /\ leaked' = leaked
  BY DEF MapHandle
<1>3. CASE MapSucceeds(o, h, offset, length, fd, FALSE)
  BY <1>2, <1>3, MapSucceedsKeeps
<1>4. CASE MapFails(o, fd)
  BY <1>2, <1>4, MapFailsKeeps DEF MapFails
<1>5. QED
  BY <1>1, <1>3, <1>4

LEMMA MapPathKeeps ==
  ASSUME MmapAssumption, MmapInv, NEW o \in Obj, MapPath(o)
  PROVE  MmapInv' /\ UserKept /\ FailureKept /\ OthersKept({o})
<1>1. alive' = alive \cup {o} /\ alive' = alive
  BY DEF MapPath
<1>2. CASE MapFails(o, fd) /\ leaked' = leaked
  BY <1>1, <1>2, MapFailsKeeps DEF MapFails
<1>3. CASE \E h \in Handle : /\ fd[h] = "closed" /\ MapFails(o, open_file(h))
                             /\ leaked' = leaked \cup {h}
  <2>1. UNCHANGED <<alive, mm, region>> /\ error' = TRUE
    BY <1>1, <1>3 DEF MapFails
  <2>2. \E h \in Handle : fd[h] = "closed" /\ fd' = open_file(h) /\ leaked' = leaked \cup {h}
    BY <1>3 DEF MapFails
  <2>3. QED
    BY <2>1, <2>2, MapFailsKeeps
<1>4. CASE \E h \in Handle, offset \in Offsets, length \in Lengths :
             /\ fd[h] = "closed" /\ MapSucceeds(o, h, offset, length, open_file(h), TRUE)
             /\ leaked' = leaked
  BY <1>1, <1>4, MapSucceedsKeeps
<1>5. QED
  BY <1>2, <1>3, <1>4 DEF MapPath

LEMMA MoveConstructKeeps ==
  ASSUME MmapAssumption, MmapInv, NEW o \in Obj, NEW p \in Obj, MoveConstruct(o, p)
  PROVE  MmapInv' /\ UserKept /\ FailureKept /\ OthersKept({o, p})
<1>1. /\ o \notin alive /\ p \in alive /\ o # p /\ alive' = alive \cup {o} /\ error' = FALSE
      /\ mm' = [mm EXCEPT ![o] = mm[p], ![p] = Default(mm[p].is_handle_internal_)]
      /\ fd' = fd /\ region' = region /\ leaked' = leaked
  BY DEF MoveConstruct
<1>2. Vacant(Default(mm[p].is_handle_internal_))
  BY Types, DefaultVacant DEF Whole, Mapping
<1>3. Consistent(mm', region', fd', leaked')
  BY <1>1, <1>2, Moved DEF MmapInv
<1>4. \A x \in Obj \ {o, p} : mm'[x] = mm[x]
  BY <1>1, Types
<1>5. MmapInv'
  BY <1>1, <1>3, <1>4 DEF MmapInv
<1>6. QED
  BY <1>1, <1>4, <1>5 DEF UserKept, FailureKept, OthersKept, MmapInv

LEMMA MoveAssignKeeps ==
  ASSUME MmapAssumption, MmapInv, NEW o \in Obj, NEW p \in Obj, MoveAssign(o, p)
  PROVE  MmapInv' /\ UserKept /\ FailureKept /\ OthersKept({o, p})
<1> DEFINE m == [mm EXCEPT ![o] = Default(FALSE)]
<1>1. /\ o \in alive /\ p \in alive /\ o # p /\ alive' = alive /\ error' = FALSE
      /\ mm' = [mm EXCEPT ![o] = mm[p], ![p] = Default(FALSE)]
      /\ fd' = HandlesWithout(mm[o], fd) /\ region' = RegionsWithout(mm[o])
      /\ leaked' = leaked
  BY DEF MoveAssign
<1>2. Vacant(Default(FALSE)) /\ ~is_open(Default(FALSE))
  BY DefaultVacant DEF Vacant
<1>3. Consistent(m, region', fd', leaked)
  BY <1>1, <1>2, Released DEF MmapInv
<1>4. m[o] = Default(FALSE) /\ m[p] = mm[p] /\ mm' = [m EXCEPT ![o] = m[p], ![p] = Default(FALSE)]
  BY <1>1, Types
<1> HIDE DEF m
<1>5. Consistent(mm', region', fd', leaked')
  <2>1. ~is_open(m[o]) /\ o # p
    BY <1>1, <1>2, <1>4
  <2>2. Consistent([m EXCEPT ![o] = m[p], ![p] = Default(FALSE)], region', fd', leaked)
    BY <2>1, <1>2, <1>3, Moved
  <2>3. QED
    BY <2>2, <1>1, <1>4
<1>6. \A x \in Obj \ {o, p} : mm'[x] = mm[x]
  BY <1>1, Types
<1>7. MmapInv'
  BY <1>1, <1>5, <1>6 DEF MmapInv
<1>8. UserKept
  BY <1>1, Types, ClosesItsOwn DEF UserKept
<1>9. QED
  BY <1>1, <1>6, <1>7, <1>8 DEF FailureKept, OthersKept, MmapInv

LEMMA SwapKeeps ==
  ASSUME MmapInv, NEW o \in Obj, NEW p \in Obj, Swap(o, p)
  PROVE  MmapInv' /\ UserKept /\ FailureKept /\ OthersKept({o, p})
<1>1. /\ o \in alive /\ p \in alive /\ o # p /\ alive' = alive /\ error' = FALSE
      /\ mm' = [mm EXCEPT ![o] = mm[p], ![p] = mm[o]]
      /\ fd' = fd /\ region' = region /\ leaked' = leaked
  BY DEF Swap
<1>2. Consistent(mm', region', fd', leaked')
  BY <1>1, Swapped DEF MmapInv
<1>3. \A x \in Obj \ {o, p} : mm'[x] = mm[x]
  BY <1>1, Types
<1>4. QED
  BY <1>1, <1>2, <1>3 DEF MmapInv, UserKept, FailureKept, OthersKept

LEMMA UserKeeps ==
  ASSUME MmapInv, NEW h \in Handle, UserOpen(h) \/ UserClose(h)
  PROVE  MmapInv' /\ UserKept /\ FailureKept /\ OthersKept({})
<1>1. /\ fd[h] # "lib" /\ error' = FALSE
      /\ UNCHANGED <<alive, mm, region, leaked>>
      /\ \E w \in {"user", "closed"} : fd' = [fd EXCEPT ![h] = w]
  BY DEF UserOpen, UserClose
<1>2. Consistent(mm, region, fd', leaked)
  <2>1. PICK w \in {"user", "closed"} : fd' = [fd EXCEPT ![h] = w]
    BY <1>1
  <2>2. Consistent(mm, region, fd, leaked) /\ fd[h] # "lib"
    BY <1>1 DEF MmapInv
  <2>3. Consistent(mm, region, [fd EXCEPT ![h] = w], leaked)
    BY <2>2, HandleUsed
  <2>4. QED
    BY <2>1, <2>3
<1>3. QED
  BY <1>1, <1>2 DEF MmapInv, UserKept, FailureKept, OthersKept

LEMMA CallsKeep ==
  ASSUME MmapAssumption, MmapInv, NEW O \in SUBSET Obj, Calls(O)
  PROVE  MmapInv' /\ UserKept /\ FailureKept /\ OthersKept(O)
<1>1. CASE \E o \in O : Construct(o)
  BY <1>1, ConstructKeeps DEF OthersKept
<1>2. CASE \E o \in O : Destroy(o)
  BY <1>2, DestroyKeeps DEF OthersKept
<1>3. CASE \E o \in O : MapHandle(o)
  BY <1>3, MapHandleKeeps DEF OthersKept
<1>4. CASE \E o \in O : MapPath(o)
  BY <1>4, MapPathKeeps DEF OthersKept
<1>5. CASE \E o \in O : Unmap(o)
  BY <1>5, UnmapKeeps DEF OthersKept
<1>6. CASE \E o, p \in O : MoveConstruct(o, p)
  BY <1>6, MoveConstructKeeps DEF OthersKept
<1>7. CASE \E o, p \in O : MoveAssign(o, p)
  BY <1>7, MoveAssignKeeps DEF OthersKept
<1>8. CASE \E o, p \in O : Swap(o, p)
  BY <1>8, SwapKeeps DEF OthersKept
<1>9. CASE \E h \in Handle : UserOpen(h) \/ UserClose(h)
  BY <1>9, UserKeeps DEF OthersKept
<1>10. QED
  BY <1>1, <1>2, <1>3, <1>4, <1>5, <1>6, <1>7, <1>8, <1>9 DEF Calls

(***************************************************************************)
(* The holders.                                                            *)
(***************************************************************************)
\* Who holds an object on the heap and is not assigned.
HoldersKept ==
  \A s \in Holder :
    pimpl_'[s] = pimpl_[s] /\ pimpl_' # pimpl_ /\ pimpl_[s] # Nobody =>
      pimpl_[s] \in alive' /\ mm'[pimpl_[s]] = mm[pimpl_[s]]

SharedKept ==
  /\ IInv'
  /\ UserKept
  /\ FailureKept /\ (error' => UNCHANGED <<pimpl_, heap>>)
  /\ HoldersKept

LEMMA AbandonedFacts ==
  ASSUME SharedMmapAssumption, IInv, NEW s \in Holder
  PROVE  \/ Abandoned(s) = {} /\ (pimpl_[s] = Nobody \/ \E x \in Holder \ {s} : pimpl_[x] = pimpl_[s])
         \/ /\ Abandoned(s) = {pimpl_[s]} /\ pimpl_[s] \in heap
            /\ \A x \in Holder \ {s} : pimpl_[x] # pimpl_[s]
<1>1. /\ pimpl_ \in [Holder -> heap \cup {Nobody}] /\ Nobody \notin heap
      /\ heap \subseteq Obj
  BY DEF IInv, HeapInv, MmapInv, SharedMmapAssumption
<1>2. Abandoned(s) = {o \in heap : Holders(o) = {s}}
  BY DEF Abandoned
<1>3. \A o \in heap : Holders(o) = {s} <=>
        pimpl_[s] = o /\ \A x \in Holder \ {s} : pimpl_[x] # o
  BY DEF Holders
<1>4. QED
  BY <1>1, <1>2, <1>3

\* Holders are assigned, and the object that nobody holds then is destroyed.
LEMMA BecomeKeeps ==
  ASSUME MmapAssumption, SharedMmapAssumption, IInv,
         NEW now \in [Holder -> Obj \cup {Nobody}], NEW made, made \subseteq Obj \ alive,
         NEW gone, gone \subseteq heap, \A x, y \in gone : x = y,
         NEW members, Consistent(members, region, fd, leaked),
         \A o \in heap : members[o] = mm[o],
         \A o \in Obj \ (alive \cup made) : ~is_open(members[o]),
         (heap \cup made) \ gone = {now[s] : s \in Holder} \ {Nobody},
         Become(now, made, gone, members)
  PROVE  SharedKept
<1>1. /\ pimpl_' = now
      /\ alive' = (alive \cup made) \ gone
      /\ heap' = (heap \cup made) \ gone
      /\ mm' = [o \in Obj |-> IF o \in gone THEN Default(FALSE) ELSE members[o]]
      /\ error' = FALSE /\ leaked' = leaked
      /\ gone = {} => region' = region /\ fd' = fd
      /\ gone # {} => \E o \in gone : region' = RegionsWithout(mm[o]) /\ fd' = HandlesWithout(mm[o], fd)
  BY DEF Become
<1>2. heap \subseteq alive /\ alive \subseteq Obj /\ MmapInv
  BY DEF IInv, HeapInv, MmapInv
<1>3. members \in [Obj -> Mapping]
  BY DEF Consistent
<1>4. Consistent(mm', region', fd', leaked') /\ UserKept
  <2>1. CASE gone = {}
    <3>1. mm' = members
      BY <2>1, <1>1, <1>3
    <3>2. QED
      BY <2>1, <3>1, <1>1 DEF UserKept
  <2>2. CASE gone # {}
    <3>1. PICK o \in gone : region' = RegionsWithout(mm[o]) /\ fd' = HandlesWithout(mm[o], fd)
      BY <2>2, <1>1
    <3>2. gone = {o} /\ o \in Obj /\ members[o] = mm[o]
      BY <3>1, <1>2
    <3>3. mm' = [members EXCEPT ![o] = Default(FALSE)]
      BY <3>2, <1>1, <1>3
    <3>4. Vacant(Default(FALSE))
      BY DefaultVacant
    <3>5. Consistent([members EXCEPT ![o] = Default(FALSE)], RegionsWithout(members[o]),
                     HandlesWithout(members[o], fd), leaked)
      BY <3>2, <3>4, Released
    <3>6. UserKept
      BY <3>1, <3>2, <1>2, Types, ClosesItsOwn DEF UserKept
    <3>7. QED
      BY <3>1, <3>2, <3>3, <3>5, <3>6, <1>1
  <2>3. QED
    BY <2>1, <2>2
<1>5. ASSUME NEW o \in Obj \ alive'
      PROVE  ~is_open(mm'[o])
  <2>1. CASE o \in gone
    BY <2>1, <1>1 DEF is_open, Default
  <2>2. CASE o \notin gone
    BY <2>2, <1>1
  <2>3. QED
    BY <2>1, <2>2
<1>6. MmapInv'
  BY <1>1, <1>2, <1>4, <1>5 DEF MmapInv
<1>7. HeapIsHeld'
  BY <1>1 DEF HeapIsHeld
<1>8. HeapInv'
  <2>1. \A s \in Holder : now[s] \in heap' \cup {Nobody}
    BY <1>1
  <2>2. QED
    BY <2>1, <1>1, <1>2, <1>7 DEF HeapInv
<1>9. HoldersKept
  <2>1. SUFFICES ASSUME NEW s \in Holder, now[s] = pimpl_[s], pimpl_[s] # Nobody
                 PROVE  pimpl_[s] \in alive' /\ mm'[pimpl_[s]] = mm[pimpl_[s]]
    BY <1>1 DEF HoldersKept
  <2>2. pimpl_[s] \in heap /\ pimpl_[s] \notin gone
    BY <2>1 DEF IInv, HeapInv
  <2>3. QED
    BY <2>2, <1>1, <1>2
<1>10. QED
  BY <1>1, <1>4, <1>6, <1>8, <1>9 DEF SharedKept, IInv, FailureKept

LEMMA HeapTypes ==
  ASSUME SharedMmapAssumption, IInv
  PROVE  /\ pimpl_ \in [Holder -> heap \cup {Nobody}] /\ Nobody \notin Obj
         /\ heap \subseteq alive /\ alive \subseteq Obj
         /\ heap = {pimpl_[s] : s \in Holder} \ {Nobody}
         /\ Consistent(mm, region, fd, leaked)
         /\ \A o \in Obj \ alive : ~is_open(mm[o])
BY DEF IInv, HeapInv, MmapInv, HeapIsHeld, SharedMmapAssumption

\* A holder that is assigned lets go of what it held, unless others hold it.
LEMMA CopyKeeps ==
  ASSUME MmapAssumption, SharedMmapAssumption, IInv,
         NEW s \in Holder, NEW t \in Holder, Copy(s, t)
  PROVE  SharedKept
<1> DEFINE now == [pimpl_ EXCEPT ![s] = pimpl_[t]]
<1>1. pimpl_[s] # pimpl_[t] /\ Become(now, {}, Abandoned(s), mm)
  BY DEF Copy
<1>2. now \in [Holder -> Obj \cup {Nobody}]
  BY HeapTypes
<1>3. Abandoned(s) \subseteq heap /\ \A x, y \in Abandoned(s) : x = y
  BY AbandonedFacts
<1>4. (heap \cup {}) \ Abandoned(s) = {now[x] : x \in Holder} \ {Nobody}
  BY <1>1, HeapTypes, AbandonedFacts
<1>5. QED
  BY <1>1, <1>2, <1>3, <1>4, HeapTypes, BecomeKeeps

LEMMA MoveKeeps ==
  ASSUME MmapAssumption, SharedMmapAssumption, IInv,
         NEW s \in Holder, NEW t \in Holder, Move(s, t)
  PROVE  SharedKept
<1> DEFINE now == [pimpl_ EXCEPT ![s] = pimpl_[t], ![t] = Nobody]
<1>1. s # t /\ pimpl_[t] # Nobody /\ Become(now, {}, Abandoned(s), mm)
  BY DEF Move
<1>2. now \in [Holder -> Obj \cup {Nobody}]
  BY HeapTypes
<1>3. Abandoned(s) \subseteq heap /\ \A x, y \in Abandoned(s) : x = y
  BY AbandonedFacts
<1>4. (heap \cup {}) \ Abandoned(s) = {now[x] : x \in Holder} \ {Nobody}
  BY <1>1, HeapTypes, AbandonedFacts
<1>5. QED
  BY <1>1, <1>2, <1>3, <1>4, HeapTypes, BecomeKeeps

LEMMA SwapHoldersKeeps ==
  ASSUME MmapAssumption, SharedMmapAssumption, IInv,
         NEW s \in Holder, NEW t \in Holder, SwapHolders(s, t)
  PROVE  SharedKept
<1> DEFINE now == [pimpl_ EXCEPT ![s] = pimpl_[t], ![t] = pimpl_[s]]
<1>1. Become(now, {}, {}, mm)
  BY DEF SwapHolders
<1>2. now \in [Holder -> Obj \cup {Nobody}]
  BY HeapTypes
<1>3. (heap \cup {}) \ {} = {now[x] : x \in Holder} \ {Nobody}
  BY HeapTypes
<1>4. QED
  BY <1>1, <1>2, <1>3, HeapTypes, BecomeKeeps

LEMMA DropKeeps ==
  ASSUME MmapAssumption, SharedMmapAssumption, IInv, NEW s \in Holder, Drop(s)
  PROVE  SharedKept
<1> DEFINE now == [pimpl_ EXCEPT ![s] = Nobody]
<1>1. pimpl_[s] # Nobody /\ Become(now, {}, Abandoned(s), mm)
  BY DEF Drop
<1>2. now \in [Holder -> Obj \cup {Nobody}]
  BY HeapTypes
<1>3. Abandoned(s) \subseteq heap /\ \A x, y \in Abandoned(s) : x = y
  BY AbandonedFacts
<1>4. (heap \cup {}) \ Abandoned(s) = {now[x] : x \in Holder} \ {Nobody}
  BY <1>1, HeapTypes, AbandonedFacts
<1>5. QED
  BY <1>1, <1>2, <1>3, <1>4, HeapTypes, BecomeKeeps

LEMMA TakeOwnershipKeeps ==
  ASSUME MmapAssumption, SharedMmapAssumption, IInv,
         NEW s \in Holder, NEW o \in Obj, NEW p \in Obj, TakeOwnership(s, o, p)
  PROVE  SharedKept
<1> DEFINE now == [pimpl_ EXCEPT ![s] = o]
           members == [mm EXCEPT ![o] = mm[p], ![p] = Default(mm[p].is_handle_internal_)]
<1>1. /\ o \notin alive /\ p \in alive /\ p \notin heap
      /\ Become(now, {o}, Abandoned(s), members)
  BY DEF TakeOwnership
<1>2. now \in [Holder -> Obj \cup {Nobody}]
  BY HeapTypes
<1>3. Abandoned(s) \subseteq heap /\ \A x, y \in Abandoned(s) : x = y
  BY AbandonedFacts
<1>4. (heap \cup {o}) \ Abandoned(s) = {now[x] : x \in Holder} \ {Nobody}
  BY <1>1, HeapTypes, AbandonedFacts
<1>5. Consistent(members, region, fd, leaked)
  <2>1. Vacant(Default(mm[p].is_handle_internal_))
    BY Types, DefaultVacant DEF IInv, Whole, Mapping
  <2>2. ~is_open(mm[o]) /\ o # p
    BY <1>1, HeapTypes
  <2>3. QED
    BY <2>1, <2>2, HeapTypes, Moved
<1>6. \A x \in Obj \ {o, p} : members[x] = mm[x]
  BY HeapTypes DEF Consistent
<1> HIDE DEF members, now
<1>7. \A x \in heap : members[x] = mm[x]
  BY <1>1, <1>6, HeapTypes
<1>8. \A x \in Obj \ (alive \cup {o}) : ~is_open(members[x])
  BY <1>1, <1>6, HeapTypes
<1>9. {o} \subseteq Obj \ alive
  BY <1>1
<1>10. QED
  BY <1>1, <1>2, <1>3, <1>4, <1>5, <1>7, <1>8, <1>9, BecomeKeeps

\* Calls on one object, while nobody is assigned.
LEMMA PlainKeeps ==
  ASSUME SharedMmapAssumption, IInv, UNCHANGED <<pimpl_, heap>>,
         MmapInv', UserKept, FailureKept, heap \subseteq alive'
  PROVE  SharedKept
<1>1. HeapInv'
  BY DEF IInv, HeapInv, HeapIsHeld
<1>2. QED
  BY <1>1 DEF SharedKept, IInv, HoldersKept

LEMMA MapSharedKeeps ==
  ASSUME MmapAssumption, SharedMmapAssumption, IInv, NEW s \in Holder, MapShared(s)
  PROVE  SharedKept
<1>1. pimpl_[s] \in Obj
  BY HeapTypes DEF MapShared
<1>2. MmapInv' /\ UserKept /\ FailureKept
  BY <1>1, MapHandleKeeps, MapPathKeeps DEF MapShared, IInv
<1>3. heap \subseteq alive'
  BY HeapTypes DEF MapShared, MapHandle, MapPath
<1>4. QED
  BY <1>2, <1>3, PlainKeeps DEF MapShared

LEMMA UnmapSharedKeeps ==
  ASSUME MmapAssumption, SharedMmapAssumption, IInv, NEW s \in Holder, UnmapShared(s)
  PROVE  SharedKept
<1>1. pimpl_[s] \in Obj
  BY HeapTypes DEF UnmapShared
<1>2. MmapInv' /\ UserKept /\ FailureKept
  BY <1>1, UnmapKeeps DEF UnmapShared, IInv
<1>3. heap \subseteq alive'
  BY HeapTypes DEF UnmapShared, Unmap
<1>4. QED
  BY <1>2, <1>3, PlainKeeps DEF UnmapShared

LEMMA UnsharedKeeps ==
  ASSUME MmapAssumption, SharedMmapAssumption, IInv, Unshared
  PROVE  SharedKept
<1>1. MmapInv' /\ UserKept /\ FailureKept /\ OthersKept(Obj \ heap)
  BY CallsKeep DEF Unshared, IInv
<1>2. heap \subseteq alive'
  BY <1>1, HeapTypes DEF OthersKept
<1>3. QED
  BY <1>1, <1>2, PlainKeeps DEF Unshared

LEMMA MapFirstFailsKeeps ==
  ASSUME MmapAssumption, SharedMmapAssumption, IInv, NEW s \in Holder, MapFirstFails(s)
  PROVE  SharedKept
<1>1. /\ UNCHANGED <<alive, mm, region>> /\ UNCHANGED <<pimpl_, heap>> /\ error' = TRUE
      /\ \/ fd' = fd /\ leaked' = leaked
         \/ \E h \in Handle : fd[h] = "closed" /\ fd' = open_file(h) /\ leaked' = leaked \cup {h}
  BY DEF MapFirstFails
<1>2. MmapInv
  BY DEF IInv
<1>3. MmapInv' /\ UserKept /\ FailureKept
  BY <1>1, <1>2, MapFailsKeeps
<1>4. QED
  BY <1>1, <1>3, HeapTypes, PlainKeeps

LEMMA MapFirstKeeps ==
  ASSUME MmapAssumption, SharedMmapAssumption, IInv,
         NEW s \in Holder, NEW o \in Obj, MapFirst(s, o)
  PROVE  SharedKept
<1>1. /\ pimpl_[s] = Nobody /\ o \notin alive
      /\ pimpl_' = [pimpl_ EXCEPT ![s] = o]
      /\ alive' = alive \cup {o} /\ heap' = heap \cup {o} /\ leaked' = leaked
  BY DEF MapFirst
<1>2. PICK h \in Handle, offset \in Offsets, length \in Lengths :
        \/ MapSucceeds(o, h, offset, length, fd, FALSE)
        \/ fd[h] = "closed" /\ MapSucceeds(o, h, offset, length, open_file(h), TRUE)
  BY DEF MapFirst
<1>3. MmapInv
  BY DEF IInv
<1>4. MmapInv' /\ UserKept /\ FailureKept /\ OthersKept({o})
  BY <1>1, <1>2, <1>3, MapSucceedsKeeps
<1>5. error' = FALSE
  BY <1>2 DEF MapSucceeds
<1>6. heap' = {pimpl_'[x] : x \in Holder} \ {Nobody}
  BY <1>1, HeapTypes
<1>7. pimpl_' \in [Holder -> heap' \cup {Nobody}] /\ heap' \subseteq alive'
  BY <1>1, HeapTypes
<1>8. HeapInv'
  BY <1>6, <1>7 DEF HeapInv, HeapIsHeld
<1>9. HoldersKept
  <2>1. \A x \in heap : x \in alive' /\ mm'[x] = mm[x]
    BY <1>1, <1>4, HeapTypes DEF OthersKept
  <2>2. \A x \in Holder : pimpl_[x] # Nobody => pimpl_[x] \in heap
    BY HeapTypes
  <2>3. QED
    BY <2>1, <2>2 DEF HoldersKept
<1>10. QED
  BY <1>4, <1>5, <1>8, <1>9 DEF SharedKept, IInv

LEMMA NextKeeps ==
  ASSUME MmapAssumption, SharedMmapAssumption, IInv, SharedNext
  PROVE  SharedKept
BY UnsharedKeeps, CopyKeeps, MoveKeeps, SwapHoldersKeeps, DropKeeps, MapSharedKeeps,
   MapFirstFailsKeeps, UnmapSharedKeeps, MapFirstKeeps, TakeOwnershipKeeps DEF SharedNext

LEMMA InitIInv ==
  ASSUME MmapAssumption, SharedInit
  PROVE  IInv
<1>1. Vacant(Default(FALSE)) /\ 0 \in Sizes
  <2>1. Vacant(Default(FALSE))
    BY DefaultVacant
  <2>2. 0 \in Sizes
    <3>1. Word \in Nat /\ Word > 0
      BY DEF MmapAssumption
    <3>2. QED
      BY <3>1 DEF Sizes
  <2>3. QED
    BY <2>1, <2>2
<1>2. mm \in [Obj -> Mapping] /\ \A o \in Obj : Vacant(mm[o]) /\ Whole(mm[o])
  BY <1>1 DEF SharedInit, Init, Vacant, Whole
<1>3. \A o \in Obj : mm[o].at = NoRegion /\ \A h \in Handle : ~Belongs(mm[o], h)
  BY <1>2, OpenFacts DEF Vacant, Whole
<1>4. HandlesFit(mm, fd, leaked)
  BY <1>3 DEF SharedInit, Init, HandlesFit
<1>5. RegionsFit(mm, region)
  BY <1>1, <1>3 DEF SharedInit, Init, RegionsFit
<1>6. MmapInv
  BY <1>2, <1>4, <1>5 DEF SharedInit, Init, MmapInv, Consistent, Vacant
<1>7. HeapInv
  <2>1. \A s \in Holder : pimpl_[s] = Nobody
    BY DEF SharedInit
  <2>2. QED
    BY <2>1 DEF SharedInit, HeapInv, HeapIsHeld
<1>8. QED
  BY <1>6, <1>7 DEF IInv

LEMMA StutterKeeps ==
  ASSUME IInv, UNCHANGED sharedVars
  PROVE  IInv'
<1>1. MmapInv'
  BY DEF IInv, MmapInv, sharedVars, vars, Consistent, HandlesFit, RegionsFit, Whole, Covers
<1>2. HeapInv'
  BY DEF IInv, HeapInv, HeapIsHeld, sharedVars, vars
<1>3. QED
  BY <1>1, <1>2 DEF IInv

\* The invariant above holds of every state that calls lead to.
THEOREM Invariance == SharedSpec => []IInv
<1>1. SharedInit => IInv
  BY InitIInv, MmapAssumption
<1>2. IInv /\ [SharedNext]_sharedVars => IInv'
  BY NextKeeps, StutterKeeps, MmapAssumption, SharedMmapAssumption DEF SharedKept
<1>3. QED
  BY <1>1, <1>2, PTL DEF SharedSpec

(***************************************************************************)
(* What follows from it.                                                   *)
(***************************************************************************)
\* Members, handles, regions and holders have their types.
THEOREM TypeCorrect == SharedSpec => []SharedTypeOK
<1>1. IInv => SharedTypeOK
  <2>1. SUFFICES ASSUME IInv PROVE SharedTypeOK
    OBVIOUS
  <2>2. TypeOK
    BY <2>1, Types DEF IInv, MmapInv, HandlesFit, RegionsFit, TypeOK
  <2>3. QED
    BY <2>1, <2>2 DEF IInv, HeapInv, SharedTypeOK
<1>2. QED
  BY <1>1, Invariance, PTL

\* Every handle that the library has open was lost by a failed map(path), or
\* belongs to exactly one object, which will close it.
THEOREM HandlesCorrect == SharedSpec => []HandlesAccounted
<1>1. IInv => HandlesAccounted
  <2>1. SUFFICES ASSUME IInv, NEW h \in Handle
                 PROVE  fd[h] = "lib" <=>
                          (h \in leaked) # (\E o \in alive : Owns(o, h) /\ \A p \in alive : Owns(p, h) => p = o)
    BY DEF HandlesAccounted
  <2>2. MmapInv /\ alive \subseteq Obj
    BY <2>1 DEF IInv, MmapInv
  <2>3. \A o \in Obj : Owns(o, h) <=> Belongs(mm[o], h)
    BY DEF Owns, Belongs
  <2>4. \A o \in Obj : Belongs(mm[o], h) => o \in alive
    BY <2>2, Types, OpenFacts, MmapAssumption DEF MmapInv
  <2>5. /\ fd[h] = "lib" <=> (h \in leaked \/ \E o \in Obj : Belongs(mm[o], h))
        /\ h \in leaked => \A o \in Obj : ~Belongs(mm[o], h)
        /\ \A o, q \in Obj : Belongs(mm[o], h) /\ Belongs(mm[q], h) => o = q
    BY <2>2, Types DEF HandlesFit
  <2> DEFINE owned == \E o \in alive : Owns(o, h) /\ \A p \in alive : Owns(p, h) => p = o
  <2>6. owned <=> \E o \in Obj : Belongs(mm[o], h)
    BY <2>2, <2>3, <2>4, <2>5
  <2> HIDE DEF owned
  <2>7. fd[h] = "lib" <=> (h \in leaked) # owned
    <3>1. owned \in BOOLEAN /\ (h \in leaked) \in BOOLEAN
      BY DEF owned
    <3>2. (h \in leaked) # owned <=> ~(h \in leaked <=> owned)
      BY <3>1, Zenon
    <3>3. QED
      BY <3>2, <2>5, <2>6
  <2>8. QED
    BY <2>7 DEF owned
<1>2. QED
  BY <1>1, Invariance, PTL

\* Every mapped region belongs to exactly one object, whose unmap will hit it.
THEOREM RegionsCorrect == SharedSpec => []RegionsOwned
<1>1. IInv => RegionsOwned
  <2>1. SUFFICES ASSUME IInv PROVE RegionsOwned
    OBVIOUS
  <2>2. MmapInv /\ alive \subseteq Obj /\ Consistent(mm, region, fd, leaked)
    BY <2>1 DEF IInv, MmapInv
  <2>3. \A o \in Obj : is_open(mm[o]) => MunmapHits(mm[o])
    BY <2>2, Hits, MmapAssumption
  <2>4. ASSUME NEW r \in Region, region[r] # 0
        PROVE  \E o \in alive : mm[o].at = r /\ MunmapHits(mm[o])
    <3>1. PICK o \in Obj : mm[o].at = r
      BY <2>2, <2>4, Types DEF RegionsFit
    <3>2. is_open(mm[o])
      BY <3>1, <2>2, Types, OpenFacts, MmapAssumption
    <3>3. o \in alive
      BY <3>2, <2>2 DEF MmapInv
    <3>4. QED
      BY <3>1, <3>2, <3>3, <2>3
  <2>5. \A o, p \in Obj : mm[o].at = mm[p].at => o = p \/ mm[o].at = NoRegion
    BY <2>2, Types DEF RegionsFit
  <2>6. QED
    BY <2>2, <2>3, <2>4, <2>5 DEF RegionsOwned
<1>2. QED
  BY <1>1, Invariance, PTL

\* A mapping whose range does not wrap around has the bytes that were asked
\* for, in the file and in the region.
THEOREM BytesCorrect == SharedSpec => []BytesInFile
<1>1. IInv => BytesInFile
  <2>1. SUFFICES ASSUME IInv, NEW o \in alive, is_open(mm[o]),
                        mm[o].asked[1] + mm[o].asked[2] < Word
                 PROVE  /\ mm[o].asked[1] + mm[o].length_ <= Size
                        /\ mm[o].length_ = (IF mm[o].asked[2] = map_entire_file
                                            THEN Size - mm[o].asked[1] ELSE mm[o].asked[2])
                        /\ mm[o].disp + mm[o].length_ <= region[mm[o].at]
    BY DEF BytesInFile
  <2>2. o \in Obj /\ MmapInv
    BY <2>1 DEF IInv, MmapInv
  <2>3. Whole(mm[o]) /\ RegionsFit(mm, region)
    BY <2>2, Types
  <2>4. Covers(mm[o]) /\ region[mm[o].at] = InPages(mm[o].mapped_length_)
    BY <2>1, <2>2, <2>3 DEF Whole, RegionsFit
  <2>5. QED
    BY <2>1, <2>4 DEF Covers
<1>2. QED
  BY <1>1, Invariance, PTL

\* No call but the caller's own close closes a handle of the caller's.
THEOREM UserHandlesCorrect == SharedSpec => UserHandlesKept
<1> DEFINE Kept == \A h \in Handle : fd[h] = "user" /\ fd'[h] # "user" => UNCHANGED <<alive, mm, region>>
<1>1. IInv /\ [SharedNext]_sharedVars => [Kept]_vars
  BY NextKeeps, MmapAssumption, SharedMmapAssumption DEF SharedKept, UserKept, sharedVars
<1>2. QED
  BY <1>1, Invariance, PTL DEF SharedSpec, UserHandlesKept

\* A holder does not notice what becomes of the others.
THEOREM HoldersCorrect == SharedSpec => HoldersUndisturbed
<1>1. IInv /\ [SharedNext]_sharedVars => [HoldersKept]_sharedVars
  BY NextKeeps, MmapAssumption, SharedMmapAssumption DEF SharedKept
<1>2. QED
  BY <1>1, Invariance, PTL DEF SharedSpec, HoldersUndisturbed, HoldersKept

\* A map that fails changes no object, mapping, open handle or holder.
THEOREM FailuresHarmless == SharedSpec => FailureChangesNothing
<1> DEFINE Kept == error' => /\ UNCHANGED <<alive, mm, region, pimpl_, heap>>
                             /\ \A h \in Handle : fd[h] # "closed" => fd'[h] = fd[h]
<1>1. IInv /\ [SharedNext]_sharedVars => [Kept]_sharedVars
  BY NextKeeps, MmapAssumption, SharedMmapAssumption DEF SharedKept, FailureKept
<1>2. QED
  BY <1>1, Invariance, PTL DEF SharedSpec, FailureChangesNothing
=============================================================================

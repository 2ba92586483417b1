-------------------------------- MODULE Mmap --------------------------------
(***************************************************************************)
(* mio::basic_mmap (mio.hpp): objects that own a memory mapping of a file  *)
(* and, if they opened it themselves, the file's handle.  The calls on the *)
(* objects, the caller's own use of handles, and the system calls below.   *)
(* A region stands for what mmap reserves, and on Windows for the view     *)
(* with its mapping object, which every function below treats as one.      *)
(***************************************************************************)
EXTENDS Integers, FiniteSets

CONSTANTS
  Obj,       \* places for a basic_mmap
  Handle,    \* the numbers open may return
  Region,    \* the places mmap may choose
  NoRegion,  \* data_ of nullptr
  Word,      \* size_t is Nat modulo Word
  PageSize,
  Size,      \* of the file, the same for every path and handle
  Offsets, Lengths   \* the arguments of map

Invalid == -1        \* invalid_handle
map_entire_file == 0

ASSUME MmapAssumption ==
  /\ Handle \subseteq Nat
  /\ NoRegion \notin Region
  /\ Word \in Nat /\ PageSize \in Nat \ {0} /\ Size \in Nat
  /\ Word % PageSize = 0 /\ (Word \div PageSize) % 2 = 0
  /\ 2 * Size < Word
  /\ Offsets \cup Lengths \subseteq 0..(Word - 1)

VARIABLES
  alive,    \* the objects constructed and not destroyed
  mm,       \* mm[o]: the members of o, and what the mapping was asked for
  fd,       \* fd[h]: "closed", or who opened h: "user" or "lib"
  region,   \* region[r]: bytes mapped there, in whole pages, 0 if none
  leaked,   \* history: handles a failed map(path) opened
  error     \* the last call reported an error

vars == <<alive, mm, fd, region, leaked, error>>

Sizes == 0..(Word - 1)

\* data_ is disp bytes into region at (or nullptr).
Mapping == [at : Region \cup {NoRegion}, disp : Sizes, length_ : Sizes,
            mapped_length_ : Sizes, file_handle_ : Handle \cup {Invalid},
            is_handle_internal_ : BOOLEAN, asked : Offsets \X Lengths \cup {<<0, 0>>}]

TypeOK ==
  /\ alive \subseteq Obj
  /\ mm \in [Obj -> Mapping]
  /\ fd \in [Handle -> {"closed", "user", "lib"}]
  /\ region \in [Region -> Sizes]
  /\ leaked \subseteq Handle
  /\ error \in BOOLEAN

\* The default member initialisers; is_handle_internal_ has none.
Default(internal) ==
  [at |-> NoRegion, disp |-> 0, length_ |-> 0, mapped_length_ |-> 0,
   file_handle_ |-> Invalid, is_handle_internal_ |-> internal, asked |-> <<0, 0>>]

Init ==
  /\ alive = {}
  /\ mm = [o \in Obj |-> Default(FALSE)]
  /\ fd = [h \in Handle |-> "closed"]
  /\ region = [r \in Region |-> 0]
  /\ leaked = {}
  /\ error = FALSE

is_open(m) == m.file_handle_ # Invalid

MAlignUp(offset) == ((offset + PageSize - 1) \div PageSize) * PageSize

make_offset_page_aligned(offset) == (offset \div PageSize) * PageSize

\* What the system maps of n bytes: whole pages.
InPages(n) == ((n + PageSize - 1) \div PageSize) * PageSize

mapping_offset(m) == (m.mapped_length_ - m.length_) % Word

-----------------------------------------------------------------------------
\* unmap() on the members m: what becomes of them, of regions and of handles.
\* munmap of anything but a whole region would leave the region mapped.
Unmapped(m) == IF is_open(m) THEN Default(m.is_handle_internal_) ELSE m

MunmapHits(m) ==
  /\ is_open(m)
  /\ m.at # NoRegion
  /\ m.disp = mapping_offset(m)
  /\ InPages(m.mapped_length_) = region[m.at]

RegionsWithout(m) == IF MunmapHits(m) THEN [region EXCEPT ![m.at] = 0] ELSE region

HandlesWithout(m, f) ==
  IF is_open(m) /\ m.is_handle_internal_ THEN [f EXCEPT ![m.file_handle_] = "closed"] ELSE f

\* mmap rejects an empty range and one that a signed 64-bit number can't
\* hold, and may refuse any other; it does not look at the size of the file.
MayMap(aligned, n) == 0 < n /\ n < Word \div 2 /\ aligned < Word \div 2

\* The test of the range, on size_t.
MRangeUnchecked(offset, length) == TRUE

RangeValid(offset, length) == (offset + length) % Word <= Size

\* map(handle, offset, length) on object o, with f the handles by then:
\* fails and changes nothing, or unmaps what o had and takes the new mapping.
MapSucceeds(o, h, offset, length, f, internal) ==
  LET aligned == make_offset_page_aligned(offset)
      len == IF length = map_entire_file THEN (Size - offset) % Word ELSE length
      n == (offset - aligned + len) % Word
      old == mm[o]
  IN  /\ RangeValid(offset, length)
      /\ MayMap(aligned, n)
      /\ \E r \in Region :
           /\ region[r] = 0
           /\ region' = [RegionsWithout(old) EXCEPT ![r] = InPages(n)]
           /\ mm' = [mm EXCEPT ![o] =
                [at |-> r, disp |-> offset - aligned, length_ |-> len, mapped_length_ |-> n,
                 file_handle_ |-> h, is_handle_internal_ |-> internal,
                 asked |-> <<offset, length>>]]
      /\ fd' = HandlesWithout(old, f)
      /\ error' = FALSE

\* fstat, the test of the range, or mmap fails.
MMapFailsLate(o, f) ==
  /\ error' = TRUE
  /\ mm' = [mm EXCEPT ![o] = Unmapped(mm[o])]
  /\ region' = RegionsWithout(mm[o])
  /\ fd' = HandlesWithout(mm[o], f)

MapFails(o, f) == error' = TRUE /\ fd' = f /\ UNCHANGED <<mm, region>>

\* The handles, once open has returned h.
open_file(h) == [fd EXCEPT ![h] = "lib"]

-----------------------------------------------------------------------------
Construct(o) ==
  /\ o \notin alive
  /\ alive' = alive \cup {o}
  /\ \E internal \in BOOLEAN : mm' = [mm EXCEPT ![o] = Default(internal)]
  /\ error' = FALSE
  /\ UNCHANGED <<fd, region, leaked>>

\* The destructor: sync, which changes none of this, then unmap.
MDestroyKeepsRegion(o) ==
  /\ o \in alive
  /\ alive' = alive \ {o}
  /\ mm' = [mm EXCEPT ![o] = Default(FALSE)]
  /\ fd' = HandlesWithout(mm[o], fd)
  /\ error' = FALSE
  /\ UNCHANGED <<region, leaked>>

Destroy(o) ==
  /\ o \in alive
  /\ alive' = alive \ {o}
  /\ mm' = [mm EXCEPT ![o] = Default(FALSE)]
  /\ region' = RegionsWithout(mm[o])
  /\ fd' = HandlesWithout(mm[o], fd)
  /\ error' = FALSE
  /\ UNCHANGED leaked

\* What a caller can pass as a handle: its own, or one an object opened.
Known(h) ==
  \/ fd[h] = "user"
  \/ \E o \in alive : mm[o].file_handle_ = h /\ mm[o].is_handle_internal_

\* map(handle, ...)
MMapHandleOwns(o) ==
  /\ o \in alive
  /\ \E h \in Handle, offset \in Offsets, length \in Lengths :
       /\ Known(h)
       /\ \/ MapSucceeds(o, h, offset, length, fd, TRUE)
          \/ MapFails(o, fd)
  /\ UNCHANGED <<alive, leaked>>

MapHandle(o) ==
  /\ o \in alive
  /\ \E h \in Handle, offset \in Offsets, length \in Lengths :
       /\ Known(h)
       /\ \/ MapSucceeds(o, h, offset, length, fd, FALSE)
          \/ MapFails(o, fd)
  /\ UNCHANGED <<alive, leaked>>

\* map(path, ...): the handle that open returned is the object's to close,
\* and nobody's if the mapping fails after it.
MapPath(o) ==
  /\ o \in alive
  /\ \/ MapFails(o, fd) /\ UNCHANGED leaked
     \/ \E h \in Handle, offset \in Offsets, length \in Lengths :
          /\ fd[h] = "closed"
          /\ \/ /\ MapSucceeds(o, h, offset, length, open_file(h), TRUE)
                /\ UNCHANGED leaked
             \/ /\ MapFails(o, open_file(h))
                /\ leaked' = leaked \cup {h}
  /\ UNCHANGED alive

Unmap(o) ==
  /\ o \in alive
  /\ mm' = [mm EXCEPT ![o] = Unmapped(mm[o])]
  /\ region' = RegionsWithout(mm[o])
  /\ fd' = HandlesWithout(mm[o], fd)
  /\ error' = FALSE
  /\ UNCHANGED <<alive, leaked>>

\* basic_mmap o(std::move(p)); p keeps is_handle_internal_.
MoveConstruct(o, p) ==
  /\ o \notin alive /\ p \in alive
  /\ alive' = alive \cup {o}
  /\ mm' = [mm EXCEPT ![o] = mm[p], ![p] = Default(mm[p].is_handle_internal_)]
  /\ error' = FALSE
  /\ UNCHANGED <<fd, region, leaked>>

\* o = std::move(p); o's mapping is removed first, p becomes a default object.
MMoveAssignKeepsSource(o, p) ==
  /\ {o, p} \subseteq alive /\ o # p
  /\ mm' = [mm EXCEPT ![o] = mm[p]]
  /\ region' = RegionsWithout(mm[o])
  /\ fd' = HandlesWithout(mm[o], fd)
  /\ error' = FALSE
  /\ UNCHANGED <<alive, leaked>>

MoveAssign(o, p) ==
  /\ {o, p} \subseteq alive /\ o # p
  /\ mm' = [mm EXCEPT ![o] = mm[p], ![p] = Default(FALSE)]
  /\ region' = RegionsWithout(mm[o])
  /\ fd' = HandlesWithout(mm[o], fd)
  /\ error' = FALSE
  /\ UNCHANGED <<alive, leaked>>

Swap(o, p) ==
  /\ {o, p} \subseteq alive /\ o # p
  /\ mm' = [mm EXCEPT ![o] = mm[p], ![p] = mm[o]]
  /\ error' = FALSE
  /\ UNCHANGED <<alive, fd, region, leaked>>

\* The caller opens and closes handles of its own, also under a mapping.
UserOpen(h) ==
  /\ fd[h] = "closed"
  /\ fd' = [fd EXCEPT ![h] = "user"]
  /\ error' = FALSE
  /\ UNCHANGED <<alive, mm, region, leaked>>

UserClose(h) ==
  /\ fd[h] = "user"
  /\ fd' = [fd EXCEPT ![h] = "closed"]
  /\ error' = FALSE
  /\ UNCHANGED <<alive, mm, region, leaked>>

\* A call on objects of O, or on a handle.
Calls(O) ==
  \/ \E o \in O : Construct(o) \/ Destroy(o) \/ MapHandle(o) \/ MapPath(o) \/ Unmap(o)
  \/ \E o, p \in O : MoveConstruct(o, p) \/ MoveAssign(o, p) \/ Swap(o, p)
  \/ \E h \in Handle : UserOpen(h) \/ UserClose(h)

Next == Calls(Obj)

Spec == Init /\ [][Next]_vars

-----------------------------------------------------------------------------
Owns(o, h) == mm[o].file_handle_ = h /\ mm[o].is_handle_internal_

\* Every handle the library has open belongs to one object, which will close
\* it, or was leaked by a failed map(path); never to both or to two objects.
HandlesAccounted ==
  \A h \in Handle : fd[h] = "lib" <=>
    (h \in leaked) # (\E o \in alive : Owns(o, h) /\ \A p \in alive : Owns(p, h) => p = o)

\* Every mapped region is that of exactly one object, whose unmap will hit
\* it, and every object with a handle has one: nothing is unmapped twice.
RegionsOwned ==
  /\ \A r \in Region : region[r] # 0 =>
       \E o \in alive : mm[o].at = r /\ MunmapHits(mm[o])
  /\ \A o \in alive : is_open(mm[o]) => MunmapHits(mm[o])
  /\ \A o, p \in alive : mm[o].at = mm[p].at => o = p \/ mm[o].at = NoRegion

\* "it must not be closed as it may still be used outside this instance":
\* a handle of the caller's is closed by the caller, or stays open.
UserHandlesKept ==
  [][\A h \in Handle : fd[h] = "user" /\ fd'[h] # "user" => UNCHANGED <<alive, mm, region>>]_vars

\* If offset + length does not wrap around, a mapping covers the bytes that
\* were asked for, and these lie in the file.
BytesInFile ==
  \A o \in alive : LET m == mm[o] IN
    is_open(m) /\ m.asked[1] + m.asked[2] < Word =>
      /\ m.asked[1] + m.length_ <= Size
      /\ m.length_ = (IF m.asked[2] = map_entire_file THEN Size - m.asked[1] ELSE m.asked[2])
      /\ m.disp + m.length_ <= region[m.at]

\* mio.hpp:340-341: the handle that map(path) opens "is closed when the object
\* destructs or `unmap` is called", so none is open without an object.
HandlesReturned ==
  \A h \in Handle : fd[h] = "lib" => \E o \in alive : Owns(o, h)
=============================================================================

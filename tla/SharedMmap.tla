----------------------------- MODULE SharedMmap -----------------------------
(***************************************************************************)
(* mio::basic_shared_mmap (mio.hpp): objects that share one basic_mmap on  *)
(* the heap, beside objects of basic_mmap itself, as module Mmap has them. *)
(* A holder is a basic_shared_mmap or a shared_ptr that get_shared_ptr     *)
(* returned; one that was destroyed is as good as one that holds nothing.  *)
(* sync and the accessors change nothing that is modelled here.            *)
(***************************************************************************)
EXTENDS Mmap

CONSTANTS
  Holder,
  Nobody     \* pimpl_ of nullptr

ASSUME SharedMmapAssumption == Nobody \notin Obj

VARIABLES
  pimpl_,    \* pimpl_[s]: the object that s shares
  heap       \* the objects that make_shared made and nobody destroyed

sharedVars == <<vars, pimpl_, heap>>

Holders(o) == {s \in Holder : pimpl_[s] = o}

SharedTypeOK ==
  /\ TypeOK
  /\ pimpl_ \in [Holder -> heap \cup {Nobody}]
  /\ heap \subseteq alive

SharedInit ==
  /\ Init
  /\ pimpl_ = [s \in Holder |-> Nobody]
  /\ heap = {}

\* The object destroyed when s lets go of what it shares: as a set, empty
\* unless s is the only holder.
Abandoned(s) == {o \in heap : Holders(o) = {s}}

\* The holders become those of now.  made are objects new on the heap, members
\* the members before ~basic_mmap of the object in gone, if there is one.
Become(now, made, gone, members) ==
  /\ pimpl_' = now
  /\ alive' = (alive \cup made) \ gone
  /\ heap' = (heap \cup made) \ gone
  /\ mm' = [o \in Obj |-> IF o \in gone THEN Default(FALSE) ELSE members[o]]
  /\ IF gone = {} THEN UNCHANGED <<region, fd>> ELSE
       \E o \in gone : region' = RegionsWithout(mm[o]) /\ fd' = HandlesWithout(mm[o], fd)
  /\ error' = FALSE
  /\ UNCHANGED leaked

-----------------------------------------------------------------------------
\* A copy of t, constructed in place of s or assigned to it.
Copy(s, t) ==
  /\ pimpl_[s] # pimpl_[t]
  /\ Become([pimpl_ EXCEPT ![s] = pimpl_[t]], {}, Abandoned(s), mm)

\* The same by move: t is left with nothing.
Move(s, t) ==
  /\ s # t /\ pimpl_[t] # Nobody
  /\ Become([pimpl_ EXCEPT ![s] = pimpl_[t], ![t] = Nobody], {}, Abandoned(s), mm)

SwapHolders(s, t) ==
  /\ pimpl_[s] # pimpl_[t]
  /\ Become([pimpl_ EXCEPT ![s] = pimpl_[t], ![t] = pimpl_[s]], {}, {}, mm)

\* The destructor of s.
MDropUnmaps(s) ==
  /\ pimpl_[s] # Nobody
  /\ \E o \in {pimpl_[s]} :
       /\ mm' = [mm EXCEPT ![o] = Unmapped(mm[o])]
       /\ region' = RegionsWithout(mm[o])
       /\ fd' = HandlesWithout(mm[o], fd)
  /\ pimpl_' = [pimpl_ EXCEPT ![s] = Nobody]
  /\ error' = FALSE
  /\ UNCHANGED <<alive, heap, leaked>>

Drop(s) ==
  /\ pimpl_[s] # Nobody
  /\ Become([pimpl_ EXCEPT ![s] = Nobody], {}, Abandoned(s), mm)

\* s takes ownership of p: make_shared moves p to the heap before s lets go.
TakeOwnership(s, o, p) ==
  /\ o \notin alive /\ p \in alive \ heap
  /\ Become([pimpl_ EXCEPT ![s] = o], {o}, Abandoned(s),
            [mm EXCEPT ![o] = mm[p], ![p] = Default(mm[p].is_handle_internal_)])

\* map_impl with a pimpl_: all who share the object see the new mapping.
MapShared(s) ==
  /\ pimpl_[s] # Nobody
  /\ MapHandle(pimpl_[s]) \/ MapPath(pimpl_[s])
  /\ UNCHANGED <<pimpl_, heap>>

\* map_impl without one: make_mmap maps a local object, which is moved to
\* the heap,
MMapFirstSharesLocal(s, o) ==
  /\ pimpl_[s] = Nobody /\ o \notin alive
  /\ \E h \in Handle, offset \in Offsets, length \in Lengths :
       Known(h) /\ MapSucceeds(o, h, offset, length, fd, FALSE)
  /\ pimpl_' = [pimpl_ EXCEPT ![s] = o]
  /\ heap' = heap \cup {o}
  /\ UNCHANGED <<alive, leaked>>

MapFirst(s, o) ==
  /\ pimpl_[s] = Nobody /\ o \notin alive
  /\ \E h \in Handle, offset \in Offsets, length \in Lengths :
       \/ Known(h) /\ MapSucceeds(o, h, offset, length, fd, FALSE)
       \/ fd[h] = "closed" /\ MapSucceeds(o, h, offset, length, open_file(h), TRUE)
  /\ pimpl_' = [pimpl_ EXCEPT ![s] = o]
  /\ alive' = alive \cup {o}
  /\ heap' = heap \cup {o}
  /\ UNCHANGED leaked

\* or destroyed if that fails, when a handle that open returned is lost.
MapFirstFails(s) ==
  /\ pimpl_[s] = Nobody
  /\ \/ UNCHANGED <<fd, leaked>>
     \/ \E h \in Handle :
          /\ fd[h] = "closed"
          /\ fd' = open_file(h)
          /\ leaked' = leaked \cup {h}
  /\ error' = TRUE
  /\ UNCHANGED <<alive, mm, region, pimpl_, heap>>

UnmapShared(s) ==
  /\ pimpl_[s] # Nobody
  /\ Unmap(pimpl_[s])
  /\ UNCHANGED <<pimpl_, heap>>

\* The calls on objects that nobody shares.
Unshared == Calls(Obj \ heap) /\ UNCHANGED <<pimpl_, heap>>

SharedNext ==
  \/ Unshared
  \/ \E s, t \in Holder : Copy(s, t) \/ Move(s, t) \/ SwapHolders(s, t)
  \/ \E s \in Holder : Drop(s) \/ MapShared(s) \/ MapFirstFails(s) \/ UnmapShared(s)
  \/ \E s \in Holder, o \in Obj : MapFirst(s, o)
  \/ \E s \in Holder, o, p \in Obj : TakeOwnership(s, o, p)

SharedSpec == SharedInit /\ [][SharedNext]_sharedVars

-----------------------------------------------------------------------------
\* Who holds an object finds it as it was, whatever becomes of the others who
\* held it: if its members change, nobody was assigned, moved or destroyed.
HoldersUndisturbed ==
  [][\A s \in Holder :
       pimpl_'[s] = pimpl_[s] /\ pimpl_' # pimpl_ /\ pimpl_[s] # Nobody =>
         pimpl_[s] \in alive' /\ mm'[pimpl_[s]] = mm[pimpl_[s]]]_sharedVars

\* The strong guarantee: a map that fails leaves "the object ... in a state as
\* if this function hadn't been called" (mio.hpp:1584-1585), and with it every
\* other object, mapping, open handle and who shares what.
FailureChangesNothing ==
  [][error' => /\ UNCHANGED <<alive, mm, region, pimpl_, heap>>
               /\ \A h \in Handle : fd[h] # "closed" => fd'[h] = fd[h]]_sharedVars
=============================================================================

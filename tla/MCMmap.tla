------------------------------- MODULE MCMmap -------------------------------
(***************************************************************************)
(* Mmap with two objects, two handles, and three regions, since map makes  *)
(* the new mapping before it removes the old one.  size_t has four bits:   *)
(* with pages of four bytes and a file of six, the range 7, 15 wraps       *)
(* around to the file's end.                                               *)
(***************************************************************************)
EXTENDS Mmap, TLC

CONSTANTS o1, o2, r1, r2, r3

MCObj == {o1, o2}
MCHandle == {3, 4}
MCRegion == {r1, r2, r3}
MCOffsets == {0, 1, 5, 7}
MCLengths == {0, 1, 15}

Symmetry == Permutations(MCObj) \cup Permutations(MCRegion)
=============================================================================

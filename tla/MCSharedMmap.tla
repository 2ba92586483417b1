---------------------------- MODULE MCSharedMmap ----------------------------
(***************************************************************************)
(* SharedMmap with three objects and two holders, so that both can share   *)
(* one object while a third becomes another's; two handles, and three      *)
(* regions, since map makes the new mapping before it removes the old one. *)
(* size_t has four bits: with pages of four bytes and a file of six, the   *)
(* range 7, 15 wraps around to the file's end.                             *)
(***************************************************************************)
EXTENDS SharedMmap, TLC

CONSTANTS o1, o2, o3, r1, r2, r3, s1, s2

MCObj == {o1, o2, o3}
MCHandle == {3, 4}
MCRegion == {r1, r2, r3}
MCHolder == {s1, s2}
MCOffsets == {0, 5, 7}
MCLengths == {0, 15}

Symmetry == Permutations(MCObj) \cup Permutations(MCRegion) \cup Permutations(MCHolder)
=============================================================================

------------------------------ MODULE Strings ------------------------------
(***************************************************************************)
(* What the string operations of src/ compute, on strings as sequences of  *)
(* tokens.                                                                 *)
(***************************************************************************)
EXTENDS Integers, FiniteSets, SequencesExt

\* The positions at which old occurs in s.
Occurrences(s, old) ==
  {i \in 1..(Len(s) - Len(old) + 1) : SubSeq(s, i, i + Len(old) - 1) = old}

\* The occurrences that a scan from the left replaces: they do not overlap,
\* and every other occurrence overlaps an earlier one of them.
Scanned(s, old) ==
  LET occ == Occurrences(s, old)
      Overlaps(i, j) == i < j /\ j < i + Len(old)
  IN  CHOOSE M \in SUBSET occ :
        /\ \A i, j \in M : ~Overlaps(i, j)
        /\ \A j \in occ \ M : \E i \in M : Overlaps(i, j)

\* Those that are replaced: the first k, or all for a negative k.
Taken(s, old, k) ==
  LET M == Scanned(s, old)
  IN  {i \in M : k < 0 \/ Cardinality({j \in M : j < i}) < k}

\* What becomes of each character: the replacement where a taken occurrence
\* begins, nothing inside it, and the character itself elsewhere.
Images(s, old, new, k) ==
  LET taken == Taken(s, old, k)
  IN  [p \in DOMAIN s |->
         IF p \in taken THEN new
         ELSE IF \E i \in taken : p \in (i + 1)..(i + Len(old) - 1) THEN <<>>
         ELSE <<s[p]>>]

\* The result, as one formula.
Replaced(s, old, new, k) ==
  IF old = <<>> THEN s ELSE FlattenSeq(Images(s, old, new, k))

string_starts_with(s, prefix) == IsPrefix(prefix, s)

EndsWith(s, suffix) == IsSuffix(suffix, s)
=============================================================================

---------------------------- MODULE StringReplace ----------------------------
(***************************************************************************)
(* string_replace of include/splitter/util.hpp, one step per iteration of  *)
(* its loop.  What it computes is Replaced of module Strings.              *)
(***************************************************************************)
EXTENDS Strings

CONSTANTS Char, MaxLen, New, MaxTimes

ASSUME StringReplaceAssumption ==
  /\ New \in Seq(Char)
  /\ MaxLen \in Nat /\ MaxTimes \in Nat

VARIABLES
  input, old_value, times,  \* the arguments; times is the initial k
  result, current, k,       \* the local variables of the same names
  returned

vars == <<input, old_value, times, result, current, k, returned>>

TypeOK ==
  /\ {input, old_value, result, current} \subseteq Seq(Char)
  /\ {times, k} \subseteq -1..MaxTimes
  /\ returned \in BOOLEAN

Init ==
  /\ input \in SeqOf(Char, MaxLen)
  /\ old_value \in SeqOf(Char, MaxLen)
  /\ times \in -1..MaxTimes
  /\ result = <<>>
  /\ current = input
  /\ k = times
  /\ returned = FALSE

\* The early return when there is nothing to look for.
ReturnInput ==
  /\ ~returned
  /\ old_value = <<>>
  /\ result' = input
  /\ returned' = TRUE
  /\ UNCHANGED <<input, old_value, times, current, k>>

\* current.find(old_value)
Found == Occurrences(current, old_value) # {}
Pos   == CHOOSE i \in Occurrences(current, old_value) :
           \A j \in Occurrences(current, old_value) : i <= j

MReplaceSkipsOne ==
  /\ ~returned
  /\ old_value # <<>>
  /\ k # 0 /\ Found
  /\ result' = result \o SubSeq(current, 1, Pos - 1) \o New
  /\ current' = SubSeq(current, Pos + 1, Len(current))
  /\ k' = IF k > 0 THEN k - 1 ELSE k
  /\ UNCHANGED <<input, old_value, times, returned>>

MReplaceAlwaysCounts ==
  /\ ~returned
  /\ old_value # <<>>
  /\ k # 0 /\ Found
  /\ result' = result \o SubSeq(current, 1, Pos - 1) \o New
  /\ current' = SubSeq(current, Pos + Len(old_value), Len(current))
  /\ k' = k - 1
  /\ UNCHANGED <<input, old_value, times, returned>>

MReplaceOfNothing ==
  /\ ~returned
  /\ k # 0 /\ Found
  /\ result' = result \o SubSeq(current, 1, Pos - 1) \o New
  /\ current' = SubSeq(current, Pos + Len(old_value), Len(current))
  /\ k' = IF k > 0 THEN k - 1 ELSE k
  /\ UNCHANGED <<input, old_value, times, returned>>

\* One iteration: the text before the match and new_value are appended,
\* both are dropped from current.
ReplaceNext ==
  /\ ~returned
  /\ old_value # <<>>
  /\ k # 0 /\ Found
  /\ result' = result \o SubSeq(current, 1, Pos - 1) \o New
  /\ current' = SubSeq(current, Pos + Len(old_value), Len(current))
  /\ k' = IF k > 0 THEN k - 1 ELSE k
  /\ UNCHANGED <<input, old_value, times, returned>>

\* The loop is over: what is left is appended.
AppendRest ==
  /\ ~returned
  /\ old_value # <<>>
  /\ k = 0 \/ ~Found
  /\ result' = result \o current
  /\ returned' = TRUE
  /\ UNCHANGED <<input, old_value, times, current, k>>

Next == ReturnInput \/ ReplaceNext \/ AppendRest

Spec == Init /\ [][Next]_vars

\* The loop returns Replaced: it finds matches left to right, never inside
\* the text it has just put in, and stops after k of them.
ResultIsReplaced == returned => result = Replaced(input, old_value, New, times)

\* Every iteration shortens current, so that the loop ends: what the early
\* return for an empty old_value is there for.
IterationShortens ==
  [][result' # result /\ ~returned' => Len(current') < Len(current)]_vars
=============================================================================

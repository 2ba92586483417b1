------------------------------ MODULE SplitRun ------------------------------
(***************************************************************************)
(* What a run of db-splitter promises the user who sees its exit status,   *)
(* its error lines and the destination folder: first it only looks, then   *)
(* it discards the old output, and from then on it fails aloud, dies, or   *)
(* has written the new output.  Help is a run of its own.                  *)
(***************************************************************************)
CONSTANTS
  Running,     \* no exit status yet
  Rejections,  \* the statuses that reject the arguments
  Deaths       \* those of a process that was killed

VARIABLES
  asked,     \* for a split, not for help or a completion
  stage,     \* "checking", before anything is changed, or "working"
  dest,      \* the destination: "absent", "file", "empty", "full"
  outputs,   \* its files: "none", "old", "part", "short", "all"
  reported,  \* an error line was printed
  exit

vars == <<asked, stage, dest, outputs, reported, exit>>

Init ==
  /\ asked \in BOOLEAN
  /\ stage = "checking"
  /\ dest \in {"absent", "file", "empty", "full"}
  /\ outputs = IF dest = "full" THEN "old" ELSE "none"
  /\ reported = FALSE
  /\ exit = Running

Warn ==
  /\ stage = "checking" /\ ~reported
  /\ reported' = TRUE
  /\ UNCHANGED <<stage, dest, outputs, exit>>

Reject ==
  /\ stage = "checking"
  /\ exit' \in Rejections /\ reported' = TRUE
  /\ UNCHANGED <<stage, dest, outputs>>

Discard ==
  /\ stage = "checking" /\ dest # "file"
  /\ stage' = "working"
  /\ dest' \in {"absent", "empty"} /\ outputs' = "none"
  /\ UNCHANGED <<reported, exit>>

\* Discarding the old output may fail half-way.
Die ==
  /\ exit' \in Deaths
  /\ outputs' = outputs \/ (stage = "checking" /\ outputs' = "none")
  /\ UNCHANGED <<stage, dest, reported>>

\* Files are short if a write failed, and only some if the process dies.
Write ==
  /\ stage = "working" /\ outputs = "none"
  /\ \/ outputs' \in {"short", "all"} /\ exit' = Running
     \/ outputs' \in {"none", "part", "short", "all"} /\ exit' \in Deaths
  /\ dest' \in {dest, "full"} /\ (outputs' \in {"part", "short"} => dest' = "full")
  /\ UNCHANGED <<stage, reported>>

Finish ==
  /\ stage = "working"
  /\ exit' = 0
  /\ reported' = TRUE \/ (outputs \in {"short", "all"} /\ reported' = reported)
  /\ UNCHANGED <<stage, dest, outputs>>

ShowHelp ==
  /\ exit' = 0
  /\ UNCHANGED <<stage, dest, outputs, reported>>

Next ==
  /\ exit = Running
  /\ asked => Warn \/ Reject \/ Discard \/ Die \/ Write \/ Finish
  /\ ~asked => ShowHelp
  /\ UNCHANGED asked

Safety == Init /\ [][Next]_vars

\* A run ends.
Spec == Safety /\ WF_vars(Next)
=============================================================================

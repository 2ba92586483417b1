---------------------------- MODULE Distribution ----------------------------
(***************************************************************************)
(* What DoSplitCommand promises of the output folders, without tasks or    *)
(* partly written files: each folder some command belongs to receives one  *)
(* file, with all of its commands or damaged by an I/O error, and only     *)
(* when all of them have theirs does the program finish normally.          *)
(***************************************************************************)
CONSTANTS Command, Key

VARIABLES
  dests,    \* dests[c]: the output folder of a command
  outputs,  \* outputs[k]: the file in folder k, once it is closed
  outcome   \* how the program ended

vars == <<dests, outputs, outcome>>

Missing     == [state |-> "missing", commands |-> {}]
Damaged     == [state |-> "damaged", commands |-> {}]
Complete(S) == [state |-> "complete", commands |-> S]

Needed == {dests[c] : c \in Command}

Init ==
  /\ dests \in [Command -> Key]
  /\ outputs = [k \in Key |-> Missing]
  /\ outcome = "running"

Write(k) ==
  /\ outcome = "running"
  /\ k \in Needed
  /\ outputs[k] = Missing
  /\ \/ outputs' = [outputs EXCEPT ![k] = Complete({c \in Command : dests[c] = k})]
     \/ outputs' = [outputs EXCEPT ![k] = Damaged]
  /\ UNCHANGED <<dests, outcome>>

Finish ==
  /\ outcome = "running"
  /\ \A k \in Needed : outputs[k] # Missing
  /\ outcome' = "finished"
  /\ UNCHANGED <<dests, outputs>>

\* An exception nobody catches, or a call on a null FILE.
Die ==
  /\ outcome = "running"
  /\ outcome' \in {"aborted", "crashed"}
  /\ UNCHANGED <<dests, outputs>>

Next == (\E k \in Key : Write(k)) \/ Finish \/ Die

Safety == Init /\ [][Next]_vars

\* The program ends.
Spec == Safety /\ WF_vars(Next)
=============================================================================

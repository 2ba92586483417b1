------------------------------ MODULE SplitCdb ------------------------------
(***************************************************************************)
(* DoSplitCommand (src/commands.cpp) from the grouping loop on: commands   *)
(* are pushed to the array of their destination in commands_map, then one  *)
(* task per destination writes its array to compile_commands.json, in      *)
(* parallel, under oneapi::tbb::parallel_for_each.                         *)
(*                                                                         *)
(* A file is the sequence of the commands in it; a write puts one command  *)
(* at the offset of the writer's own FILE.  An I/O call may fail where     *)
(* Faults says so.                                                         *)
(***************************************************************************)
EXTENDS Integers, FiniteSets, SequencesExt

CONSTANTS
  N,         \* bound: the number of commands in the database
  Key,       \* the strings dest_folder / prefix, keys of commands_map
  Dir,       \* the directories of the file system
  At,        \* At[k]: the directory that k names
  Workers,   \* bound: the threads TBB runs tasks on
  Faults     \* which of "mkdir", "open", "write" and the loop's body, at a
             \* "command" it cannot read or look up, may fail

ASSUME SplitCdbAssumption ==
  /\ N \in Nat
  /\ At \in [Key -> Dir]
  /\ Workers \in Nat \ {0}
  /\ Faults \subseteq {"mkdir", "open", "write", "command"}

\* Different keys name different directories.
NoAlias == \A j, k \in Key : At[j] = At[k] => j = k

Command == 1..N

\* A place in a file that no write reached.
Hole == 0

VARIABLES
  dests,     \* dests[c]: the key of command c
  phase,     \* "grouping", "writing", or how the program ended
  next,      \* the command to be grouped next
  groups,    \* commands_map
  task,      \* task[k]: how far the task of key k is
  done,      \* done[k]: the commands it has handed to fwrite
  off,       \* off[k]: the offset of its FILE
  files,     \* files[d]: what compile_commands.json in d holds
  cancelled, \* a task has thrown: no other task is started
  lost       \* the keys some of whose output fwrite or fclose did not write

vars == <<dests, phase, next, groups, task, done, off, files, cancelled, lost>>

TaskState == {"waiting", "ready", "open", "closed", "failed"}
Ended     == {"finished", "aborted", "crashed"}

TypeOK ==
  /\ dests \in [Command -> Key]
  /\ phase \in {"grouping", "writing"} \cup Ended
  /\ next \in 1..(N + 1)
  /\ groups \in [Key -> Seq(Command)]
  /\ task \in [Key -> TaskState]
  /\ done \in [Key -> 0..N]
  /\ off \in [Key -> 0..N]
  /\ files \in [Dir -> Seq(Command \cup {Hole})]
  /\ cancelled \in BOOLEAN
  /\ lost \in SUBSET Key

Init ==
  /\ dests \in [Command -> Key]
  /\ phase = "grouping"
  /\ next = 1
  /\ groups = [k \in Key |-> <<>>]
  /\ task = [k \in Key |-> "waiting"]
  /\ done = [k \in Key |-> 0]
  /\ off = [k \in Key |-> 0]
  /\ files = [d \in Dir |-> <<>>]
  /\ cancelled = FALSE
  /\ lost = {}

\* One iteration of the grouping loop: PushBack, into a new array if the key
\* has none yet.
MGroupReplaces ==
  /\ phase = "grouping" /\ next <= N
  /\ groups' = [groups EXCEPT ![dests[next]] = <<next>>]
  /\ next' = next + 1
  /\ UNCHANGED <<dests, phase, task, done, off, files, cancelled, lost>>

Group ==
  /\ phase = "grouping" /\ next <= N
  /\ groups' = [groups EXCEPT ![dests[next]] = Append(@, next)]
  /\ next' = next + 1
  /\ UNCHANGED <<dests, phase, task, done, off, files, cancelled, lost>>

\* A command without "file", for one, is a null string that is read; and an
\* include directory that fs::exists cannot look up makes it throw.
GroupDies ==
  /\ "command" \in Faults
  /\ phase = "grouping" /\ next <= N
  /\ phase' \in {"aborted", "crashed"}
  /\ UNCHANGED <<dests, next, groups, task, done, off, files, cancelled, lost>>

StartWriting ==
  /\ phase = "grouping" /\ next > N
  /\ phase' = "writing"
  /\ UNCHANGED <<dests, next, groups, task, done, off, files, cancelled, lost>>

\* The keys of commands_map, and those whose task is on a thread.
Mapped  == {k \in Key : groups[k] # <<>>}
Running == {k \in Key : task[k] \in {"ready", "open"}}

Starts(k) ==
  /\ phase = "writing" /\ ~cancelled
  /\ k \in Mapped /\ task[k] = "waiting"
  /\ Cardinality(Running) < Workers

\* fs::create_directories(dest_folder) ...
CreateDirectories(k) ==
  /\ Starts(k)
  /\ task' = [task EXCEPT ![k] = "ready"]
  /\ UNCHANGED <<dests, phase, next, groups, done, off, files, cancelled, lost>>

\* ... or it throws; TBB cancels the tasks that have not started.
MThrowSwallowed(k) ==
  /\ "mkdir" \in Faults
  /\ Starts(k)
  /\ task' = [task EXCEPT ![k] = "closed"]
  /\ UNCHANGED <<dests, phase, next, groups, done, off, files, cancelled, lost>>

CreateDirectoriesThrows(k) ==
  /\ "mkdir" \in Faults
  /\ Starts(k)
  /\ task' = [task EXCEPT ![k] = "failed"]
  /\ cancelled' = TRUE
  /\ UNCHANGED <<dests, phase, next, groups, done, off, files, lost>>

\* fopen(..., "w") truncates the file ...
Open(k) ==
  /\ phase = "writing" /\ task[k] = "ready"
  /\ task' = [task EXCEPT ![k] = "open"]
  /\ files' = [files EXCEPT ![At[k]] = <<>>]
  /\ UNCHANGED <<dests, phase, next, groups, done, off, cancelled, lost>>

\* ... or returns null, which nobody checks: the process dies.
OpenFails(k) ==
  /\ "open" \in Faults
  /\ phase = "writing" /\ task[k] = "ready"
  /\ phase' = "crashed"
  /\ UNCHANGED <<dests, next, groups, task, done, off, files, cancelled, lost>>

\* The file f after c was written at offset o.
Written(f, o, c) ==
  [i \in 1..(IF Len(f) > o THEN Len(f) ELSE o + 1) |->
     IF i = o + 1 THEN c ELSE IF i <= Len(f) THEN f[i] ELSE Hole]

Accepts(k) ==
  /\ phase = "writing" /\ task[k] = "open"
  /\ done[k] < Len(groups[k])

\* commands.Accept(writer): the next command goes to the file ...
MWriteAtStart(k) ==
  /\ Accepts(k)
  /\ files' = [files EXCEPT ![At[k]] = Written(@, 0, groups[k][done[k] + 1])]
  /\ done' = [done EXCEPT ![k] = @ + 1]
  /\ off' = [off EXCEPT ![k] = @ + 1]
  /\ UNCHANGED <<dests, phase, next, groups, task, cancelled, lost>>

MWriteLeavesGap(k) ==
  /\ Accepts(k)
  /\ files' = [files EXCEPT ![At[k]] = Written(@, off[k], groups[k][done[k] + 1])]
  /\ done' = [done EXCEPT ![k] = @ + 1]
  /\ off' = [off EXCEPT ![k] = @ + 2]
  /\ UNCHANGED <<dests, phase, next, groups, task, cancelled, lost>>

WriteCommand(k) ==
  /\ Accepts(k)
  /\ files' = [files EXCEPT ![At[k]] = Written(@, off[k], groups[k][done[k] + 1])]
  /\ done' = [done EXCEPT ![k] = @ + 1]
  /\ off' = [off EXCEPT ![k] = @ + 1]
  /\ UNCHANGED <<dests, phase, next, groups, task, cancelled, lost>>

\* ... or is lost: FileWriteStream ignores a short count, fclose's result is
\* not looked at.
LoseCommand(k) ==
  /\ "write" \in Faults
  /\ Accepts(k)
  /\ done' = [done EXCEPT ![k] = @ + 1]
  /\ lost' = lost \cup {k}
  /\ UNCHANGED <<dests, phase, next, groups, task, off, files, cancelled>>

Close(k) ==
  /\ phase = "writing" /\ task[k] = "open"
  /\ done[k] = Len(groups[k])
  /\ task' = [task EXCEPT ![k] = "closed"]
  /\ UNCHANGED <<dests, phase, next, groups, done, off, files, cancelled, lost>>

Task(k) ==
  \/ CreateDirectories(k) \/ CreateDirectoriesThrows(k)
  \/ Open(k) \/ OpenFails(k)
  \/ WriteCommand(k) \/ LoseCommand(k) \/ Close(k)

\* parallel_for_each returns when no task runs and none will start ...
MReturnAtOnce ==
  /\ phase = "writing" /\ ~cancelled
  /\ phase' = "finished"
  /\ UNCHANGED <<dests, next, groups, task, done, off, files, cancelled, lost>>

Return ==
  /\ phase = "writing" /\ ~cancelled
  /\ \A k \in Mapped : task[k] = "closed"
  /\ phase' = "finished"
  /\ UNCHANGED <<dests, next, groups, task, done, off, files, cancelled, lost>>

\* ... or rethrows once the tasks that run are done; main has no handler.
MRethrowAtOnce ==
  /\ phase = "writing" /\ cancelled
  /\ phase' = "aborted"
  /\ UNCHANGED <<dests, next, groups, task, done, off, files, cancelled, lost>>

Rethrow ==
  /\ phase = "writing" /\ cancelled
  /\ Running = {}
  /\ phase' = "aborted"
  /\ UNCHANGED <<dests, next, groups, task, done, off, files, cancelled, lost>>

Next ==
  \/ Group \/ GroupDies \/ StartWriting
  \/ \E k \in Key : Task(k)
  \/ Return \/ Rethrow

Spec == Init /\ [][Next]_vars

\* The process keeps running: the loop, the threads of TBB and the waiting
\* caller are scheduled, and no I/O call blocks for ever.
FairSpec == Spec /\ WF_vars(Next)

-----------------------------------------------------------------------------
\* Every command that has been grouped is in the group of its key, once, and
\* the commands of a group keep the order they have in the database.
GroupsInOrder ==
  \A k \in Key :
    /\ ToSet(groups[k]) = {c \in 1..(next - 1) : dests[c] = k}
    /\ \A i, j \in DOMAIN groups[k] : i < j => groups[k][i] < groups[k][j]

\* While a task writes, its file holds the commands handed to fwrite so far
\* and nothing of another task or of an earlier file.
FileIsWritten(k) ==
  task[k] \in {"open", "closed"} /\ k \notin lost =>
    files[At[k]] = SubSeq(groups[k], 1, done[k])

TasksDoNotMix == \A k \in Key : FileIsWritten(k)

\* The file of a folder is at any time, and after a crash, a beginning of what
\* belongs in it.  An exception that ends the program leaves it whole or
\* without a command, and a run that finishes leaves it whole.  A lost write
\* excuses its own file alone, and not that commands of other folders are in it.
NoTornFile ==
  \A k \in Key :
    LET file == files[At[k]] IN
      /\ ToSet(file) \subseteq ToSet(groups[k])
      /\ k \notin lost =>
           /\ IsPrefix(file, groups[k])
           /\ phase = "aborted" => file \in {<<>>, groups[k]}
           /\ phase = "finished" => file = groups[k]

\* README.md:137: a compile_commands.json is produced for each sub-project.
\* When the program finishes and no write failed, every command is in the
\* file of its folder.
EveryCommandIsOutput ==
  phase = "finished" /\ lost = {} =>
    \A c \in Command : c \in ToSet(files[At[dests[c]]])

\* The refinement mapping: a file counts once it is closed.
Output(k) ==
  IF task[k] # "closed" THEN [state |-> "missing", commands |-> {}]
  ELSE IF k \in lost THEN [state |-> "damaged", commands |-> {}]
  ELSE [state |-> "complete", commands |-> ToSet(files[At[k]])]

Split == INSTANCE Distribution WITH
           outputs <- [k \in Key |-> Output(k)],
           outcome <- IF phase \in Ended THEN phase ELSE "running"

\* The tasks distribute the commands as the abstract specification says, in
\* one step per folder as far as a closed file shows, and the program ends.
ImplementsDistribution == Split!Spec
=============================================================================

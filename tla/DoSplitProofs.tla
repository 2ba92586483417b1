---------------------------- MODULE DoSplitProofs ----------------------------
(***************************************************************************)
(* Theorems about DoSplit, for any databases, projects and file system.    *)
(***************************************************************************)
EXTENDS DoSplit, Lemmas

\* In the body of the loop, the command is the one that the loop stands at,
\* and the prefix is that of its path, whatever the body has rewritten.
InBody ==
  /\ phase = "grouping" /\ next <= N
  /\ DOMAIN command = DOMAIN database[next]
  /\ pc = "prefix" => command = database[next]
  /\ pc # "prefix" => "file" \in DOMAIN database[next] /\ prefix = PrefixOf(database[next])

LoopInv ==
  /\ dests = FoldersOf(database)
  /\ next \in Nat \ {0}
  /\ pc \notin {"done", "died"} => InBody

\* Every step of the body but the first leaves the prefix and the members of
\* the command.
LEMMA RewriteKeepsMembers ==
  ASSUME Rewrite
  PROVE  /\ pc \notin {"done", "died"} /\ pc' \notin {"prefix", "done", "died"}
         /\ DOMAIN command' = DOMAIN command
         /\ pc = "prefix" => /\ "file" \in DOMAIN command
                             /\ prefix' = PrefixOf(command)
         /\ pc # "prefix" => prefix' = prefix
<1>1. CASE SearchPrefix
  BY <1>1 DEF SearchPrefix, Has
<1>2. CASE SetDirectory
  BY <1>2 DEF SetDirectory, Has
<1>3. CASE SetFile
  BY <1>3 DEF SetFile, Has
<1>4. CASE SetCompiler \/ ReplaceInArgument \/ ResolveInclude \/ KeepArgument
  <2>1. AtArgument /\ \E s : SetArgument(s)
    BY <1>4 DEF SetCompiler, ReplaceInArgument, ResolveInclude, KeepArgument
  <2>2. QED
    BY <2>1 DEF AtArgument, SetArgument
<1>5. CASE ArgumentsDone
  BY <1>5 DEF ArgumentsDone
<1>6. QED
  BY <1>1, <1>2, <1>3, <1>4, <1>5 DEF Rewrite

LEMMA InitLoopInv ==
  ASSUME SplitInit
  PROVE  LoopInv
BY DEF SplitInit, LoopInv, Out!Init

LEMMA NextLoopInv ==
  ASSUME LoopInv, [SplitNext]_splitVars
  PROVE  LoopInv'
<1>1. CASE NextCommand
  <2>1. /\ dests' = dests /\ database' = database /\ next' = next /\ phase' = phase
        /\ phase = "grouping" /\ next <= N
        /\ command' = database[next] /\ pc' = "prefix"
    BY <1>1 DEF NextCommand, outputVars
  <2>2. QED
    BY <2>1 DEF LoopInv, InBody
<1>2. CASE RewriteStep
  <2>1. /\ dests' = dests /\ database' = database /\ next' = next /\ phase' = phase
        /\ Rewrite
    BY <1>2 DEF RewriteStep, outputVars
  <2>2. InBody /\ pc' # "prefix"
    BY <2>1, RewriteKeepsMembers DEF LoopInv
  <2>3. "file" \in DOMAIN database[next] /\ prefix' = PrefixOf(database[next])
    BY <2>1, <2>2, RewriteKeepsMembers DEF InBody
  <2>4. InBody'
    BY <2>1, <2>2, <2>3, RewriteKeepsMembers DEF InBody
  <2>5. QED
    BY <2>1, <2>4 DEF LoopInv
<1>3. CASE PushCommand
  <2>1. /\ dests' = dests /\ database' = database /\ next' = next + 1 /\ pc' = "done"
    BY <1>3 DEF PushCommand, Push
  <2>2. QED
    BY <2>1 DEF LoopInv
<1>4. CASE CommandKills
  <2>1. /\ dests' = dests /\ database' = database /\ next' = next /\ pc' = "died"
    BY <1>4 DEF CommandKills, NoFile, ExistsThrows
  <2>2. QED
    BY <2>1 DEF LoopInv
<1>5. CASE WriteStep
  <2>1. /\ database' = database /\ pc' = pc /\ pc = "done"
    BY <1>5 DEF WriteStep, loopVars, vars
  <2>2. dests' = dests /\ next' = next
    BY <1>5 DEF WriteStep, Out!StartWriting, Out!Task, Out!CreateDirectories,
      Out!CreateDirectoriesThrows, Out!Open, Out!OpenFails, Out!WriteCommand,
      Out!LoseCommand, Out!Close, Out!Return, Out!Rethrow
  <2>3. QED
    BY <2>1, <2>2 DEF LoopInv
<1>6. CASE UNCHANGED splitVars
  <2>1. /\ dests' = dests /\ database' = database /\ next' = next /\ phase' = phase
        /\ UNCHANGED <<command, pc, prefix>>
    BY <1>6 DEF splitVars, loopVars, vars, outputVars
  <2>2. QED
    BY <2>1 DEF LoopInv, InBody
<1>7. QED
  BY <1>1, <1>2, <1>3, <1>4, <1>5, <1>6 DEF SplitNext

LEMMA StepImplements ==
  ASSUME DoSplitAssumption, LoopInv, [SplitNext]_splitVars
  PROVE  [Out!Next]_Out!vars
<1>1. CASE NextCommand \/ RewriteStep \/ UNCHANGED splitVars
  BY <1>1 DEF NextCommand, RewriteStep, splitVars, outputVars, Out!vars
<1>2. CASE PushCommand
  <2>1. pc = "push" /\ InBody
    BY <1>2 DEF PushCommand, Push, LoopInv
  <2>2. next \in 1..N
    BY <2>1 DEF InBody, LoopInv, DoSplitAssumption
  <2>3. key' = dests[next]
    BY <1>2, <2>1, <2>2 DEF PushCommand, Push, InBody, LoopInv, FoldersOf
  <2>4. Out!Group
    BY <1>2, <2>1, <2>3 DEF PushCommand, InBody, Out!Group
  <2>5. QED
    BY <2>4 DEF Out!Next
<1>3. CASE CommandKills
  <2>1. pc \in {"prefix", "arguments"} /\ phase' \in {"aborted", "crashed"}
    BY <1>3 DEF CommandKills, NoFile, ExistsThrows, AtArgument
  <2>2. InBody
    BY <2>1 DEF LoopInv
  <2>3. Out!GroupDies
    BY <1>3, <2>1, <2>2 DEF CommandKills, InBody, Out!GroupDies, DoSplitAssumption
  <2>4. QED
    BY <2>3 DEF Out!Next
<1>4. CASE WriteStep
  BY <1>4 DEF WriteStep, Out!Next
<1>5. QED
  BY <1>1, <1>2, <1>3, <1>4 DEF SplitNext

(***************************************************************************)
(* Loop and tasks implement SplitCdb, for any projects and any databases:  *)
(* each command is pushed once, in the order of the database, to the array *)
(* of the folder that its own path determines, whatever the body of the    *)
(* loop rewrites before that.  It is the safety half of                    *)
(* ImplementsSplitCdb.                                                     *)
(***************************************************************************)
THEOREM LoopImplementsSplitCdb == SplitSpec => Out!Spec
<1>1. SplitInit => Out!Init /\ LoopInv
  BY InitLoopInv DEF SplitInit
<1>2. LoopInv /\ [SplitNext]_splitVars => LoopInv'
  BY NextLoopInv
<1>3. LoopInv /\ [SplitNext]_splitVars => [Out!Next]_Out!vars
  BY StepImplements, DoSplitAssumption
<1>4. QED
  BY <1>1, <1>2, <1>3, PTL DEF SplitSpec, Out!Spec

(***************************************************************************)
(* What the files hold.  SplitCdbProofs' lemmas on the steps of the tasks  *)
(* are used here with the keys and directories of the projects.            *)
(***************************************************************************)
Tasks == INSTANCE SplitCdbProofs WITH Key <- Keys, Dir <- Dirs, At <- EntryOf

LEMMA TasksAssumption == Tasks!SplitCdbAssumption
<1>1. EntryOf \in [Keys -> Dirs]
  <2> DEFINE D == {Entry(k) : k \in Keys}
  <2>1. [k \in Keys |-> Entry(k)] \in [Keys -> D]
    OBVIOUS
  <2>2. QED
    BY <2>1 DEF EntryOf, Dirs
<1>2. QED
  BY <1>1, DoSplitAssumption DEF Tasks!SplitCdbAssumption, DoSplitAssumption

\* The two instances of SplitCdb, Out and the one below Tasks, are the same.
LEMMA SameStep ==
  ASSUME [Out!Next]_Out!vars
  PROVE  [Tasks!Next]_Tasks!vars
<1>1. ASSUME NEW k \in Keys, Out!Task(k)
      PROVE  Tasks!Task(k)
  <2>1. CASE Out!CreateDirectories(k) \/ Out!CreateDirectoriesThrows(k)
    BY <2>1 DEF Tasks!Task, Out!CreateDirectories, Out!CreateDirectoriesThrows, Out!Starts,
      Out!Mapped, Out!Running, Out!Cardinality, Tasks!Cardinality, Tasks!CreateDirectories, Tasks!CreateDirectoriesThrows,
      Tasks!Starts, Tasks!Mapped, Tasks!Running
  <2>2. CASE Out!Open(k) \/ Out!OpenFails(k) \/ Out!Close(k)
    BY <2>2 DEF Tasks!Task, Out!Open, Out!OpenFails, Out!Close, Tasks!Open, Tasks!OpenFails,
      Tasks!Close
  <2>3. CASE Out!WriteCommand(k)
    BY <2>3 DEF Tasks!Task, Out!WriteCommand, Out!Accepts, Out!Written, Out!Hole,
      Tasks!WriteCommand, Tasks!Accepts, Tasks!Written, Tasks!Hole
  <2>4. CASE Out!LoseCommand(k)
    BY <2>4 DEF Tasks!Task, Out!LoseCommand, Out!Accepts, Tasks!LoseCommand, Tasks!Accepts
  <2>5. QED
    BY <1>1, <2>1, <2>2, <2>3, <2>4 DEF Out!Task
<1>2. CASE Out!Group \/ Out!GroupDies \/ Out!StartWriting
  BY <1>2 DEF Tasks!Next, Out!Group, Out!GroupDies, Out!StartWriting, Tasks!Group,
    Tasks!GroupDies, Tasks!StartWriting
<1>3. CASE Out!Return \/ Out!Rethrow
  BY <1>3 DEF Tasks!Next, Out!Return, Out!Rethrow, Out!Mapped, Out!Running, Tasks!Return,
    Tasks!Rethrow, Tasks!Mapped, Tasks!Running
<1>4. CASE UNCHANGED Out!vars
  BY <1>4 DEF Out!vars, Tasks!vars
<1>5. QED
  BY <1>1, <1>2, <1>3, <1>4 DEF Out!Next, Tasks!Next

\* A command that the loop has left behind had a path.
FilesRead == \A c \in 1..(next - 1) : "file" \in DOMAIN database[c]

OutputInv ==
  /\ LoopInv /\ FilesRead
  /\ Tasks!IInv
  /\ Tasks!NoAlias => Tasks!TasksDoNotMix

LEMMA NextFilesRead ==
  ASSUME LoopInv, FilesRead, [SplitNext]_splitVars
  PROVE  FilesRead'
<1>1. CASE PushCommand
  <2>1. /\ database' = database /\ next' = next + 1 /\ next \in Nat
        /\ "file" \in DOMAIN database[next]
    BY <1>1 DEF PushCommand, Push, LoopInv, InBody
  <2>2. \A c \in 1..(next' - 1) : c = next \/ c \in 1..(next - 1)
    BY <2>1
  <2>3. QED
    BY <2>1, <2>2 DEF FilesRead
<1>2. CASE ~PushCommand
  <2>1. database' = database /\ next' = next
    BY <1>2 DEF SplitNext, NextCommand, RewriteStep, CommandKills, WriteStep, outputVars,
      loopVars, splitVars, Out!StartWriting, Out!Task, Out!CreateDirectories,
      Out!CreateDirectoriesThrows, Out!Open, Out!OpenFails, Out!WriteCommand,
      Out!LoseCommand, Out!Close, Out!Return, Out!Rethrow
  <2>2. QED
    BY <2>1 DEF FilesRead
<1>3. QED
  BY <1>1, <1>2

LEMMA InitOutputInv ==
  ASSUME SplitInit
  PROVE  OutputInv
<1>1. LoopInv
  BY InitLoopInv
<1>2. next = 1
  BY DEF SplitInit, Out!Init
<1>3. Tasks!Init
  BY DEF SplitInit, Out!Init, Out!Command, Tasks!Init, Tasks!Command
<1>4. Tasks!IInv /\ Tasks!TasksDoNotMix
  BY <1>3, TasksAssumption, Tasks!InitIInv
<1>5. QED
  BY <1>1, <1>2, <1>4 DEF OutputInv, FilesRead

LEMMA NextOutputInv ==
  ASSUME OutputInv, [SplitNext]_splitVars
  PROVE  OutputInv'
<1>1. LoopInv' /\ FilesRead'
  BY NextLoopInv, NextFilesRead DEF OutputInv
<1>2. [Tasks!Next]_Tasks!vars
  BY StepImplements, SameStep, DoSplitAssumption DEF OutputInv
<1>3. Tasks!IInv'
  BY <1>2, TasksAssumption, Tasks!NextIInv DEF OutputInv
<1>4. ASSUME Tasks!NoAlias
      PROVE  Tasks!TasksDoNotMix'
  BY <1>2, <1>4, TasksAssumption, Tasks!NextDoesNotMix DEF OutputInv
<1>5. Tasks!NoAlias' = Tasks!NoAlias
  BY DEF Tasks!NoAlias
<1>6. QED
  BY <1>1, <1>3, <1>4, <1>5 DEF OutputInv

LEMMA FoldersHold ==
  ASSUME OutputInv
  PROVE  FoldersComplete
<1>1. SUFFICES ASSUME phase = "finished", lost = {}, Out!NoAlias, NEW c \in 1..N
               PROVE  /\ "file" \in DOMAIN database[c]
                      /\ LET k == Slash(Dest, PrefixOf(database[c]))
                             f == files[Entry(k)]
                         IN  /\ ToSet(f) = {d \in 1..N : Slash(Dest, PrefixOf(database[d])) = k}
                             /\ \A i, j \in DOMAIN f : i < j => f[i] < f[j]
  BY DEF FoldersComplete
<1>2. Tasks!IInv /\ Tasks!TasksDoNotMix
  BY <1>1 DEF OutputInv, Out!NoAlias, Tasks!NoAlias
<1>3. next = N + 1
  BY <1>1, <1>2 DEF Tasks!IInv, Tasks!PhasesInOrder
<1>4. \A d \in 1..N : "file" \in DOMAIN database[d]
  BY <1>3, DoSplitAssumption DEF OutputInv, FilesRead, DoSplitAssumption
<1>5. \A d \in 1..N : dests[d] = Slash(Dest, PrefixOf(database[d]))
  BY <1>4 DEF OutputInv, LoopInv, FoldersOf
<1> DEFINE k == dests[c]
<1>6. k \in Keys
  BY <1>2 DEF Tasks!IInv, Tasks!TypeOK, Tasks!Command
<1> HIDE DEF k
<1>7. /\ ToSet(groups[k]) = {d \in 1..N : dests[d] = k}
      /\ k \in Tasks!Mapped <=> \E d \in 1..N : dests[d] = k
  <2>1. phase \in {"writing", "finished"} /\ Tasks!SplitCdbAssumption
    BY <1>1, TasksAssumption
  <2>2. /\ Tasks!ToSet(groups[k]) = {d \in Tasks!Command : dests[d] = k}
        /\ k \in Tasks!Mapped <=> \E d \in Tasks!Command : dests[d] = k
    BY <2>1, <1>2, <1>6, Tasks!GroupsAreFull
  <2>3. QED
    BY <2>2 DEF Tasks!Command, Tasks!ToSet, ToSet
<1>8. k \in Tasks!Mapped
  BY <1>7 DEF k
<1>9. task[k] = "closed" /\ k \notin lost
  BY <1>1, <1>2, <1>8 DEF Tasks!IInv, Tasks!PhasesInOrder
<1>10. files[EntryOf[k]] = groups[k]
  BY <1>2, <1>6, <1>9, TasksAssumption, Tasks!ClosedFile DEF Tasks!SplitCdbAssumption
<1>11. files[Entry(k)] = groups[k]
  BY <1>6, <1>10 DEF EntryOf
<1>12. \A i, j \in DOMAIN groups[k] : i < j => groups[k][i] < groups[k][j]
  BY <1>2, <1>6 DEF Tasks!IInv, Tasks!GroupsInOrder
<1>13. k = Slash(Dest, PrefixOf(database[c]))
  BY <1>5 DEF k
<1>14. ToSet(groups[k]) = {d \in 1..N : Slash(Dest, PrefixOf(database[d])) = k}
  BY <1>5, <1>7
<1>15. QED
  BY <1>4, <1>11, <1>12, <1>13, <1>14

\* For any database, projects, threads and faults: a run that finishes and
\* lost no write has put every command into the file of the folder that its
\* path determines, with the others of that folder, in their order.
THEOREM DatabaseIsOutput == SplitSpec => []FoldersComplete
<1>1. SplitInit => OutputInv
  BY InitOutputInv
<1>2. OutputInv /\ [SplitNext]_splitVars => OutputInv'
  BY NextOutputInv
<1>3. OutputInv => FoldersComplete
  BY FoldersHold
<1>4. QED
  BY <1>1, <1>2, <1>3, PTL DEF SplitSpec

LEMMA SpecOfTasks == SplitSpec => Tasks!Spec
<1>1. SplitInit => Tasks!Init /\ LoopInv
  BY InitLoopInv DEF SplitInit, Out!Init, Out!Command, Tasks!Init, Tasks!Command
<1>2. LoopInv /\ [SplitNext]_splitVars => LoopInv' /\ [Tasks!Next]_Tasks!vars
  BY NextLoopInv, StepImplements, SameStep, DoSplitAssumption
<1>3. QED
  BY <1>1, <1>2, PTL DEF SplitSpec, Tasks!Spec

\* What SplitCdb's loop and tasks guarantee holds of this loop, for any
\* databases and projects: the groups are in order, and no file is torn if no
\* two folders are one directory (commands.cpp:246-325).
THEOREM LoopAndTasksCorrect ==
  SplitSpec => []Out!GroupsInOrder /\ (Out!NoAlias => []Out!NoTornFile)
<1>1. Tasks!Spec => []Tasks!GroupsInOrder
  BY TasksAssumption, Tasks!GroupsCorrect DEF Tasks!SplitCdbAssumption
<1>2. ASSUME Tasks!NoAlias
      PROVE  Tasks!Spec => []Tasks!NoTornFile
  BY <1>2, TasksAssumption, Tasks!FilesNotTorn DEF Tasks!SplitCdbAssumption
<1>3. Tasks!GroupsInOrder => Out!GroupsInOrder
  BY DEF Tasks!GroupsInOrder, Out!GroupsInOrder, Tasks!ToSet, Out!ToSet
<1>4. Tasks!NoTornFile => Out!NoTornFile
  BY DEF Tasks!NoTornFile, Out!NoTornFile, Tasks!ToSet, Out!ToSet, Tasks!IsPrefix, Out!IsPrefix
<1>5. Out!NoAlias => Tasks!NoAlias
  BY DEF Out!NoAlias, Tasks!NoAlias
<1>6. CASE Out!NoAlias
  <2>1. Tasks!Spec => []Tasks!NoTornFile
    BY <1>2, <1>5, <1>6
  <2>2. SplitSpec => []Out!GroupsInOrder /\ []Out!NoTornFile
    BY <1>1, <1>3, <1>4, <2>1, SpecOfTasks, PTL
  <2>3. QED
    BY <1>6, <2>2
<1>7. CASE ~Out!NoAlias
  <2>1. SplitSpec => []Out!GroupsInOrder
    BY <1>1, <1>3, SpecOfTasks, PTL
  <2>2. QED
    BY <1>7, <2>1
<1>8. QED
  BY <1>6, <1>7

(***************************************************************************)
(* Types.  "arguments" stays an array of as many elements, which is what   *)
(* the loop over it relies on while it changes them.                       *)
(***************************************************************************)
IsArray(a) == Len(a) \in Nat /\ DOMAIN a = 1..Len(a)

BodyTypes ==
  /\ database \in Databases
  /\ DOMAIN command = DOMAIN original
  /\ Has("arguments") => /\ IsArray(command.arguments)
                         /\ Len(command.arguments) = Len(original.arguments)
  /\ compiler \in BOOLEAN
  /\ arg \in Nat \ {0}
  /\ arg <= IF Has("arguments") THEN Len(command.arguments) + 1 ELSE 1
  /\ pc \in {"prefix", "directory", "file", "arguments", "push", "done", "died"}
  /\ pc = "arguments" => Has("arguments")

Moved ==
  /\ rewritten \in Seq(Range(rewritten)) /\ DOMAIN rewritten = 1..(next - 1)
  /\ \A c \in DOMAIN rewritten : DOMAIN rewritten[c] = DOMAIN database[c]

LEMMA ElementReplaced ==
  ASSUME NEW a, IsArray(a), NEW i \in 1..Len(a), NEW s, NEW b, b = [a EXCEPT ![i] = s]
  PROVE  IsArray(b) /\ Len(b) = Len(a)
<1>1. DOMAIN b = 1..Len(a) /\ Len(a) \in Nat
  BY DEF IsArray
<1>2. Len(b) = Len(a)
  BY <1>1
<1>3. QED
  BY <1>1, <1>2 DEF IsArray

LEMMA RewriteKeepsTypes ==
  ASSUME BodyTypes, Rewrite, database' = database
  PROVE  BodyTypes'
<1>1. CASE SearchPrefix \/ ArgumentsDone
  BY <1>1 DEF SearchPrefix, ArgumentsDone, BodyTypes, Has
<1>2. CASE SetDirectory
  <2>1. /\ UNCHANGED <<original, compiler, arg>> /\ pc' = "file"
        /\ DOMAIN command' = DOMAIN command
        /\ Has("arguments") => command'.arguments = command.arguments
    BY <1>2, Zenon DEF SetDirectory, Has
  <2>2. QED
    BY <2>1 DEF BodyTypes, Has
<1>3. CASE SetFile
  <2>1. /\ UNCHANGED <<original, compiler, arg>>
        /\ DOMAIN command' = DOMAIN command
        /\ Has("arguments") => command'.arguments = command.arguments
    BY <1>3, Zenon DEF SetFile, Has
  <2>2. pc' = IF Has("arguments") THEN "arguments" ELSE "push"
    BY <1>3 DEF SetFile
  <2>3. QED
    BY <2>1, <2>2 DEF BodyTypes, Has
<1>4. CASE SetCompiler \/ ReplaceInArgument \/ ResolveInclude \/ KeepArgument
  <2>1. AtArgument /\ compiler' \in BOOLEAN /\ \E s : SetArgument(s)
    BY <1>4 DEF SetCompiler, ReplaceInArgument, ResolveInclude, KeepArgument, BodyTypes
  <2>2. PICK s : SetArgument(s)
    BY <2>1
  <2>3. /\ arg' = arg + 1 /\ UNCHANGED <<original, pc>> /\ pc = "arguments"
        /\ arg <= Len(command.arguments) /\ Has("arguments")
    BY <2>1, <2>2 DEF SetArgument, AtArgument, BodyTypes
  <2>4. /\ DOMAIN command' = DOMAIN command
        /\ command'.arguments = [command.arguments EXCEPT ![arg] = s]
    BY <2>2, <2>3, Zenon DEF SetArgument, Has
  <2>5. IsArray(command'.arguments) /\ Len(command'.arguments) = Len(command.arguments)
    <3>1. IsArray(command.arguments) /\ arg \in 1..Len(command.arguments)
      BY <2>3 DEF BodyTypes, IsArray
    <3>2. PICK a, b : a = command.arguments /\ b = command'.arguments
      OBVIOUS
    <3>3. IsArray(a) /\ arg \in 1..Len(a) /\ b = [a EXCEPT ![arg] = s]
      BY <3>1, <3>2, <2>4
    <3>4. IsArray(b) /\ Len(b) = Len(a)
      BY <3>3, ElementReplaced
    <3>5. QED
      BY <3>2, <3>4
  <2>6. arg' \in Nat \ {0} /\ arg' <= Len(command'.arguments) + 1
    BY <2>3, <2>5 DEF BodyTypes, IsArray
  <2>7. QED
    BY <2>1, <2>3, <2>4, <2>5, <2>6 DEF BodyTypes, Has
<1>5. QED
  BY <1>1, <1>2, <1>3, <1>4 DEF Rewrite

LEMMA NextTypes ==
  ASSUME OutputInv, BodyTypes, Moved, [SplitNext]_splitVars
  PROVE  BodyTypes' /\ Moved'
<1>1. CASE NextCommand
  <2>1. /\ UNCHANGED <<database, rewritten, next>> /\ next \in 1..N
        /\ command' = database[next] /\ original' = database[next]
        /\ compiler' = TRUE /\ arg' = 1 /\ pc' = "prefix"
    BY <1>1, DoSplitAssumption DEF NextCommand, outputVars, OutputInv, LoopInv, DoSplitAssumption
  <2>2. ASSUME "arguments" \in DOMAIN database[next]
        PROVE  IsArray(database[next].arguments)
    <3>1. database[next].arguments \in Seq(Range(database[next].arguments))
      BY <2>1, <2>2, DoSplitAssumption DEF BodyTypes, DoSplitAssumption
    <3>2. QED
      BY <3>1 DEF IsArray
  <2>3. BodyTypes'
    BY <2>1, <2>2 DEF BodyTypes, Has, IsArray
  <2>4. Moved'
    BY <2>1 DEF Moved
  <2>5. QED
    BY <2>3, <2>4
<1>2. CASE RewriteStep
  <2>1. UNCHANGED <<database, rewritten, next>> /\ Rewrite
    BY <1>2 DEF RewriteStep, outputVars
  <2>2. QED
    BY <2>1, RewriteKeepsTypes DEF Moved
<1>3. CASE PushCommand
  <2>1. /\ UNCHANGED <<database, original, command, compiler, arg>> /\ pc' = "done"
        /\ rewritten' = Append(rewritten, command) /\ next' = next + 1
        /\ next \in Nat \ {0} /\ DOMAIN command = DOMAIN database[next]
    BY <1>3 DEF PushCommand, Push, OutputInv, LoopInv, InBody
  <2>2. BodyTypes'
    BY <2>1 DEF BodyTypes, Has
  <2>3. Len(rewritten) = next - 1 /\ rewritten \in Seq(Range(rewritten))
    BY <2>1 DEF Moved
  <2>4. PICK S : S = Range(rewritten) \cup {command}
    OBVIOUS
  <2>5. rewritten \in Seq(S) /\ command \in S
    BY <2>3, <2>4
  <2>6. /\ rewritten' \in Seq(S) /\ Len(rewritten') = next
        /\ rewritten'[next] = command /\ \A c \in 1..(next - 1) : rewritten'[c] = rewritten[c]
    BY <2>1, <2>3, <2>5
  <2>7. DOMAIN rewritten' = 1..next /\ rewritten' \in Seq(Range(rewritten'))
    BY <2>1, <2>6 DEF Range
  <2>8. \A c \in 1..next : c = next \/ c \in 1..(next - 1)
    BY <2>1
  <2>9. \A c \in 1..next : DOMAIN rewritten'[c] = DOMAIN database[c]
    BY <2>1, <2>6, <2>8 DEF Moved
  <2>10. Moved'
    BY <2>1, <2>7, <2>9 DEF Moved
  <2>11. QED
    BY <2>2, <2>10
<1>4. CASE CommandKills
  BY <1>4 DEF CommandKills, NoFile, ExistsThrows, BodyTypes, Moved, Has
<1>5. CASE WriteStep \/ UNCHANGED splitVars
  <2>1. UNCHANGED <<database, rewritten, next, original, command, compiler, arg, pc>>
    BY <1>5 DEF WriteStep, splitVars, loopVars, vars, outputVars, Out!StartWriting, Out!Task,
      Out!CreateDirectories, Out!CreateDirectoriesThrows, Out!Open, Out!OpenFails,
      Out!WriteCommand, Out!LoseCommand, Out!Close, Out!Return, Out!Rethrow
  <2>2. QED
    BY <2>1 DEF BodyTypes, Moved, Has
<1>6. QED
  BY <1>1, <1>2, <1>3, <1>4, <1>5 DEF SplitNext

LEMMA InitTypes ==
  ASSUME SplitInit
  PROVE  BodyTypes /\ Moved
<1>1. DOMAIN command = {"file"} /\ DOMAIN original = {"file"}
  BY DEF SplitInit, NoCommand
<1>2. BodyTypes
  BY <1>1 DEF SplitInit, BodyTypes, Has
<1>3. rewritten = <<>> /\ next = 1
  BY DEF SplitInit, Out!Init
<1>4. Moved
  BY <1>3 DEF Moved
<1>5. QED
  BY <1>2, <1>4

LEMMA TypesHold ==
  ASSUME OutputInv, BodyTypes, Moved
  PROVE  SplitTypeOK
<1>1. TypeOK
  BY DEF BodyTypes, TypeOK, Has, IsArray
<1>2. Out!TypeOK
  BY DEF OutputInv, Tasks!IInv, Tasks!TypeOK, Out!TypeOK, Tasks!Command, Out!Command,
    Tasks!TaskState, Out!TaskState, Tasks!Ended, Out!Ended, Tasks!Hole, Out!Hole
<1>3. QED
  BY <1>1, <1>2 DEF Moved, SplitTypeOK

\* The type invariant, for any databases: the body of the loop adds and
\* removes no member and no argument.
THEOREM TypeCorrect == SplitSpec => []SplitTypeOK
<1>1. SplitInit => OutputInv /\ BodyTypes /\ Moved
  BY InitOutputInv, InitTypes
<1>2. OutputInv /\ BodyTypes /\ Moved /\ [SplitNext]_splitVars
      => OutputInv' /\ BodyTypes' /\ Moved'
  BY NextOutputInv, NextTypes
<1>3. OutputInv /\ BodyTypes /\ Moved => SplitTypeOK
  BY TypesHold
<1>4. QED
  BY <1>1, <1>2, <1>3, PTL DEF SplitSpec

(***************************************************************************)
(* The tokens of all strings, and the prefix of a command.                 *)
(***************************************************************************)
CommandChars(o) ==
  Range(o.file) \cup UNION {Range(o.arguments[i]) : i \in DOMAIN o.arguments}

Chars ==
  {"/", ".", "-I"} \cup Range(Base) \cup Range(Dest)
  \cup (UNION {Range(p) : p \in Projects})
  \cup (UNION {UNION {CommandChars(d[c]) : c \in 1..N} : d \in Databases})

LEMMA TextIn ==
  ASSUME NEW s, IsText(s), NEW C, Range(s) \subseteq C
  PROVE  s \in Seq(C)
<1> DEFINE R == Range(s)
<1>1. s \in Seq(R)
  BY DEF IsText
<1> HIDE DEF R
<1>2. R \subseteq C
  BY DEF R
<1>3. QED
  BY <1>1, <1>2

LEMMA CommandIn ==
  ASSUME NEW d \in Databases, NEW c \in 1..N
  PROVE  CommandChars(d[c]) \subseteq Chars
<1>1. CommandChars(d[c]) \subseteq UNION {CommandChars(d[x]) : x \in 1..N}
  OBVIOUS
<1>2. \A z : z = UNION {CommandChars(d[x]) : x \in 1..N} => z \subseteq Chars
  BY DEF Chars
<1>3. QED
  BY <1>1, <1>2

LEMMA TextsTyped ==
  ASSUME DoSplitAssumption
  PROVE  /\ {"/", ".", "-I"} \subseteq Chars /\ Base \in Seq(Chars) /\ Dest \in Seq(Chars)
         /\ \A p \in Projects : TurnBackslashes(p) \in Seq(Chars)
         /\ \A d \in Databases : \A c \in 1..N :
              /\ "file" \in DOMAIN d[c] => d[c].file \in Seq(Chars)
              /\ "arguments" \in DOMAIN d[c] =>
                   \A i \in DOMAIN d[c].arguments : d[c].arguments[i] \in Seq(Chars)
<1>1. {"/", ".", "-I"} \subseteq Chars
  BY DEF Chars
<1>2. Base \in Seq(Chars) /\ Dest \in Seq(Chars)
  <2>1. Range(Base) \subseteq Chars /\ Range(Dest) \subseteq Chars
    BY DEF Chars
  <2>2. QED
    BY <2>1, TextIn DEF DoSplitAssumption
<1>3. ASSUME NEW p \in Projects
      PROVE  TurnBackslashes(p) \in Seq(Chars)
  <2>1. Range(p) \subseteq Chars
    BY DEF Chars
  <2>2. p \in Seq(Chars)
    BY <2>1, TextIn DEF DoSplitAssumption
  <2>3. "/" \in Chars
    BY <1>1
  <2>4. DOMAIN p = 1..Len(p) /\ Len(p) \in Nat /\ \A i \in 1..Len(p) : p[i] \in Chars
    BY <2>2
  <2>5. QED
    BY <2>3, <2>4 DEF TurnBackslashes
<1>4. ASSUME NEW d \in Databases, NEW c \in 1..N, "file" \in DOMAIN d[c]
      PROVE  d[c].file \in Seq(Chars)
  <2>1. Range(d[c].file) \subseteq Chars
    BY CommandIn DEF CommandChars
  <2>2. IsText(d[c].file)
    BY <1>4 DEF DoSplitAssumption
  <2>3. QED
    BY <2>1, <2>2, TextIn
<1>5. ASSUME NEW d \in Databases, NEW c \in 1..N, "arguments" \in DOMAIN d[c],
             NEW i \in DOMAIN d[c].arguments
      PROVE  d[c].arguments[i] \in Seq(Chars)
  <2>1. Range(d[c].arguments[i]) \subseteq CommandChars(d[c])
    BY DEF CommandChars
  <2>4. Range(d[c].arguments[i]) \subseteq Chars
    BY <2>1, CommandIn
  <2>2. IsText(d[c].arguments[i])
    BY <1>5 DEF DoSplitAssumption
  <2>3. QED
    BY <2>4, <2>2, TextIn
<1>6. QED
  BY <1>1, <1>2, <1>3, <1>4, <1>5

LEMMA LongestIs ==
  ASSUME NEW C, "/" \in C, NEW f \in Seq(C)
  PROVE  /\ Longest(f) \in Prefixes(Segments(f)) \cap Nodes
         /\ \A o \in Prefixes(Segments(f)) \cap Nodes : Len(o) <= Len(Longest(f))
<1> DEFINE S == Prefixes(Segments(f)) \cap Nodes
           T == {Len(Segments(f)) - Len(o) : o \in S}
<1>1. Segments(f) \in Seq(Seq(C))
  BY PartsType
<1>2. \A o \in S : Len(o) \in Nat /\ Len(o) <= Len(Segments(f))
  <2>1. \A o \in S : o \in Seq(Seq(C)) /\ Len(o) <= Len(Segments(f))
    BY <1>1, PrefixOfSeq
  <2> HIDE DEF S
  <2>2. QED
    BY <2>1
<1>3. <<>> \in S
  <2>1. SubSeq(Segments(f), 1, 0) = <<>> /\ 0 \in 0..Len(Segments(f))
    BY <1>1
  <2>2. QED
    BY <2>1 DEF Prefixes, Nodes
<1> HIDE DEF S
<1>4. Len(Segments(f)) \in Nat
  BY <1>1
<1>5. T \subseteq Nat /\ Len(Segments(f)) - Len(<<>>) \in T
  BY <1>2, <1>3, <1>4
<1>6. PICK t \in T : \A z \in T : t <= z
  <2> HIDE DEF T
  <2>1. QED
    BY <1>5, LeastNat
<1>7. PICK q \in S : t = Len(Segments(f)) - Len(q)
  BY <1>6
<1>8. \A o \in S : Len(o) <= Len(q)
  <2>1. SUFFICES ASSUME NEW o \in S
                 PROVE  Len(o) <= Len(q)
    OBVIOUS
  <2>2. t <= Len(Segments(f)) - Len(o)
    BY <1>6
  <2>3. QED
    BY <1>2, <1>4, <1>7, <2>2
<1>9. \E z \in S : \A o \in S : Len(o) <= Len(z)
  BY <1>8
<1>10. Longest(f) = CHOOSE z \in S : \A o \in S : Len(o) <= Len(z)
  BY DEF Longest, S
<1>11. Longest(f) \in S /\ \A o \in S : Len(o) <= Len(Longest(f))
  BY <1>9, <1>10
<1>12. QED
  BY <1>11 DEF S

LEMMA LongestPath ==
  ASSUME NEW C, "/" \in C, NEW f \in Seq(C)
  PROVE  IsPath(C, Longest(f)) /\ Joined(Longest(f)) \in Seq(C)
<1>1. IsPath(C, Segments(f))
  BY SegmentsPath
<1>2. IsPath(C, Longest(f))
  BY <1>1, LongestIs, PrefixPath
<1>3. JoinedFacts(C, Longest(f))
  BY <1>2, JoinedPath
<1>4. QED
  BY <1>2, <1>3 DEF JoinedFacts

(***************************************************************************)
(* The two replacements, for one command.                                  *)
(***************************************************************************)

LEMMA FileStays ==
  ASSUME NEW C, {"/", "."} \subseteq C, Base \in Seq(C), NEW f \in Seq(C),
         NEW q \in Prefixes(Segments(f)), NEW p \in Seq(C), p = Joined(q), Leads(f, p)
  PROVE  Entry(Slash(Slash(Base, p), Replaced(f, p, <<".">>, -1))) = Before(f)
<1>0. "/" \in C /\ "." \in C /\ <<".">> \in Seq(C)
  OBVIOUS
<1>1. CASE p = <<>>
  <2>1. Replaced(f, p, <<".">>, -1) = f
    BY <1>0, <1>1, ReplacedNone
  <2>2. Entry(Slash(Slash(Base, <<>>), f)) = Entry(Slash(Base, f))
    BY <1>0, NoPrefixLemma
  <2>3. QED
    BY <1>1, <2>1, <2>2 DEF Before
<1>2. CASE p # <<>>
  <2>1. Occurrences(f, p) = {1} /\ p # <<"/">> /\ 1 \in Occurrences(f, p)
    BY <1>2 DEF Leads
  <2>2. PICK a \in Seq(C) : PartsAt(C, f, p, <<".">>, 1, a)
    BY <1>0, <1>2, <2>1, OneOccurrence
  <2>3. a = <<>>
    BY <2>2 DEF PartsAt, Ahead
  <2>4. PICK r \in Seq(C) : /\ f = a \o (p \o r)
                            /\ Replaced(f, p, <<".">>, -1) = a \o (<<".">> \o r)
    BY <2>2 DEF PartsAt
  <2>5. <<>> \o (p \o r) = p \o r /\ <<>> \o (<<".">> \o r) = <<".">> \o r
    BY <1>0
  <2>7. f = p \o r
    BY <2>3, <2>4, <2>5
  <2>8. Replaced(f, p, <<".">>, -1) = <<".">> \o r
    BY <2>3, <2>4, <2>5
  <2>9. r = <<>> \/ r[1] = "/"
    <3>1. f = Joined(q) \o r /\ Joined(q) # <<>> /\ Joined(q) # <<"/">>
      BY <1>2, <2>1, <2>7
    <3>2. QED
      BY <1>0, <3>1, Boundary
  <2>10. Entry(Slash(Slash(Base, p), <<".">> \o r)) = Entry(Slash(Base, p \o r))
    BY <1>0, <1>2, <2>9, RelocateLemma
  <2>11. QED
    BY <2>7, <2>8, <2>10 DEF Before
<1>3. QED
  BY <1>1, <1>2

(***************************************************************************)
(* What the body of the loop makes of the command o.                       *)
(***************************************************************************)
NewDirectory(o) == Slash(Base, PrefixOf(o))

NewFile(o) == Replaced(o.file, PrefixOf(o), <<".">>, -1)

NamesPrefix(s, p) == p = <<>> \/ Occurrences(s, p) # {}

NewArgument(o, i) ==
  IF i = 1 THEN Slash(Base, o.arguments[1])
  ELSE IF NamesPrefix(o.arguments[i], PrefixOf(o))
  THEN Replaced(o.arguments[i], PrefixOf(o), <<".">>, -1)
  ELSE IF /\ IsInclude(o.arguments[i])
          /\ Entry(Slash(Base, Tail(o.arguments[i]))) \in Existing
  THEN <<"-I">> \o Slash(Base, Tail(o.arguments[i]))
  ELSE o.arguments[i]

\* n is o with the members of D rewritten, and the arguments of A.
Partly(o, n, D, A) ==
  /\ "directory" \in DOMAIN o /\ "directory" \in D => n.directory = NewDirectory(o)
  /\ n.file = IF "file" \in D THEN NewFile(o) ELSE o.file
  /\ "arguments" \in DOMAIN o =>
       /\ DOMAIN n.arguments = DOMAIN o.arguments
       /\ \A i \in DOMAIN o.arguments :
            n.arguments[i] = IF i \in A THEN NewArgument(o, i) ELSE o.arguments[i]

RewrittenTo(o, n) ==
  /\ "file" \in DOMAIN o
  /\ "directory" \in DOMAIN o => n.directory = NewDirectory(o)
  /\ n.file = NewFile(o)
  /\ "arguments" \in DOMAIN o =>
       \A i \in DOMAIN o.arguments : n.arguments[i] = NewArgument(o, i)

BodyRewrites ==
  LET o == database[next] IN
  /\ pc \in {"prefix", "directory", "file"} => compiler = TRUE /\ arg = 1
  /\ pc = "directory" => Partly(o, command, {}, {})
  /\ pc = "file" => Partly(o, command, {"directory"}, {})
  /\ pc = "arguments" => /\ Partly(o, command, {"directory", "file"}, 1..(arg - 1))
                         /\ compiler = (arg = 1)
  /\ pc = "push" => RewrittenTo(o, command)

RewrittenInv ==
  /\ BodyRewrites
  /\ \A c \in DOMAIN rewritten : RewrittenTo(database[c], rewritten[c])

LEMMA PrefixFound ==
  ASSUME InBody, BodyRewrites, SearchPrefix, NEW o, o = database[next]
  PROVE  Partly(o, command', {}, {}) /\ pc' = "directory" /\ compiler' = TRUE /\ arg' = 1
<1>1. command = o /\ command' = command /\ pc' = "directory"
  BY DEF SearchPrefix, InBody
<1>2. compiler = TRUE /\ arg = 1 /\ compiler' = compiler /\ arg' = arg
  BY DEF SearchPrefix, BodyRewrites
<1>3. QED
  BY <1>1, <1>2 DEF Partly

LEMMA DirectorySet ==
  ASSUME InBody, BodyRewrites, SetDirectory, NEW o, o = database[next]
  PROVE  /\ Partly(o, command', {"directory"}, {})
         /\ pc' = "file" /\ compiler' = TRUE /\ arg' = 1
<1>1. Partly(o, command, {}, {}) /\ pc' = "file" /\ DOMAIN command = DOMAIN o
      /\ prefix = PrefixOf(o) /\ "file" \in DOMAIN o
  BY DEF SetDirectory, InBody, BodyRewrites
<1>2. compiler = TRUE /\ arg = 1 /\ compiler' = compiler /\ arg' = arg
  BY DEF SetDirectory, BodyRewrites
<1>3. /\ "directory" \in DOMAIN o => command'.directory = NewDirectory(o)
      /\ command'.file = command.file
      /\ "arguments" \in DOMAIN o => command'.arguments = command.arguments
  BY <1>1, Zenon DEF SetDirectory, Has, NewDirectory
<1>4. QED
  BY <1>1, <1>2, <1>3 DEF Partly

LEMMA FileSet ==
  ASSUME InBody, BodyRewrites, SetFile, NEW o, o = database[next]
  PROVE  /\ Partly(o, command', {"directory", "file"}, {})
         /\ compiler' = TRUE /\ arg' = 1
         /\ pc' = IF "arguments" \in DOMAIN o THEN "arguments" ELSE "push"
<1>1. Partly(o, command, {"directory"}, {}) /\ DOMAIN command = DOMAIN o
      /\ prefix = PrefixOf(o) /\ "file" \in DOMAIN o
  BY DEF SetFile, InBody, BodyRewrites
<1>2. compiler = TRUE /\ arg = 1 /\ compiler' = compiler /\ arg' = arg
  BY DEF SetFile, BodyRewrites
<1>3. command.file = o.file
  BY <1>1 DEF Partly
<1>4. command'.file = WithoutPrefix(command.file)
  BY <1>1, Zenon DEF SetFile
<1>5. command'.file = NewFile(o)
  BY <1>1, <1>3, <1>4 DEF WithoutPrefix, NewFile
<1>6. /\ "directory" \in DOMAIN o => command'.directory = command.directory
      /\ "arguments" \in DOMAIN o => command'.arguments = command.arguments
  BY <1>1, Zenon DEF SetFile
<1>7. pc' = IF "arguments" \in DOMAIN o THEN "arguments" ELSE "push"
  BY <1>1 DEF SetFile, Has
<1>8. QED
  BY <1>1, <1>2, <1>5, <1>6, <1>7 DEF Partly

\* What a step of the loop over the arguments sets its element to.
LEMMA ArgumentIs ==
  ASSUME InBody, BodyRewrites, BodyTypes, NEW o, o = database[next],
         SetCompiler \/ ReplaceInArgument \/ ResolveInclude \/ KeepArgument
  PROVE  SetArgument(NewArgument(o, arg)) /\ compiler' = FALSE
<1>1. /\ pc = "arguments" /\ AtArgument
      /\ Partly(o, command, {"directory", "file"}, 1..(arg - 1)) /\ compiler = (arg = 1)
  BY DEF SetCompiler, ReplaceInArgument, ResolveInclude, KeepArgument, AtArgument, BodyRewrites
<1>2. prefix = PrefixOf(o) /\ "arguments" \in DOMAIN o
  BY <1>1 DEF InBody, BodyTypes, Has
<1>3. arg \notin 1..(arg - 1) /\ arg \in DOMAIN o.arguments
  <2>1. DOMAIN command.arguments = DOMAIN o.arguments
    BY <1>1, <1>2 DEF Partly
  <2>2. arg \in Nat \ {0} /\ arg <= Len(command.arguments) /\ IsArray(command.arguments)
    BY <1>1 DEF BodyTypes, AtArgument
  <2>3. QED
    BY <2>1, <2>2 DEF IsArray
<1>4. Argument = o.arguments[arg]
  BY <1>1, <1>2, <1>3 DEF Partly, Argument
<1>5. CASE SetCompiler
  <2>1. arg = 1 /\ compiler' = FALSE /\ SetArgument(Slash(Base, Argument))
    BY <1>1, <1>5 DEF SetCompiler
  <2>2. NewArgument(o, arg) = Slash(Base, Argument)
    BY <1>4, <2>1 DEF NewArgument
  <2>3. QED
    BY <2>1, <2>2
<1>6. CASE ReplaceInArgument
  <2>1. /\ arg # 1 /\ compiler' = FALSE /\ SetArgument(WithoutPrefix(Argument))
        /\ Mentions(Argument)
    BY <1>1, <1>6 DEF ReplaceInArgument
  <2>2. NewArgument(o, arg) = WithoutPrefix(Argument)
    BY <1>2, <1>4, <2>1 DEF NewArgument, Mentions, NamesPrefix, WithoutPrefix
  <2>3. QED
    BY <2>1, <2>2
<1>7. CASE ResolveInclude
  <2>1. /\ arg # 1 /\ compiler' = FALSE /\ SetArgument(<<"-I">> \o NewPath)
        /\ ~Mentions(Argument) /\ IsInclude(Argument) /\ Entry(NewPath) \in Existing
    BY <1>1, <1>7 DEF ResolveInclude
  <2>2. NewArgument(o, arg) = <<"-I">> \o NewPath
    BY <1>2, <1>4, <2>1 DEF NewArgument, Mentions, NamesPrefix, NewPath
  <2>3. QED
    BY <2>1, <2>2
<1>8. CASE KeepArgument
  <2>1. /\ arg # 1 /\ compiler' = FALSE /\ SetArgument(Argument)
        /\ ~Mentions(Argument) /\ ~(IsInclude(Argument) /\ Entry(NewPath) \in Existing)
    BY <1>1, <1>8 DEF KeepArgument
  <2>2. NewArgument(o, arg) = Argument
    BY <1>2, <1>4, <2>1 DEF NewArgument, Mentions, NamesPrefix, NewPath
  <2>3. QED
    BY <2>1, <2>2
<1>9. QED
  BY <1>5, <1>6, <1>7, <1>8

LEMMA ArgumentIsSet ==
  ASSUME InBody, BodyRewrites, BodyTypes, NEW o, o = database[next],
         SetCompiler \/ ReplaceInArgument \/ ResolveInclude \/ KeepArgument
  PROVE  /\ Partly(o, command', {"directory", "file"}, 1..(arg' - 1))
         /\ compiler' = (arg' = 1) /\ pc' = "arguments"
<1>1. /\ pc = "arguments" /\ Partly(o, command, {"directory", "file"}, 1..(arg - 1))
      /\ DOMAIN command = DOMAIN o
  BY DEF SetCompiler, ReplaceInArgument, ResolveInclude, KeepArgument, AtArgument, BodyRewrites,
    InBody
<1>2. SetArgument(NewArgument(o, arg)) /\ compiler' = FALSE
  BY ArgumentIs
<1>3. "arguments" \in DOMAIN o
  BY <1>1 DEF BodyTypes, Has
<1>4. arg' = arg + 1 /\ pc' = "arguments" /\ arg \in Nat \ {0}
  BY <1>1, <1>2 DEF SetArgument, BodyTypes
<1>5. 1..(arg' - 1) = (1..(arg - 1)) \cup {arg} /\ arg' # 1
  BY <1>4
<1>6. /\ command'.arguments = [command.arguments EXCEPT ![arg] = NewArgument(o, arg)]
      /\ "directory" \in DOMAIN o => command'.directory = command.directory
      /\ "file" \in DOMAIN o => command'.file = command.file
  BY <1>1, <1>2, <1>3, Zenon DEF SetArgument
<1>7. "file" \in DOMAIN o
  BY <1>1 DEF InBody
<1>8. PICK a, b, e : a = command.arguments /\ b = command'.arguments /\ e = o.arguments
  OBVIOUS
<1>9. /\ DOMAIN a = DOMAIN e
      /\ \A i \in DOMAIN e : a[i] = IF i \in 1..(arg - 1) THEN NewArgument(o, i) ELSE e[i]
  BY <1>1, <1>3, <1>8 DEF Partly
<1>10. b = [a EXCEPT ![arg] = NewArgument(o, arg)]
  BY <1>6, <1>8
<1>11. /\ DOMAIN b = DOMAIN e
       /\ \A i \in DOMAIN e : b[i] = IF i \in 1..(arg' - 1) THEN NewArgument(o, i) ELSE e[i]
  <2> DEFINE A == 1..(arg - 1)
             B == 1..(arg' - 1)
  <2>1. B = A \cup {arg}
    BY <1>5
  <2>2. \A i \in DOMAIN e : a[i] = IF i \in A THEN NewArgument(o, i) ELSE e[i]
    BY <1>9
  <2> HIDE DEF A, B
  <2>3. \A i \in DOMAIN e : b[i] = IF i \in B THEN NewArgument(o, i) ELSE e[i]
    BY <1>9, <1>10, <2>1, <2>2
  <2>4. QED
    BY <1>9, <1>10, <2>3 DEF B
<1>12. QED
  BY <1>1, <1>2, <1>4, <1>5, <1>6, <1>7, <1>8, <1>11 DEF Partly

LEMMA AllRewritten ==
  ASSUME InBody, NEW o, o = database[next], pc # "prefix", NEW n, NEW A,
         Partly(o, n, {"directory", "file"}, A),
         "arguments" \in DOMAIN o => DOMAIN o.arguments \subseteq A
  PROVE  RewrittenTo(o, n)
<1>1. "file" \in DOMAIN o
  BY DEF InBody
<1>2. QED
  BY <1>1 DEF RewrittenTo, Partly

LEMMA RewriteKeepsBody ==
  ASSUME InBody, BodyRewrites, BodyTypes, Rewrite, UNCHANGED <<database, next>>
  PROVE  BodyRewrites'
<1>1. PICK o : o = database[next]
  OBVIOUS
<1>2. o = database'[next']
  BY <1>1
<1>3. CASE SearchPrefix
  BY <1>1, <1>2, <1>3, PrefixFound DEF BodyRewrites
<1>4. CASE SetDirectory
  BY <1>1, <1>2, <1>4, DirectorySet DEF BodyRewrites
<1>5. CASE SetFile
  <2>1. /\ Partly(o, command', {"directory", "file"}, {})
        /\ compiler' = TRUE /\ arg' = 1
        /\ pc' = IF "arguments" \in DOMAIN o THEN "arguments" ELSE "push"
    BY <1>1, <1>5, FileSet
  <2>2. 1..(arg' - 1) = {}
    BY <2>1
  <2>3. "arguments" \notin DOMAIN o => RewrittenTo(o, command')
    BY <1>1, <1>5, <2>1, AllRewritten DEF SetFile
  <2>4. QED
    BY <1>2, <2>1, <2>2, <2>3 DEF BodyRewrites
<1>6. CASE SetCompiler \/ ReplaceInArgument \/ ResolveInclude \/ KeepArgument
  BY <1>1, <1>2, <1>6, ArgumentIsSet DEF BodyRewrites
<1>7. CASE ArgumentsDone
  <2>1. /\ pc = "arguments" /\ ~AtArgument /\ pc' = "push" /\ command' = command
        /\ Partly(o, command, {"directory", "file"}, 1..(arg - 1))
    BY <1>1, <1>7 DEF ArgumentsDone, BodyRewrites
  <2>2. DOMAIN o.arguments \subseteq 1..(arg - 1)
    <3>1. "arguments" \in DOMAIN o
      BY <1>1, <2>1 DEF BodyTypes, Has, InBody
    <3>2. DOMAIN command.arguments = DOMAIN o.arguments
      BY <2>1, <3>1 DEF Partly
    <3>3. arg \in Nat \ {0} /\ ~(arg <= Len(command.arguments)) /\ IsArray(command.arguments)
      BY <2>1 DEF BodyTypes, AtArgument
    <3>4. QED
      BY <3>2, <3>3 DEF IsArray
  <2>3. RewrittenTo(o, command)
    BY <1>1, <2>1, <2>2, AllRewritten
  <2>4. QED
    BY <1>2, <2>1, <2>3 DEF BodyRewrites
<1>8. QED
  BY <1>3, <1>4, <1>5, <1>6, <1>7 DEF Rewrite

LEMMA NextRewritten ==
  ASSUME OutputInv, BodyTypes, Moved, RewrittenInv, [SplitNext]_splitVars
  PROVE  RewrittenInv'
<1>1. CASE NextCommand
  <2>1. /\ UNCHANGED <<database, rewritten, next>>
        /\ compiler' = TRUE /\ arg' = 1 /\ pc' = "prefix"
    BY <1>1 DEF NextCommand, outputVars
  <2>2. QED
    BY <2>1 DEF RewrittenInv, BodyRewrites
<1>2. CASE RewriteStep
  <2>1. UNCHANGED <<database, rewritten, next>> /\ Rewrite
    BY <1>2 DEF RewriteStep, outputVars
  <2>2. InBody
    BY <2>1, RewriteKeepsMembers DEF OutputInv, LoopInv
  <2>3. BodyRewrites'
    BY <2>1, <2>2, RewriteKeepsBody DEF RewrittenInv
  <2>4. QED
    BY <2>1, <2>3 DEF RewrittenInv
<1>3. CASE PushCommand
  <2>1. /\ database' = database /\ pc' = "done" /\ rewritten' = Append(rewritten, command)
        /\ next \in Nat \ {0} /\ RewrittenTo(database[next], command)
    BY <1>3 DEF PushCommand, Push, OutputInv, LoopInv, RewrittenInv, BodyRewrites
  <2>2. Len(rewritten) = next - 1 /\ rewritten \in Seq(Range(rewritten))
    BY <2>1 DEF Moved
  <2>3. PICK S : S = Range(rewritten) \cup {command}
    OBVIOUS
  <2>4. rewritten \in Seq(S) /\ command \in S
    BY <2>2, <2>3
  <2>5. /\ DOMAIN rewritten' = 1..next /\ rewritten'[next] = command
        /\ \A c \in 1..(next - 1) : rewritten'[c] = rewritten[c]
    BY <2>1, <2>2, <2>4
  <2>6. \A c \in 1..next : c = next \/ c \in 1..(next - 1)
    BY <2>1
  <2>7. \A c \in 1..(next - 1) : RewrittenTo(database[c], rewritten[c])
    BY DEF RewrittenInv, Moved
  <2>8. \A c \in 1..next : RewrittenTo(database[c], rewritten'[c])
    BY <2>1, <2>5, <2>6, <2>7
  <2>9. QED
    BY <2>1, <2>5, <2>8 DEF RewrittenInv, BodyRewrites
<1>4. CASE CommandKills
  <2>1. pc' = "died" /\ UNCHANGED <<database, rewritten>>
    BY <1>4 DEF CommandKills, NoFile, ExistsThrows
  <2>2. QED
    BY <2>1 DEF RewrittenInv, BodyRewrites
<1>5. CASE WriteStep \/ UNCHANGED splitVars
  <2>1. UNCHANGED <<database, rewritten, next, original, command, compiler, arg, pc>>
    BY <1>5 DEF WriteStep, splitVars, loopVars, vars, outputVars, Out!StartWriting, Out!Task,
      Out!CreateDirectories, Out!CreateDirectoriesThrows, Out!Open, Out!OpenFails,
      Out!WriteCommand, Out!LoseCommand, Out!Close, Out!Return, Out!Rethrow
  <2>2. QED
    BY <2>1 DEF RewrittenInv, BodyRewrites
<1>6. QED
  BY <1>1, <1>2, <1>3, <1>4, <1>5 DEF SplitNext

LEMMA InitRewritten ==
  ASSUME SplitInit
  PROVE  RewrittenInv
BY DEF SplitInit, RewrittenInv, BodyRewrites

LEMMA IncludeIs ==
  ASSUME NEW C, NEW s \in Seq(C)
  PROVE  IsInclude(s) <=> s # <<>> /\ s[1] = "-I"
<1>1. PICK x : x = <<"-I">>
  OBVIOUS
<1>2. x \in Seq({"-I"}) /\ x # <<>> /\ x[1] = "-I" /\ Len(x) = 1
  BY <1>1
<1>3. SubSeq(x, 1, 1) = << x[1] >>
  BY <1>2, FrontOne
<1>4. IsInclude(s) <=> Len(x) <= Len(s) /\ SubSeq(x, 1, Len(x)) = SubSeq(s, 1, Len(x))
  BY <1>1 DEF IsInclude, string_starts_with, IsPrefix
<1>5. s # <<>> <=> 1 <= Len(s)
  OBVIOUS
<1>6. s # <<>> => SubSeq(s, 1, 1) = << s[1] >>
  BY FrontOne
<1>7. << s[1] >> = << "-I" >> <=> s[1] = "-I"
  OBVIOUS
<1>8. QED
  BY <1>2, <1>3, <1>4, <1>5, <1>6, <1>7

\* -I<path>
LEMMA IncludeOf ==
  ASSUME NEW C, NEW t \in Seq(C), "-I" \in C, NEW s, s = <<"-I">> \o t
  PROVE  s \in Seq(C) /\ IsInclude(s) /\ Tail(s) = t /\ Len(s) = Len(t) + 1 /\ s[1] = "-I"
<1>1. <<"-I">> \in Seq(C) /\ Len(<<"-I">>) = 1 /\ <<"-I">>[1] = "-I"
  OBVIOUS
<1>2. PICK x : x = <<"-I">>
  OBVIOUS
<1>3. x \in Seq(C) /\ Len(x) = 1 /\ x[1] = "-I"
  BY <1>1, <1>2
<1>4. s = x \o t
  BY <1>2
<1>5. /\ s \in Seq(C) /\ Len(s) = Len(t) + 1 /\ s[1] = "-I"
      /\ \A i \in 1..Len(t) : s[i + 1] = t[i]
  BY <1>3, <1>4
<1>6. Tail(s) = t
  BY <1>5
<1>8. IsInclude(s)
  BY <1>5, IncludeIs, s # <<>>
<1>9. QED
  BY <1>5, <1>6, <1>8

LEMMA IncludeParts ==
  ASSUME NEW C, NEW s \in Seq(C), IsInclude(s)
  PROVE  s[1] = "-I" /\ Len(s) >= 1 /\ "-I" \in C /\ Tail(s) \in Seq(C) /\ s = <<"-I">> \o Tail(s)
<1>1. s # <<>> /\ s[1] = "-I"
  BY IncludeIs
<1>2. Len(s) >= 1
  BY <1>1
<1>3. s[1] \in C /\ Tail(s) \in Seq(C)
  BY <1>1
<1>4. s = <<s[1]>> \o Tail(s)
  BY <1>1
<1>5. QED
  BY <1>1, <1>2, <1>3, <1>4

\* An include directory under an absolute base is the same from anywhere.
LEMMA ResolvedStays ==
  ASSUME NEW C, {"/", "-I"} \subseteq C, Base \in Seq(C), IsAbsolute(Base), NEW t \in Seq(C),
         NEW d, NEW n, n = <<"-I">> \o Slash(Base, t)
  PROVE  IsInclude(n) /\ Entry(Slash(d, Tail(n))) = Before(t)
<1>1. PICK a : a = Slash(Base, t)
  OBVIOUS
<1>2. a \in Seq(C) /\ IsAbsolute(a)
  BY <1>1, SlashType
<1>3. IsInclude(n) /\ Tail(n) = a
  BY <1>1, <1>2, IncludeOf
<1>4. Slash(d, a) = a
  BY <1>2, AbsoluteStays
<1>5. QED
  BY <1>1, <1>3, <1>4 DEF Before

\* One in the sub-project is the same from the sub-project's directory.
LEMMA PrefixedStays ==
  ASSUME NEW C, {"/", ".", "-I"} \subseteq C, Base \in Seq(C), NEW s \in Seq(C),
         NEW p \in Seq(C), p # <<>>, IsInclude(s), Occurrences(s, p) = {2}, OnlyLeads(s, p),
         NEW n, n = Replaced(s, p, <<".">>, -1)
  PROVE  IsInclude(n) /\ Entry(Slash(Slash(Base, p), Tail(n))) = Before(Tail(s))
<1>1. "/" \in C /\ "." \in C /\ "-I" \in C /\ <<".">> \in Seq(C) /\ 2 \in Occurrences(s, p)
  OBVIOUS
<1>2. PICK a \in Seq(C) : PartsAt(C, s, p, <<".">>, 2, a)
  BY <1>1, OneOccurrence
<1>3. s # <<>> /\ s[1] = "-I"
  BY IncludeIs
<1>4. a = <<"-I">>
  <2>1. a = SubSeq(s, 1, 1)
    BY <1>2 DEF PartsAt, Ahead
  <2>2. QED
    BY <1>3, <2>1, FrontOne
<1>5. PICK r \in Seq(C) : s = a \o (p \o r) /\ n = a \o (<<".">> \o r)
  BY <1>2 DEF PartsAt
<1>6. PICK x, y : x = p \o r /\ y = <<".">> \o r
  OBVIOUS
<1>7. x \in Seq(C) /\ Len(x) = Len(p) + Len(r) /\ \A i \in 1..Len(r) : x[Len(p) + i] = r[i]
  BY <1>6
<1>8. y \in Seq(C)
  BY <1>1, <1>6
<1>9. s = <<"-I">> \o x /\ n = <<"-I">> \o y
  BY <1>4, <1>5, <1>6
<1>10. Tail(s) = x /\ Len(s) = Len(x) + 1
  BY <1>1, <1>7, <1>9, IncludeOf
<1>11. IsInclude(n) /\ Tail(n) = y
  BY <1>1, <1>8, <1>9, IncludeOf
<1>12. r = <<>> \/ r[1] = "/"
  <2>1. SUFFICES ASSUME r # <<>>
                 PROVE  r[1] = "/"
    OBVIOUS
  <2>2. Len(r) \in Nat \ {0} /\ Len(p) \in Nat
    BY <2>1
  <2>3. s[2 + Len(p)] = "/"
    <3>1. 2 + Len(p) > Len(s) \/ s[2 + Len(p)] = "/"
      BY <1>1 DEF OnlyLeads
    <3>2. ~(2 + Len(p) > Len(s))
      BY <1>7, <1>10, <2>2
    <3>3. QED
      BY <3>1, <3>2
  <2>4. 1 \in 1..Len(r) /\ Len(p) + 1 \in 1..Len(x)
    BY <1>7, <2>2
  <2>5. x[Len(p) + 1] = r[1]
    BY <1>7, <2>4
  <2>6. Tail(s)[Len(p) + 1] = s[(Len(p) + 1) + 1]
    BY <1>3, <1>10, <2>4
  <2>7. (Len(p) + 1) + 1 = 2 + Len(p)
    BY <2>2
  <2>8. QED
    BY <1>10, <2>3, <2>5, <2>6, <2>7
<1>13. Entry(Slash(Slash(Base, p), <<".">> \o r)) = Entry(Slash(Base, p \o r))
  BY <1>1, <1>12, RelocateLemma
<1>14. QED
  BY <1>6, <1>10, <1>11, <1>13 DEF Before

LEMMA IncludeStays ==
  ASSUME NEW C, {"/", ".", "-I"} \subseteq C, Base \in Seq(C), IsAbsolute(Base), NEW o,
         NEW p \in Seq(C), p = PrefixOf(o), NEW i \in DOMAIN o.arguments, i # 1,
         NEW s \in Seq(C), s = o.arguments[i], IsInclude(s), OnlyLeads(s, p),
         Before(Tail(s)) \in Existing, NEW n, n = NewArgument(o, i)
  PROVE  IsInclude(n) /\ Entry(Slash(Slash(Base, p), Tail(n))) = Before(Tail(s))
<1>0. "/" \in C /\ <<".">> \in Seq(C) /\ Tail(s) \in Seq(C)
  BY IncludeParts
<1>1. CASE p = <<>>
  <2>1. n = Replaced(s, p, <<".">>, -1)
    BY <1>1 DEF NewArgument, NamesPrefix
  <2>2. n = s
    BY <1>0, <1>1, <2>1, ReplacedNone
  <2>3. Entry(Slash(Slash(Base, <<>>), Tail(s))) = Entry(Slash(Base, Tail(s)))
    BY <1>0, NoPrefixLemma
  <2>4. QED
    BY <1>1, <2>2, <2>3 DEF Before
<1>2. CASE p # <<>> /\ Occurrences(s, p) = {}
  <2>1. n = <<"-I">> \o Slash(Base, Tail(s))
    BY <1>2 DEF NewArgument, NamesPrefix, Before
  <2>2. QED
    BY <1>0, <2>1, ResolvedStays
<1>3. CASE p # <<>> /\ Occurrences(s, p) # {}
  <2>1. n = Replaced(s, p, <<".">>, -1)
    BY <1>3 DEF NewArgument, NamesPrefix
  <2>2. Occurrences(s, p) = {2}
    BY <1>3 DEF OnlyLeads
  <2>3. QED
    BY <1>3, <2>1, <2>2, PrefixedStays
<1>4. QED
  BY <1>1, <1>2, <1>3

(***************************************************************************)
(* The commands that are moved.                                            *)
(***************************************************************************)
LEMMA Parsed ==
  ASSUME OutputInv, BodyTypes, Moved, NEW c \in DOMAIN rewritten
  PROVE  c \in 1..N /\ database \in Databases /\ "file" \in DOMAIN database[c]
<1>1. c \in 1..(next - 1)
  BY DEF Moved
<1>2. next \in 1..(N + 1)
  BY DEF OutputInv, Tasks!IInv, Tasks!TypeOK
<1>3. QED
  BY <1>1, <1>2, DoSplitAssumption DEF OutputInv, FilesRead, BodyTypes, DoSplitAssumption

LEMMA FilesStay ==
  ASSUME OutputInv, BodyTypes, Moved, RewrittenInv
  PROVE  FilesRelocated
<1>1. SUFFICES ASSUME NEW c \in Relocatable,
                      Leads(database[c].file, PrefixOf(database[c]))
               PROVE  After(rewritten[c], rewritten[c].file) = Before(database[c].file)
  BY DEF FilesRelocated
<1>2. c \in DOMAIN rewritten /\ "directory" \in DOMAIN database[c]
  BY DEF Relocatable
<1>3. PICK o, n : o = database[c] /\ n = rewritten[c]
  OBVIOUS
<1>4. n.directory = Slash(Base, PrefixOf(o)) /\ n.file = Replaced(o.file, PrefixOf(o), <<".">>, -1)
  BY <1>2, <1>3 DEF RewrittenInv, RewrittenTo, NewDirectory, NewFile
<1>5. /\ "/" \in Chars /\ {"/", "."} \subseteq Chars /\ Base \in Seq(Chars)
      /\ o.file \in Seq(Chars)
  BY <1>2, <1>3, Parsed, TextsTyped, DoSplitAssumption
<1>6. /\ PrefixOf(o) = Joined(Longest(o.file)) /\ Joined(Longest(o.file)) \in Seq(Chars)
      /\ Longest(o.file) \in Prefixes(Segments(o.file))
  BY <1>5, LongestPath, LongestIs DEF PrefixOf
<1>7. Leads(o.file, PrefixOf(o))
  BY <1>1, <1>3
<1>8. Entry(Slash(Slash(Base, PrefixOf(o)), Replaced(o.file, PrefixOf(o), <<".">>, -1)))
        = Before(o.file)
  BY <1>5, <1>6, <1>7, FileStays
<1>9. QED
  BY <1>3, <1>4, <1>8 DEF After

LEMMA ArgumentsStay ==
  ASSUME OutputInv, BodyTypes, Moved, RewrittenInv
  PROVE  ArgumentsRelocated
<1>1. SUFFICES ASSUME IsAbsolute(Base), NEW c \in Relocatable,
                      "arguments" \in DOMAIN database[c],
                      NEW i \in DOMAIN database[c].arguments
               PROVE  LET old == database[c].arguments
                          new == rewritten[c].arguments
                      IN  IF i = 1 THEN After(rewritten[c], new[1]) = Before(old[1])
                          ELSE LET s == Tail(old[i]) IN
                                 /\ IsInclude(old[i]) /\ s # <<>>
                                 /\ OnlyLeads(old[i], PrefixOf(database[c]))
                                 /\ Before(s) \in Existing
                                 => /\ IsInclude(new[i])
                                    /\ After(rewritten[c], Tail(new[i])) = Before(s)
  BY DEF ArgumentsRelocated
<1>2. c \in DOMAIN rewritten /\ "directory" \in DOMAIN database[c]
  BY DEF Relocatable
<1>3. PICK o, n : o = database[c] /\ n = rewritten[c]
  OBVIOUS
<1>4. n.directory = Slash(Base, PrefixOf(o)) /\ n.arguments[i] = NewArgument(o, i)
  BY <1>1, <1>2, <1>3 DEF RewrittenInv, RewrittenTo, NewDirectory
<1>5. /\ {"/", ".", "-I"} \subseteq Chars /\ "/" \in Chars /\ Base \in Seq(Chars)
      /\ o.file \in Seq(Chars) /\ o.arguments[i] \in Seq(Chars)
  BY <1>1, <1>2, <1>3, Parsed, TextsTyped, DoSplitAssumption
<1>6. PrefixOf(o) \in Seq(Chars)
  BY <1>5, LongestPath DEF PrefixOf
<1>7. CASE i = 1
  <2>1. n.arguments[1] = Slash(Base, o.arguments[1])
    BY <1>4, <1>7 DEF NewArgument
  <2>2. IsAbsolute(Slash(Base, o.arguments[1]))
    BY <1>1, <1>5, <1>7, SlashType
  <2>3. After(n, n.arguments[1]) = Before(o.arguments[1])
    BY <2>1, <2>2, AbsoluteStays DEF After, Before
  <2>4. QED
    BY <1>3, <1>7, <2>3
<1>8. CASE i # 1
  <2>1. SUFFICES ASSUME IsInclude(o.arguments[i]), OnlyLeads(o.arguments[i], PrefixOf(o)),
                        Before(Tail(o.arguments[i])) \in Existing
                 PROVE  /\ IsInclude(n.arguments[i])
                        /\ After(n, Tail(n.arguments[i])) = Before(Tail(o.arguments[i]))
    BY <1>3, <1>8
  <2>2. i \in DOMAIN o.arguments
    BY <1>3
  <2>3. /\ IsInclude(n.arguments[i])
        /\ Entry(Slash(Slash(Base, PrefixOf(o)), Tail(n.arguments[i])))
             = Before(Tail(o.arguments[i]))
    BY <1>1, <1>4, <1>5, <1>6, <1>8, <2>1, <2>2, IncludeStays
  <2>4. QED
    BY <1>4, <2>3 DEF After
<1>9. QED
  BY <1>7, <1>8

(***************************************************************************)
(* The folders of the nodes.                                               *)
(***************************************************************************)

RelativeNode(C, q) == IsPath(C, q) /\ Joined(q) \in Seq(C) /\ ~IsAbsolute(Joined(q))

LEMMA NodesRelative ==
  ASSUME DoSplitAssumption, \A p \in Projects : IsRelative(p), NEW q \in Nodes
  PROVE  RelativeNode(Chars, q)
<1>1. "/" \in Chars
  BY TextsTyped
<1>2. CASE q = <<>>
  <2>1. IsPath(Chars, <<>>)
    BY DEF IsPath
  <2>2. <<>> \in Seq(Chars) /\ ~IsAbsolute(<<>>)
    BY DEF IsAbsolute
  <2>3. RelativeNode(Chars, <<>>)
    BY <2>1, <2>2, JoinedNone DEF RelativeNode
  <2>4. QED
    BY <1>2, <2>3
<1>3. CASE q # <<>>
  <2>1. PICK p \in Projects : q \in Prefixes(Segments(TurnBackslashes(p)))
    BY <1>3 DEF Nodes
  <2>2. PICK s : s = TurnBackslashes(p)
    OBVIOUS
  <2>3. s \in Seq(Chars) /\ ~IsAbsolute(s)
    BY <2>2, TextsTyped DEF IsRelative
  <2>4. IsPath(Chars, Segments(s)) /\ q \in Prefixes(Segments(s))
    BY <1>1, <2>1, <2>2, <2>3, SegmentsPath
  <2>5. IsPath(Chars, q)
    BY <2>4, PrefixPath
  <2>6. Joined(q) \in Seq(Chars)
    BY <1>1, <2>5, JoinedPath DEF JoinedFacts
  <2>7. Segments(Joined(q)) = q
    BY <1>1, <2>5, SegmentsJoined
  <2>8. q[1] = Segments(s)[1] /\ Segments(s) # <<>>
    <3>1. Segments(s) \in Seq(Seq(Chars))
      BY <1>1, <2>3, PartsType
    <3>2. q \in Seq(Seq(Chars)) /\ Len(q) <= Len(Segments(s))
          /\ \A i \in 1..Len(q) : q[i] = Segments(s)[i]
      BY <2>4, <3>1, PrefixOfSeq
    <3> DEFINE D == Seq(Chars)
    <3>3. q \in Seq(D) /\ Segments(s) \in Seq(D)
      BY <3>1, <3>2
    <3> HIDE DEF D
    <3>4. Len(q) \in Nat /\ Len(q) >= 1
      BY <1>3, <3>3
    <3>5. Len(Segments(s)) >= 1 /\ 1 \in 1..Len(q)
      BY <3>2, <3>3, <3>4
    <3>6. QED
      BY <3>2, <3>3, <3>5
  <2>9. ~IsAbsolute(Joined(q))
    BY <1>1, <2>3, <2>6, <2>7, <2>8, RootSegment
  <2>10. QED
    BY <2>5, <2>6, <2>9 DEF RelativeNode
<1>4. QED
  BY <1>2, <1>3

\* What dest_folder puts before a relative path, and the directory it names.
Stem == IF Dest = <<>> THEN <<>> ELSE IF Last(Dest) = "/" THEN Dest ELSE Dest \o <<"/">>

StemEntry == IF Dest = <<>> THEN <<>> ELSE Entry(Dest)

LEMMA FolderIs ==
  ASSUME NEW C, "/" \in C, Dest \in Seq(C), NEW q, RelativeNode(C, q)
  PROVE  /\ Stem \in Seq(C) /\ Slash(Dest, Joined(q)) = Stem \o Joined(q)
         /\ StemEntry \in Seq(Seq(C)) /\ Entry(Slash(Dest, Joined(q))) = StemEntry \o Keep(q)
<1>1. PICK x : x = Joined(q)
  OBVIOUS
<1>2. x \in Seq(C) /\ ~IsAbsolute(x)
  BY <1>1 DEF RelativeNode
<1>3. <<"/">> \in Seq(C) /\ <<>> \o x = x
  BY <1>2
<1>4. Stem \in Seq(C) /\ Slash(Dest, x) = Stem \o x
  BY <1>2, <1>3 DEF Stem, Slash
<1>5. q \in Seq(Seq(C)) /\ Segments(x) = q
  BY <1>1, SegmentsJoined DEF RelativeNode, IsPath
<1>6. Entry(x) = Keep(q) /\ Keep(q) \in Seq(Seq(C))
  BY <1>5, EntryIsKeep, KeepType
<1>7. Entry(x) = Rest(x)
  <2>1. Root(x) = <<>> /\ Rest(x) \in Seq(Seq(C))
    BY <1>2, RestType DEF Root
  <2>2. <<>> \o Rest(x) = Rest(x)
    BY <2>1
  <2>3. QED
    BY <1>2, <2>1, <2>2, EntryIs
<1>8. StemEntry \in Seq(Seq(C))
  BY EntryIs DEF StemEntry
<1>9. Entry(Slash(Dest, x)) = StemEntry \o Keep(q)
  <2>1. CASE Dest = <<>>
    <3>1. Slash(Dest, x) = x
      BY <2>1 DEF Slash
    <3>2. <<>> \o Keep(q) = Keep(q)
      BY <1>6
    <3>3. QED
      BY <1>6, <2>1, <3>1, <3>2 DEF StemEntry
  <2>2. CASE Dest # <<>>
    <3>1. Entry(Slash(Dest, x)) = Entry(Dest) \o Rest(x)
      BY <1>2, <2>2, EntrySlash
    <3>2. QED
      BY <1>6, <1>7, <2>2, <3>1 DEF StemEntry
  <2>3. QED
    BY <2>1, <2>2
<1>10. QED
  BY <1>1, <1>4, <1>8, <1>9

LEMMA NodePrefix ==
  ASSUME NEW M, NEW q \in Nodes, q \in Seq(M), NEW n \in 0..Len(q)
  PROVE  SubSeq(q, 1, n) \in Nodes
<1>1. CASE q = <<>>
  <2>1. n = 0 /\ SubSeq(q, 1, n) = <<>>
    BY <1>1
  <2>2. QED
    BY <2>1 DEF Nodes
<1>2. CASE q # <<>>
  <2>1. PICK p \in Projects : q \in Prefixes(Segments(TurnBackslashes(p)))
    BY <1>2 DEF Nodes
  <2>2. PICK w : w = Segments(TurnBackslashes(p))
    OBVIOUS
  <2>3. PICK l \in 0..Len(w) : q = SubSeq(w, 1, l)
    BY <2>1, <2>2 DEF Prefixes
  <2>4. Len(q) = l
    BY <2>3
  <2>5. n \in 0..Len(w) /\ n \in 0..l
    BY <2>3, <2>4
  <2>6. SubSeq(SubSeq(w, 1, l), 1, n) = SubSeq(w, 1, n)
    BY <2>3, <2>5
  <2>7. SubSeq(q, 1, n) \in Prefixes(w)
    BY <2>3, <2>5, <2>6 DEF Prefixes
  <2>8. QED
    BY <2>2, <2>7 DEF Nodes
<1>3. QED
  BY <1>1, <1>2

\* Where no two folders are one directory, no node has a segment that does not
\* count: it and the node without it would name one directory.
LEMMA NodesWhole ==
  ASSUME DoSplitAssumption, Out!NoAlias, \A p \in Projects : IsRelative(p), NEW q \in Nodes
  PROVE  Keep(q) = q
<1> DEFINE C == Chars
           D == Seq(C)
<1>1. "/" \in C /\ Dest \in Seq(C)
  BY TextsTyped
<1>2. q \in Seq(D)
  BY NodesRelative DEF RelativeNode, IsPath
<1> HIDE DEF C, D
<1>3. ASSUME NEW i \in 1..Len(q), q[i] \in {<<>>, <<".">>}
      PROVE  FALSE
  <2>1. PICK u, v : u = SubSeq(q, 1, i) /\ v = SubSeq(q, 1, i - 1)
    OBVIOUS
  <2>2. i \in 0..Len(q) /\ i - 1 \in 0..Len(q)
    BY <1>2
  <2>3. u \in Nodes /\ v \in Nodes
    BY <1>2, <2>1, <2>2, NodePrefix
  <2>4. u \in Seq(D) /\ v \in Seq(D) /\ Len(u) = i /\ Len(v) = i - 1 /\ q[i] \in D
        /\ \A j \in 1..(i - 1) : u[j] = q[j] /\ v[j] = q[j]
    BY <1>2, <1>3, <2>1, <2>2
  <2>5. u = v \o << q[i] >>
    <3>1. PICK x : x = v \o << q[i] >>
      OBVIOUS
    <3>2. x \in Seq(D) /\ Len(x) = i /\ x[i] = q[i] /\ \A j \in 1..(i - 1) : x[j] = v[j]
      BY <1>3, <2>4, <3>1
    <3>3. u[i] = q[i]
      BY <1>2, <1>3, <2>1, <2>2
    <3>4. \A j \in 1..i : j = i \/ j \in 1..(i - 1)
      BY <1>3
    <3>5. \A j \in 1..i : u[j] = x[j]
      BY <2>4, <3>2, <3>3, <3>4
    <3>6. QED
      BY <2>4, <3>1, <3>2, <3>5, SeqEqual
  <2>6. Keep(u) = Keep(v)
    <3>1. << q[i] >> \in Seq(D) /\ Keep(v) \in Seq(D)
      BY <2>4, KeepType
    <3>2. Keep(<< q[i] >>) = <<>>
      BY <1>3, KeepOne DEF Kept
    <3>3. Keep(v \o << q[i] >>) = Keep(v) \o Keep(<< q[i] >>)
      BY <2>4, <3>1, KeepConcat
    <3>4. Keep(v) \o <<>> = Keep(v)
      BY <3>1
    <3>5. QED
      BY <2>5, <3>2, <3>3, <3>4
  <2>7. RelativeNode(C, u) /\ RelativeNode(C, v)
    BY <2>3, NodesRelative DEF C
  <2>8. Entry(Slash(Dest, Joined(u))) = Entry(Slash(Dest, Joined(v)))
    BY <1>1, <2>6, <2>7, FolderIs
  <2>9. Slash(Dest, Joined(u)) = Slash(Dest, Joined(v))
    <3>1. PICK j, k : j = Slash(Dest, Joined(u)) /\ k = Slash(Dest, Joined(v))
      OBVIOUS
    <3>2. j \in Keys /\ k \in Keys
      BY <2>3, <3>1 DEF Keys
    <3>3. EntryOf[j] = EntryOf[k]
      BY <2>8, <3>1, <3>2 DEF EntryOf
    <3>4. QED
      BY <3>1, <3>2, <3>3 DEF Out!NoAlias
  <2>10. Stem \o Joined(u) = Stem \o Joined(v) /\ Stem \in Seq(C)
    BY <1>1, <2>7, <2>9, FolderIs
  <2>11. Joined(u) \in Seq(C) /\ Joined(v) \in Seq(C)
    BY <2>7 DEF RelativeNode
  <2>12. Joined(u) = Joined(v)
    BY <2>10, <2>11, SameBehind
  <2>13. Segments(Joined(u)) = u /\ Segments(Joined(v)) = v
    BY <1>1, <2>7, SegmentsJoined DEF RelativeNode
  <2>14. Len(u) = Len(v)
    BY <2>12, <2>13
  <2>15. QED
    BY <1>3, <2>4, <2>14
<1>4. QED
  BY <1>2, <1>3, KeepAll

LEMMA FolderBelow ==
  ASSUME DoSplitAssumption, Out!NoAlias, \A p \in Projects : IsRelative(p),
         NEW o \in Nodes, NEW q \in Nodes
  PROVE  IsPrefix(Entry(Slash(Dest, Joined(o))), Entry(Slash(Dest, Joined(q)))) <=> IsPrefix(o, q)
<1>1. "/" \in Chars /\ Dest \in Seq(Chars)
  BY TextsTyped
<1>2. RelativeNode(Chars, o) /\ RelativeNode(Chars, q)
  BY NodesRelative
<1>3. /\ StemEntry \in Seq(Seq(Chars))
      /\ Entry(Slash(Dest, Joined(o))) = StemEntry \o Keep(o)
      /\ Entry(Slash(Dest, Joined(q))) = StemEntry \o Keep(q)
  BY <1>1, <1>2, FolderIs
<1>4. Keep(o) = o /\ Keep(q) = q
  BY NodesWhole
<1>5. o \in Seq(Seq(Chars)) /\ q \in Seq(Seq(Chars))
  BY <1>2 DEF RelativeNode, IsPath
<1>6. IsPrefix(StemEntry \o o, StemEntry \o q) <=> IsPrefix(o, q)
  BY <1>3, <1>5, PrefixBehind
<1>7. QED
  BY <1>3, <1>4, <1>6

\* Every node that a file lies below leads to the file's longest node.
LEMMA NodeOfFile ==
  ASSUME DoSplitAssumption, NEW n \in Nodes, NEW f \in Seq(Chars)
  PROVE  /\ Longest(f) \in Nodes /\ IsPrefix(Longest(f), Segments(f))
         /\ IsPrefix(n, Segments(f)) <=> IsPrefix(n, Longest(f))
<1> DEFINE D == Seq(Chars)
<1>1. "/" \in Chars /\ \A p \in Projects : TurnBackslashes(p) \in Seq(Chars)
  BY TextsTyped
<1>2. n \in Seq(D) /\ Segments(f) \in Seq(D)
  <2>1. \A p \in Projects : Segments(TurnBackslashes(p)) \in Seq(D)
    BY <1>1, PartsType
  <2>2. n = <<>> \/ \E p \in Projects : n \in Prefixes(Segments(TurnBackslashes(p)))
    BY DEF Nodes
  <2> HIDE DEF D
  <2>3. n \in Seq(D)
    <3>1. CASE n = <<>>
      BY <3>1
    <3>2. CASE n # <<>>
      <4>1. PICK w : w \in Seq(D) /\ n \in Prefixes(w)
        BY <2>1, <2>2, <3>2
      <4>2. QED
        BY <4>1, PrefixOfSeq
    <3>3. QED
      BY <3>1, <3>2
  <2>4. QED
    BY <1>1, <2>3, PartsType DEF D
<1>3. Longest(f) \in Prefixes(Segments(f)) /\ Longest(f) \in Nodes
  BY <1>1, LongestIs
<1>4. \A o \in Prefixes(Segments(f)) \cap Nodes : Len(o) <= Len(Longest(f))
  BY <1>1, LongestIs
<1> HIDE DEF D
<1>5. PICK o, q, w : o = n /\ q = Longest(f) /\ w = Segments(f)
  OBVIOUS
<1>6. o \in Seq(D) /\ w \in Seq(D) /\ q \in Prefixes(w)
  BY <1>2, <1>3, <1>5
<1>7. q \in Seq(D) /\ Len(q) <= Len(w) /\ \A i \in 1..Len(q) : q[i] = w[i]
  BY <1>6, PrefixOfSeq
<1>8. o \in Nodes /\ IsPrefix(q, w)
  BY <1>5, <1>6, <1>7, PrefixesIs
<1>9. ASSUME IsPrefix(o, w)
      PROVE  IsPrefix(o, q)
  <2>1. o \in Prefixes(w)
    BY <1>6, <1>9, PrefixesIs
  <2>2. Len(o) <= Len(q)
    BY <1>4, <1>5, <1>8, <2>1
  <2>3. \A i \in 1..Len(o) : o[i] = w[i]
    BY <1>6, <1>9, IsPrefixIs
  <2>4. \A i \in 1..Len(o) : i \in 1..Len(q)
    BY <1>6, <1>7, <2>2
  <2>5. \A i \in 1..Len(o) : o[i] = q[i]
    BY <1>7, <2>3, <2>4
  <2>6. QED
    BY <1>6, <1>7, <2>2, <2>5, IsPrefixIs
<1>10. ASSUME IsPrefix(o, q)
       PROVE  IsPrefix(o, w)
  <2>1. Len(o) <= Len(q) /\ \A i \in 1..Len(o) : o[i] = q[i]
    BY <1>6, <1>7, <1>10, IsPrefixIs
  <2>2. Len(o) <= Len(w) /\ \A i \in 1..Len(o) : i \in 1..Len(q)
    BY <1>6, <1>7, <2>1
  <2>3. \A i \in 1..Len(o) : o[i] = w[i]
    BY <1>7, <2>1, <2>2
  <2>4. QED
    BY <1>6, <2>2, <2>3, IsPrefixIs
<1>11. QED
  BY <1>3, <1>5, <1>8, <1>9, <1>10

\* The files that lie in a project are those whose longest node does.
LEMMA ProjectOfFile ==
  ASSUME DoSplitAssumption, NEW p \in Projects, NEW f \in Seq(Chars)
  PROVE  /\ PathOf(p) \in Nodes /\ Longest(f) \in Nodes
         /\ IsPrefix(PathOf(p), Segments(f)) <=> IsPrefix(PathOf(p), Longest(f))
<1>1. TurnBackslashes(p) \in Seq(Chars) /\ "/" \in Chars
  BY TextsTyped
<1>2. PathOf(p) \in Seq(Seq(Chars))
  BY <1>1, PartsType DEF PathOf
<1>3. PICK D, o : D = Seq(Chars) /\ o = PathOf(p)
  OBVIOUS
<1>4. o \in Prefixes(o)
  <2>1. IsPrefix(o, o)
    BY <1>2, <1>3, IsPrefixIs
  <2>2. QED
    BY <1>2, <1>3, <2>1, PrefixesIs
<1>5. PathOf(p) \in Nodes
  BY <1>3, <1>4 DEF Nodes, PathOf
<1>6. QED
  BY <1>5, NodeOfFile

(***************************************************************************)
(* What becomes of every command.                                          *)
(***************************************************************************)
MovedInv ==
  /\ OutputInv /\ BodyTypes /\ Moved
  /\ RewrittenInv
  /\ Tasks!FilesHaveTasks

LEMMA InitMovedInv ==
  ASSUME SplitInit
  PROVE  MovedInv
<1>1. OutputInv /\ BodyTypes /\ Moved /\ RewrittenInv
  BY InitOutputInv, InitTypes, InitRewritten
<1>2. Tasks!FilesHaveTasks
  BY DEF SplitInit, Out!Init, Tasks!FilesHaveTasks
<1>3. QED
  BY <1>1, <1>2 DEF MovedInv

LEMMA NextMovedInv ==
  ASSUME MovedInv, [SplitNext]_splitVars
  PROVE  MovedInv'
<1>1. OutputInv' /\ BodyTypes' /\ Moved' /\ RewrittenInv'
  BY NextOutputInv, NextTypes, NextRewritten DEF MovedInv
<1>2. [Tasks!Next]_Tasks!vars
  BY StepImplements, SameStep, DoSplitAssumption DEF MovedInv, OutputInv
<1>3. Tasks!FilesHaveTasks'
  BY <1>2, TasksAssumption, Tasks!NextFilesHaveTasks DEF MovedInv, OutputInv
<1>4. QED
  BY <1>1, <1>3 DEF MovedInv

LEMMA ProjectsHold ==
  ASSUME MovedInv
  PROVE  ProjectsServed
<1>1. SUFFICES ASSUME phase = "finished", lost = {}, Out!NoAlias,
                      \A p \in Projects : IsRelative(p), NEW c \in 1..N
               PROVE  LET folders == {k \in Keys : c \in ToSet(files[Entry(k)])}
                      IN  /\ \A p \in Projects :
                               IsPrefix(PathOf(p), Segments(database[c].file)) <=>
                               \E k \in folders :
                                 IsPrefix(Entry(Slash(Dest, Joined(PathOf(p)))), Entry(k))
                          /\ c \in Relocatable =>
                               \E q \in Nodes :
                                 /\ IsPrefix(q, Segments(database[c].file))
                                 /\ \A o \in Nodes : IsPrefix(o, Segments(database[c].file))
                                                     => IsPrefix(o, q)
                                 /\ Entry(rewritten[c].directory) = Entry(Slash(Base, Joined(q)))
                                 /\ {Entry(k) : k \in folders} = {Entry(Slash(Dest, Joined(q)))}
  BY DEF ProjectsServed
<1>2. Tasks!IInv /\ Tasks!TasksDoNotMix /\ Tasks!NoAlias /\ Tasks!FilesHaveTasks
  BY <1>1 DEF MovedInv, OutputInv, Out!NoAlias, Tasks!NoAlias
<1>3. next = N + 1
  BY <1>1, <1>2 DEF Tasks!IInv, Tasks!PhasesInOrder
<1>4. "file" \in DOMAIN database[c]
  BY <1>3, DoSplitAssumption DEF MovedInv, OutputInv, FilesRead, DoSplitAssumption
<1> DEFINE q == Longest(database[c].file)
           folder == Slash(Dest, Joined(q))
<1>5. dests[c] = folder
  BY <1>4 DEF MovedInv, OutputInv, LoopInv, FoldersOf, PrefixOf
<1>6. database[c].file \in Seq(Chars) /\ "/" \in Chars
  BY <1>4, TextsTyped, DoSplitAssumption DEF MovedInv, BodyTypes
<1>7. q \in Nodes /\ folder \in Keys
  <2>1. q \in Nodes
    BY <1>6, LongestIs
  <2>2. QED
    BY <2>1 DEF Keys
<1> HIDE DEF q, folder
<1>8. {k \in Keys : c \in ToSet(files[Entry(k)])} = {folder}
  <2>1. ASSUME NEW k \in Keys
        PROVE  c \in ToSet(files[Entry(k)]) <=> k = folder
    <3>1. c \in Tasks!Command /\ EntryOf[k] = Entry(k)
      BY DEF Tasks!Command, EntryOf
    <3>2. c \in Tasks!ToSet(files[EntryOf[k]]) <=> dests[c] = k
      BY <1>1, <1>2, <3>1, TasksAssumption, Tasks!FolderOfCommand
    <3>3. QED
      BY <1>5, <3>1, <3>2 DEF Tasks!ToSet, ToSet
  <2>2. QED
    BY <1>7, <2>1
<1>9. ASSUME NEW p \in Projects
      PROVE  IsPrefix(PathOf(p), Segments(database[c].file)) <=>
             IsPrefix(Entry(Slash(Dest, Joined(PathOf(p)))), Entry(folder))
  <2>1. /\ PathOf(p) \in Nodes
        /\ IsPrefix(PathOf(p), Segments(database[c].file)) <=> IsPrefix(PathOf(p), q)
    BY <1>6, ProjectOfFile, DoSplitAssumption DEF q
  <2>2. IsPrefix(Entry(Slash(Dest, Joined(PathOf(p)))), Entry(Slash(Dest, Joined(q))))
          <=> IsPrefix(PathOf(p), q)
    BY <1>1, <1>7, <2>1, FolderBelow, DoSplitAssumption
  <2>3. QED
    BY <2>1, <2>2 DEF folder
<1>10. ASSUME c \in Relocatable
       PROVE  Entry(rewritten[c].directory) = Entry(Slash(Base, Joined(q)))
  BY <1>10 DEF Relocatable, MovedInv, RewrittenInv, RewrittenTo, NewDirectory, PrefixOf, q
<1>11. {Entry(k) : k \in {folder}} = {Entry(Slash(Dest, Joined(q)))}
  BY DEF folder
<1>12. /\ IsPrefix(q, Segments(database[c].file))
       /\ \A o \in Nodes : IsPrefix(o, Segments(database[c].file)) => IsPrefix(o, q)
  BY <1>6, <1>7, NodeOfFile, DoSplitAssumption DEF q
<1>13. QED
  BY <1>7, <1>8, <1>9, <1>10, <1>11, <1>12

\* README.md:105, -b corrects the path mapping of the commands: for any
\* database, projects and base, every command that is moved still compiles the
\* file it compiled, if the prefix occurs in the file's path just where
\* SearchPrefix found it (commands.cpp:246-262).
THEOREM FilesCorrect == SplitSpec => []FilesRelocated
<1>1. SplitInit => MovedInv
  BY InitMovedInv
<1>2. MovedInv /\ [SplitNext]_splitVars => MovedInv'
  BY NextMovedInv
<1>3. MovedInv => FilesRelocated
  BY FilesStay DEF MovedInv
<1>4. QED
  BY <1>1, <1>2, <1>3, PTL DEF SplitSpec

\* The same for the compiler and the include directories of every command,
\* whatever the file system holds (commands.cpp:264-298).
THEOREM ArgumentsCorrect == SplitSpec => []ArgumentsRelocated
<1>1. SplitInit => MovedInv
  BY InitMovedInv
<1>2. MovedInv /\ [SplitNext]_splitVars => MovedInv'
  BY NextMovedInv
<1>3. MovedInv => ArgumentsRelocated
  BY ArgumentsStay DEF MovedInv
<1>4. QED
  BY <1>1, <1>2, <1>3, PTL DEF SplitSpec

\* README.md:137, a compile_commands.json for each sub-project: for any
\* database and projects, a run that finishes and lost no write has put the
\* commands of the files of each project at or below the project's folder and
\* no others, and each command there is relative to the folder's counterpart
\* in the super-project.
THEOREM ProjectsCorrect == SplitSpec => []ProjectsServed
<1>1. SplitInit => MovedInv
  BY InitMovedInv
<1>2. MovedInv /\ [SplitNext]_splitVars => MovedInv'
  BY NextMovedInv
<1>3. MovedInv => ProjectsServed
  BY ProjectsHold
<1>4. QED
  BY <1>1, <1>2, <1>3, PTL DEF SplitSpec
=============================================================================

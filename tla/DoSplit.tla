------------------------------- MODULE DoSplit -------------------------------
(***************************************************************************)
(* DoSplitCommand (src/commands.cpp) from the parsed database to the files *)
(* on disk: the grouping loop, whose body is module RewriteCommand, feeds  *)
(* the tasks that write the folders, which are those of module SplitCdb.   *)
(* The files hold commands by their number in the database; rewritten[c]   *)
(* is what the number c stands for.                                        *)
(***************************************************************************)
EXTENDS RewriteCommand

CONSTANTS
  N,          \* bound: the commands of a database
  Databases,  \* the arrays that are parsed, of N commands each
  Workers, Faults   \* as in SplitCdb

IsText(s) == s \in Seq(Range(s))

ASSUME DoSplitAssumption ==
  /\ N \in Nat
  /\ IsText(Base) /\ IsText(Dest) /\ \A p \in Projects : IsText(p)
  /\ \A d \in Databases : DOMAIN d = 1..N
  /\ \A d \in Databases : \A c \in {x \in 1..N : "file" \in DOMAIN d[x]} : IsText(d[c].file)
  /\ \A d \in Databases : \A c \in {x \in 1..N : "arguments" \in DOMAIN d[x]} :
       /\ d[c].arguments \in Seq(Range(d[c].arguments))
       /\ \A i \in DOMAIN d[c].arguments : IsText(d[c].arguments[i])
  /\ Workers \in Nat \ {0}
  /\ "command" \in Faults /\ Faults \subseteq {"mkdir", "open", "write", "command"}

VARIABLES
  database,   \* the array as parsed
  rewritten,  \* rewritten[c]: the element that was moved to commands_map
  dests,      \* history: the folders the loop will find for them
  phase, next, groups, task, done, off, files, cancelled, lost  \* as in SplitCdb

loopVars   == <<vars, database, rewritten>>
outputVars == <<dests, phase, next, groups, task, done, off, files, cancelled, lost>>
splitVars  == <<loopVars, outputVars>>

\* The strings that can be keys, and the directories they name.
Keys == {Slash(Dest, Joined(q)) : q \in Nodes}
Dirs == {Entry(k) : k \in Keys}
EntryOf == [k \in Keys |-> Entry(k)]

Out == INSTANCE SplitCdb WITH Key <- Keys, Dir <- Dirs, At <- EntryOf

\* The folders that the paths in d determine; any for one without "file".
FoldersOf(d) ==
  [c \in 1..N |-> Slash(Dest, IF "file" \in DOMAIN d[c] THEN PrefixOf(d[c]) ELSE <<>>)]

NoCommand == [file |-> <<>>]

SplitTypeOK ==
  /\ TypeOK
  /\ Out!TypeOK
  /\ DOMAIN rewritten = 1..(next - 1)
  /\ \A c \in DOMAIN rewritten : DOMAIN rewritten[c] = DOMAIN database[c]

SplitInit ==
  /\ database \in Databases
  /\ original = NoCommand /\ command = NoCommand
  /\ prefix = <<>> /\ compiler = TRUE /\ arg = 1 /\ pc = "done" /\ key = <<>>
  /\ rewritten = <<>>
  /\ Out!Init /\ dests = FoldersOf(database)

\* for (auto& command : command_arr), with the locals of the body.
MCompilerOutsideLoop ==
  /\ phase = "grouping" /\ pc = "done" /\ next <= N
  /\ original' = database[next] /\ command' = database[next]
  /\ prefix' = <<>> /\ arg' = 1 /\ pc' = "prefix" /\ key' = <<>>
  /\ UNCHANGED <<compiler, database, rewritten, outputVars>>

NextCommand ==
  /\ phase = "grouping" /\ pc = "done" /\ next <= N
  /\ original' = database[next] /\ command' = database[next]
  /\ prefix' = <<>> /\ compiler' = TRUE /\ arg' = 1 /\ pc' = "prefix" /\ key' = <<>>
  /\ UNCHANGED <<database, rewritten, outputVars>>

RewriteStep == Rewrite /\ UNCHANGED <<database, rewritten, outputVars>>

\* What the body pushes goes to the array of the key, new if need be.
MPushReplaces ==
  /\ Push
  /\ groups' = [groups EXCEPT ![key'] = <<next>>]
  /\ rewritten' = Append(rewritten, command)
  /\ next' = next + 1
  /\ UNCHANGED <<database, dests, phase, task, done, off, files, cancelled, lost>>

MPushInFront ==
  /\ Push
  /\ groups' = [groups EXCEPT ![key'] = <<next>> \o @]
  /\ rewritten' = Append(rewritten, command)
  /\ next' = next + 1
  /\ UNCHANGED <<database, dests, phase, task, done, off, files, cancelled, lost>>

PushCommand ==
  /\ Push
  /\ groups' = [groups EXCEPT ![key'] = Append(@, next)]
  /\ rewritten' = Append(rewritten, command)
  /\ next' = next + 1
  /\ UNCHANGED <<database, dests, phase, task, done, off, files, cancelled, lost>>

\* A command that cannot be read, or an include directory that cannot be asked
\* for, ends the process with the commands in memory.
CommandKills ==
  /\ \/ NoFile /\ phase' \in {"aborted", "crashed"}
     \/ ExistsThrows /\ phase' = "aborted"
  /\ UNCHANGED <<database, rewritten, dests, next, groups, task, done, off, files, cancelled, lost>>

\* The loop is over; parallel_for_each over commands_map.
WriteStep ==
  /\ pc = "done"
  /\ UNCHANGED loopVars
  /\ Out!StartWriting \/ (\E k \in Keys : Out!Task(k)) \/ Out!Return \/ Out!Rethrow

SplitNext == NextCommand \/ RewriteStep \/ PushCommand \/ CommandKills \/ WriteStep

SplitSpec == SplitInit /\ [][SplitNext]_splitVars

\* As for SplitCdb: the process keeps running.
FairSplitSpec == SplitSpec /\ WF_splitVars(SplitNext)

-----------------------------------------------------------------------------
\* The commands that are rewritten and name a directory to be relative to.
Relocatable == {c \in DOMAIN rewritten : "directory" \in DOMAIN database[c]}

\* A command still compiles the same source, wherever in the database it
\* stands, when the prefix occurs in the file's path exactly where
\* SearchPrefix found it.
FilesRelocated ==
  \A c \in Relocatable :
    Leads(database[c].file, PrefixOf(database[c])) =>
      After(rewritten[c], rewritten[c].file) = Before(database[c].file)

\* Under a super-project given by an absolute path, it is still compiled by the
\* same compiler, and with the same include directories: those in the
\* sub-project become relative to the new directory, the others absolute.  One
\* that does not exist under the super-project is left alone, and "-I" on its
\* own is not claimed.
ArgumentsRelocated ==
  IsAbsolute(Base) =>
    \A c \in {d \in Relocatable : "arguments" \in DOMAIN database[d]} :
      LET old == database[c].arguments
          new == rewritten[c].arguments
      IN  \A i \in DOMAIN old :
            IF i = 1 THEN After(rewritten[c], new[1]) = Before(old[1])
            ELSE LET s == Tail(old[i]) IN
                   /\ IsInclude(old[i]) /\ s # <<>>
                   /\ OnlyLeads(old[i], PrefixOf(database[c]))
                   /\ Before(s) \in Existing
                   => /\ IsInclude(new[i])
                      /\ After(rewritten[c], Tail(new[i])) = Before(s)

\* The path of a project as the trie holds it.
PathOf(p) == Segments(TurnBackslashes(p))

\* The project's path is relative to the super-project, as a manifest's are.
IsRelative(p) == ~IsAbsolute(TurnBackslashes(p))

\* README.md:137: the output has a compile_commands.json for each sub-project.
\* When all is written, and no two folders are one directory, the commands
\* found at or below a project's folder are those of the files that lie in the
\* project.  A command is in one folder only, which is to the output what its
\* new directory is to the super-project: the deepest directory that is, or
\* leads to, a project and that the file lies in (commands.cpp:248).
ProjectsServed ==
  /\ phase = "finished" /\ lost = {}
  /\ Out!NoAlias /\ \A p \in Projects : IsRelative(p)
  => \A c \in 1..N :
       LET folders == {k \in Keys : c \in ToSet(files[Entry(k)])}
       IN  /\ \A p \in Projects :
                IsPrefix(PathOf(p), Segments(database[c].file)) <=>
                \E k \in folders : IsPrefix(Entry(Slash(Dest, Joined(PathOf(p)))), Entry(k))
           /\ c \in Relocatable =>
                \E q \in Nodes :
                  /\ IsPrefix(q, Segments(database[c].file))
                  /\ \A o \in Nodes : IsPrefix(o, Segments(database[c].file)) => IsPrefix(o, q)
                  /\ Entry(rewritten[c].directory) = Entry(Slash(Base, Joined(q)))
                  /\ {Entry(k) : k \in folders} = {Entry(Slash(Dest, Joined(q)))}

\* When all is written, and no two folders are one directory, each command had
\* a path, and the file of the folder that this path determines holds the
\* commands of that folder, each once, in the order of the database.
FoldersComplete ==
  phase = "finished" /\ lost = {} /\ Out!NoAlias =>
    \A c \in 1..N :
      /\ "file" \in DOMAIN database[c]
      /\ LET k == Slash(Dest, PrefixOf(database[c]))
             f == files[Entry(k)]
         IN  /\ ToSet(f) = {d \in 1..N : Slash(Dest, PrefixOf(database[d])) = k}
             /\ \A i, j \in DOMAIN f : i < j => f[i] < f[j]

\* Loop and tasks together are SplitCdb with the folders that the paths of the
\* database determine: each command is pushed once, in order, to the array of
\* its own key, and the process ends.
ImplementsSplitCdb == Out!FairSpec
=============================================================================

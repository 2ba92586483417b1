--------------------------- MODULE RewriteCommand ---------------------------
(***************************************************************************)
(* The body of the grouping loop of DoSplitCommand (src/commands.cpp): one *)
(* compile command, a JSON object, is moved from the super-project at      *)
(* aosp_base_path into the sub-project that owns its file.  One step per   *)
(* member, one per element of "arguments".                                 *)
(***************************************************************************)
EXTENDS Paths, Strings

CONSTANTS
  Base,       \* aosp_base_path
  Dest,       \* dest_folder
  Projects,   \* the path attributes inserted into the trie
  Commands,   \* the JSON objects: "file", and "directory" and "arguments"
              \* where the object has them
  Existing    \* the directories that exist when fs::exists asks

VARIABLES
  original,   \* the object as parsed
  command,    \* the object now
  prefix,     \* the local variables of the loop body
  compiler,
  arg,        \* the element of "arguments" to be looked at next
  pc,
  key         \* the commands_map entry it is pushed to

vars == <<original, command, prefix, compiler, arg, pc, key>>

Has(member) == member \in DOMAIN command

TypeOK ==
  /\ DOMAIN command = DOMAIN original
  /\ Has("arguments") => Len(command.arguments) = Len(original.arguments)
  /\ compiler \in BOOLEAN
  /\ arg \in 1..(IF Has("arguments") THEN Len(command.arguments) + 1 ELSE 1)
  /\ pc \in {"prefix", "directory", "file", "arguments", "push", "done", "died"}

Init ==
  /\ original \in Commands
  /\ command = original
  /\ prefix = <<>>
  /\ compiler = TRUE
  /\ arg = 1
  /\ pc = "prefix"
  /\ key = <<>>

\* The nodes of the trie after BuildFromXMLs.
Nodes == {<<>>} \cup UNION {Prefixes(Segments(TurnBackslashes(p))) : p \in Projects}

\* What module Trie proves of SearchPrefix: the longest prefix in the tree.
Longest(file) ==
  CHOOSE q \in Prefixes(Segments(file)) \cap Nodes :
    \A o \in Prefixes(Segments(file)) \cap Nodes : Len(o) <= Len(q)

\* The prefix that the command o is given.
PrefixOf(o) == Joined(Longest(o.file))

\* const auto prefix = trie.SearchPrefix(command["file"].GetString())
MSearchFlaggedOnly ==
  /\ pc = "prefix" /\ Has("file")
  /\ LET owners == {q \in Prefixes(Segments(command.file)) :
                      \E p \in Projects : q = Segments(TurnBackslashes(p))}
     IN  prefix' = IF owners = {} THEN <<>>
                   ELSE Joined(CHOOSE q \in owners : \A o \in owners : Len(o) <= Len(q))
  /\ pc' = "directory"
  /\ UNCHANGED <<original, command, compiler, arg, key>>

SearchPrefix ==
  /\ pc = "prefix" /\ Has("file")
  /\ prefix' = PrefixOf(command)
  /\ pc' = "directory"
  /\ UNCHANGED <<original, command, compiler, arg, key>>

\* A command without "file": operator[] fails its assertion or, without
\* asserts, gives a null value, whose string is a null pointer.
NoFile ==
  /\ pc = "prefix" /\ ~Has("file")
  /\ pc' = "died"
  /\ UNCHANGED <<original, command, prefix, compiler, arg, key>>

MSetDirectoryAlways ==
  /\ pc = "directory"
  /\ command' = [m \in DOMAIN command \cup {"directory"} |->
                   IF m = "directory" THEN Slash(Base, prefix) ELSE command[m]]
  /\ pc' = "file"
  /\ UNCHANGED <<original, prefix, compiler, arg, key>>

SetDirectory ==
  /\ pc = "directory"
  /\ IF Has("directory")
     THEN command' = [command EXCEPT !.directory = Slash(Base, prefix)]
     ELSE UNCHANGED command
  /\ pc' = "file"
  /\ UNCHANGED <<original, prefix, compiler, arg, key>>

\* string_replace(s, prefix, ".")
WithoutPrefix(s) == Replaced(s, prefix, <<".">>, -1)

MKeepFile ==
  /\ pc = "file"
  /\ pc' = IF Has("arguments") THEN "arguments" ELSE "push"
  /\ UNCHANGED <<original, command, prefix, compiler, arg, key>>

SetFile ==
  /\ pc = "file"
  /\ command' = [command EXCEPT !.file = WithoutPrefix(@)]
  /\ pc' = IF Has("arguments") THEN "arguments" ELSE "push"
  /\ UNCHANGED <<original, prefix, compiler, arg, key>>

Argument == command.arguments[arg]

\* The loop over "arguments" has an element to look at.
AtArgument == pc = "arguments" /\ arg <= Len(command.arguments)

SetArgument(s) ==
  /\ command' = [command EXCEPT !.arguments[arg] = s]
  /\ arg' = arg + 1
  /\ UNCHANGED <<original, prefix, pc, key>>

\* The first element is the compiler.
SetCompiler ==
  /\ AtArgument /\ compiler
  /\ SetArgument(Slash(Base, Argument))
  /\ compiler' = FALSE

\* arg_str.find(prefix) != npos, which an empty prefix always satisfies.
Mentions(s) == prefix = <<>> \/ Occurrences(s, prefix) # {}

ReplaceInArgument ==
  /\ AtArgument /\ ~compiler
  /\ Mentions(Argument)
  /\ SetArgument(WithoutPrefix(Argument))
  /\ UNCHANGED compiler

IsInclude(s) == string_starts_with(s, <<"-I">>)

\* arg_str.substr(2), under aosp_base_path
NewPath == Slash(Base, Tail(Argument))

ResolveInclude ==
  /\ AtArgument /\ ~compiler
  /\ ~Mentions(Argument)
  /\ IsInclude(Argument) /\ Entry(NewPath) \in Existing
  /\ SetArgument(<<"-I">> \o NewPath)
  /\ UNCHANGED compiler

\* fs::exists throws where it cannot tell, as below a directory that may not be
\* searched, and nobody catches it.
ExistsThrows ==
  /\ AtArgument /\ ~compiler
  /\ ~Mentions(Argument)
  /\ IsInclude(Argument)
  /\ pc' = "died"
  /\ UNCHANGED <<original, command, prefix, compiler, arg, key>>

KeepArgument ==
  /\ AtArgument /\ ~compiler
  /\ ~Mentions(Argument)
  /\ IsInclude(Argument) => Entry(NewPath) \notin Existing
  /\ SetArgument(Argument)
  /\ UNCHANGED compiler

ArgumentsDone ==
  /\ pc = "arguments" /\ ~AtArgument
  /\ pc' = "push"
  /\ UNCHANGED <<original, command, prefix, compiler, arg, key>>

\* commands_map[dest_folder / prefix].PushBack(command.Move(), ...)
Push ==
  /\ pc = "push"
  /\ key' = Slash(Dest, prefix)
  /\ pc' = "done"
  /\ UNCHANGED <<original, command, prefix, compiler, arg>>

\* All steps but the last.
Rewrite ==
  \/ SearchPrefix \/ SetDirectory \/ SetFile
  \/ SetCompiler \/ ReplaceInArgument \/ ResolveInclude \/ KeepArgument
  \/ ArgumentsDone

Next == Rewrite \/ NoFile \/ ExistsThrows \/ Push

Spec == Init /\ [][Next]_vars

-----------------------------------------------------------------------------
\* The directory entry that a path of an original command denotes, which is
\* relative to the super-project, and one of the rewritten command n.
Before(s)   == Entry(Slash(Base, s))
After(n, s) == Entry(Slash(n.directory, s))

\* The prefix p, if there is one, occurs in the path s exactly at its start.  It
\* is not the root directory, whose slash is part of the name behind it.
Leads(s, p) == p = <<>> \/ (Occurrences(s, p) = {1} /\ p # <<"/">>)

\* In an argument of the form -I<path>, p occurs at most at the start of the
\* path, and there as whole names: -Iart_x does not lie in art.
OnlyLeads(s, p) ==
  \/ p = <<>>
  \/ /\ Occurrences(s, p) \subseteq {2}
     /\ \A k \in Occurrences(s, p) : k + Len(p) > Len(s) \/ s[k + Len(p)] = "/"

\* README.md:105 says that -b is there to correct the path mapping of the
\* commands: each of them still compiles the same source.
EveryFileRelocated ==
  pc = "done" /\ Has("directory") => After(command, command.file) = Before(original.file)
=============================================================================

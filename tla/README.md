# Specifications of db-splitter

db-splitter (`src/`) takes the `compile_commands.json` of a whole
repo-managed super-project and the repo manifests that name its projects, and
writes one `compile_commands.json` per project. These modules model the program
from its command line to its exit status, TLC checks them on small instances,
and TLAPS proves the main results for every value of the constants.

    tlasany M.tla                        parse
    tlc -config X.cfg M                  check
    tlapm M.tla                          prove (Lemmas, StringReplaceProofs, TrieProofs, TrieOwnershipProofs,
                                         SplitCdbProofs, DoSplitProofs, SplitCommandProofs, SharedMmapProofs)

`PROJECT.json` lists components, runs, mutants, the lines each definition
models, findings, hazards and theorems.

## The system

| component | state | operations | interaction |
|---|---|---|---|
| `Trie` (`trie.hpp`) | nodes with children and an `end` flag | Insert, SearchPrefix, Search; ToString; move, swap, destructor | filled by BuildFromXMLs, asked once per command |
| `BuildFromXMLs` (`xml_trie.hpp`) | none | one Insert per `<project path=...>` | rapidxml, whose exceptions and null pointers pass through |
| `string_replace` and helpers (`util.hpp`) | none | replace, starts with, ends with | called on every file and argument |
| `MmapLargeFile` (`util.hpp`) | a private mapping | open, fstat, mmap | its buffer is parsed in place, so that all JSON strings live in it |
| grouping loop (`commands.cpp:245-304`) | `command_arr`, `commands_map` | rewrites a command, moves it to the array of its folder | Trie, string_replace, file system |
| writers (`commands.cpp:308-325`) | one `FILE` and offset per task, the files | one TBB task per folder: mkdir, open, write, close | share the file system, and the cancellation of TBB |
| `SplitCommand`, `main` (`commands.cpp:41-157`, `main.cpp`) | options, the destination folder | checks arguments, empties the destination, runs the split | everything above; exit status |
| `mio::basic_mmap` (`mio.hpp`) | mapping, lengths, handle, who opened it | map by path or handle, unmap, move, swap, destroy | system calls; reads the database in builds without `SP_USE_OS_API` |
| `mio::basic_shared_mmap` (`mio.hpp`) | a `shared_ptr` to a basic_mmap on the heap | copy, move, swap, take over a basic_mmap, map, unmap, destroy | several holders share one mapping; the last one destroys it |

Outside `src/`: the argument parser (args), rapidjson, rapidxml, oneTBB, the C++
file system library, and POSIX. They appear only through the outcomes `src/` can
observe.

What is hard about it, and what makes each part correct:

- **Trie.** Each insertion changes nodes and flags that others have made, so an
  answer depends on the whole history. Correct: every answer is a function of the
  insertions alone (`PrefixIndex`), the nodes are the inserted paths and their
  prefixes, and a flag means *inserted and not passed through since*.
- **string_replace.** Matches overlap, the replacement may contain the pattern,
  the pattern may be empty. Correct: it computes a closed form, and ends.
- **Rewriting.** The prefix is replaced wherever it occurs. Correct: the rewritten
  command names the same source and the same include directories, as far as the
  prefix occurs only where it was found.
- **Grouping and writing.** Tasks run in parallel, I/O fails at any call, one
  failing task cancels the others, a null `FILE` kills the process. Correct: no
  command is lost or duplicated, files do not mix, what is on disk is at any time a
  beginning of what belongs there, and a finished file is whole.
- **The run.** The old output is removed before the inputs are read, the status of
  the split is dropped, and a library may throw past `main`. Correct: a run that is
  rejected, or dies while it looks, changes nothing; a split that succeeds never leaves
  an old output behind; its silence and status 0 together mean that the output was written.
- **The tree of a Trie.** Raw pointers, moved, swapped and freed by hand, and an
  insertion that may throw between two nodes. Correct: each node has one owner and
  is freed once, and each object has a value of its own.
- **basic_mmap, basic_shared_mmap.** Resources of two kinds with different owners,
  and objects with several holders. Correct: each resource is released once, by
  its owner; a failed call changes nothing; a holder is not disturbed by others.

## The modules

| module | models | extends / instantiates |
|---|---|---|
| `PrefixIndex` | what a Trie promises: a log of insertions determines every answer | |
| `Trie` | Insert, SearchPrefix, Search, a step per loop iteration | `Index == INSTANCE PrefixIndex` |
| `Paths` | `std::filesystem::path` on POSIX: iteration, `operator/`, the entry a path denotes | |
| `Strings` | string operations as closed forms | |
| `StringReplace` | the loop of `string_replace` | `Strings` |
| `RewriteCommand` | the body of the grouping loop for one command, a step per member and argument | `Strings`, `Paths` |
| `Distribution` | what DoSplitCommand promises of the folders | |
| `SplitCdb` | `commands_map` and the parallel writers, with failing I/O | `Split == INSTANCE Distribution` |
| `DoSplit` | the grouping loop around its body, and the tasks: from the parsed database to the files | `RewriteCommand`, `Out == INSTANCE SplitCdb` |
| `SplitRun` | what a run promises who sees its status, its error lines and the destination | |
| `SplitCommand` | one run of the program | `Run == INSTANCE SplitRun` |
| `TrieValues` | tries as values: no nodes, no pointers | |
| `TrieOwnership` | the nodes of several tries on the heap | `Values == INSTANCE TrieValues` |
| `Mmap` | objects of `mio::basic_mmap`, the handles and the regions they own | |
| `SharedMmap` | holders that share such objects | `Mmap` |
| `Lemmas` | lemmas: least numbers, `FlattenSeq`, prefixes, the operators of `Paths` and `Strings` | `Paths`, `Strings` |
| `StringReplaceProofs`, `TrieProofs`, `TrieOwnershipProofs`, `SplitCdbProofs`, `DoSplitProofs`, `SplitCommandProofs`, `SharedMmapProofs` | theorems | extend the module they are named after; DoSplitProofs has `Tasks == INSTANCE SplitCdbProofs`; StringReplaceProofs and DoSplitProofs extend `Lemmas` too, TrieOwnershipProofs has `Data == INSTANCE Lemmas` |
| `MC*` | instances for TLC | |

How state and actions correspond to the code:

- **Trie.** A node is named by its segments from the root, so `children.find` is
  membership of `nodes`. `current`, `call` and `path` are the running method's
  locals. `Enter` is the entry of a method (only Insert turns backslashes, so the
  constants `Slashed` and `Parts` give the strings after and before it). `argument` and `log` are
  histories: what an insertion should have put into the tree is computed from the string
  that the caller passed, not from the segments that the loop goes through. `AddSegment`, `Descend` are one iteration; `*Returns` the return. The tree of
  one object is here what it contains; where it lies is TrieOwnership.
- **RewriteCommand.** `pc` walks the members in the order of the code; a command
  is a function over its members, so that HasMember is a domain test. A string is
  a sequence of tokens, each a separator, a dot or a piece of a file name, which is
  exactly fine enough for a prefix to occur inside a name.
  `Longest` is what `Trie` shows of SearchPrefix. A command without `file` ends the
  process (`NoFile`): an assertion of rapidjson in Debug, a null string in Release. So does
  `fs::exists` when it throws (`ExistsThrows`).
- **SplitCdb.** `Group` is one iteration (commands are numbers in database order,
  `dests[c]` the key of c, chosen in Init). A task is `waiting`, `ready` (folder
  made), `open`, `closed` or `failed`; `off` is the offset of its `FILE`, `done`
  the commands handed to `Accept`. At most `Workers` tasks run. A write puts one
  command at the offset; the 64 KB buffer is not modelled, so that a file shows
  each command at once where the code shows it in blocks of commands: the files
  between two flushes are the only difference, and a torn file is torn at a
  command. `Faults` says which calls may fail. `At` is the directory entry a key
  names, which may be the same for two keys. `GroupDies` is an iteration that meets
  a command without `file`, or an include directory that cannot be looked up, when
  `Faults` has "command".
- **DoSplit.** `NextCommand` is the head of the loop, with `compiler` set anew;
  RewriteCommand's steps are the body; `PushCommand` is its last statement, in
  which the key is made and the command moved. The tasks are SplitCdb's, with the
  keys and directories that the paths of the projects give. Files hold commands by
  number, `rewritten[c]` is the text behind the number. `dests` is a history
  variable: the folder that the path of each command determines, known before the
  loop has found it.
- **SplitCommand.** `pc` follows SplitCommand and DoSplitCommand; `options`, `disk`,
  `cdb`, `base`, `dest`, `inside` are what the user gives and what is on disk,
  chosen in Init; `inside` says which inputs lie in the destination. `Parse` is the argument
  parser with its outcomes: help and completion, which `main` turns into status 0, and the
  errors. `OpenFolder` and `ScanFolder` are the folder of -d, `FilesystemThrows` is any look
  at a file that throws. A step ends
  the process by `Exit` (a status and a line on stderr), `Die` (abort or a bad
  access) or `ReturnError` (a line, but status 0). The grouping loop and the tasks
  are one step here, with the outcomes SplitCdb has. Undefined behaviour is a
  choice: reading beyond a mapping without a terminator crashes, fails to parse or
  goes on; a Release build uses an object as an array. SplitRun sees `exit`,
  `reported`, `dest`, `outputs`, whether a split was asked for, and of `pc` only whether the
  checks are over.
- **TrieOwnership.** `children[n]` is the hash map of node n, `root_[t]` the pointer
  of object t, `frames` the stack of deleteTrie: the node of each call and the
  children its loop has not visited. `Assign` is the copy-and-swap assignment with
  its argument moved from u, also u = t; `AssignNew` is `t = Trie()`. In C++17 the
  right side of `children[segmentStr] = new TrieNode()` is evaluated first, so that
  a throw leaves no entry, but may lose the node (`leaked`). A Trie that was moved
  from has no root: using it is `UseMovedFrom`, which crashes. `call.before` is the
  tree when the insertion began, which is its value to others until it ends.
- **Mmap.** One call is one action: an object is not used by two threads. A pointer
  is a region and a displacement, arithmetic is modulo `Word`; munmap releases a
  region only when called with its start and its pages. `open` may return any free
  number, including one just closed. On Windows a region stands for the view and
  its mapping object, which all functions treat together.
- **SharedMmap.** A holder is a basic_shared_mmap or a `shared_ptr` that it gave
  away; the reference count is the number of holders. `Become` is every assignment
  of `pimpl_`: the object of which the last holder lets go (`Abandoned`) is destroyed.
  Objects on the heap are reached through holders only. `MapFirst` is make_mmap and
  the move to the heap, with `MapFirstFails` before it.

## Runs

Every passing run checks that there is no deadlock, except where the modelled
program ends and says `CHECK_DEADLOCK FALSE` for that: StringReplace, SplitCdb,
DoSplit and SplitCommand return or die, and TrieOwnership ends with a crash or
with a heap that is lost.

| run | instance | shows |
|---|---|---|
| `trie` | 7 strings with either separator, 3 insertions | answers are those of PrefixIndex, nodes and flags are right in every state, calls return |
| `string_replace` | two characters, strings up to 5, up to 2 replacements or all | the loop computes `Replaced`; each iteration shortens the rest |
| `do_split` | databases of 2 commands: 9 files, 9 arguments, with and without each member, 3 projects, one nested, one with a backslash | source, compiler and includes are the same as before, each project's folder has the commands of its files, whole and in order, each command is in the deepest folder it can be in, and loop and tasks implement SplitCdb |
| `split` | 4 commands, 3 keys, 2 threads, mkdir, open and write may fail, a command may end the loop | no mixing; every file is a beginning of its folder's commands, whole unless the process crashed or its own write was lost; all commands output; implements Distribution |
| `split_command` | 2 manifests and another file, lists of up to 2, any folder of them, limit 1, help | a run that is rejected, shows help or dies while it looks changes nothing, a split that succeeds leaves no old output, silence means output, the limit of a folder, implements SplitRun |
| `shared_mmap` | 3 objects, 2 holders, 2 handles, 3 regions, 4-bit size_t, pages of 4 bytes, file of 6 | ownership of handles and regions of shared and other objects, the strong guarantee, bytes in the file, holders undisturbed |
| `trie_ownership` | 2 tries, 4 nodes, paths of up to 2 segments | one owner for each node, also while nodes are freed; one way to each node; values of their own; insertion and deletion end |

Why the bounds are enough. Three insertions suffice for a path, one through it and
one again; the strings share prefixes, differ in backslashes and trailing slashes,
and one is absolute. Strings of five characters hold two overlapping matches of
length two and one of three. Three keys on two threads leave one waiting, which
is what cancellation is about; four commands make a group with two, where tearing
and order show. The limit of a folder is 100 in the code and 1 here, with two
files to exceed it. Two commands are an iteration that leaves something behind and
one that might meet it (`compiler`, `prefix`), in one folder or two. Two objects
are what moves and swaps relate, and a third can belong to nobody or to
another holder; a third region is needed because `map` makes the new mapping before
removing the old one, and with pages of four bytes offset 7 and length 15 wrap
around to a valid range. Four nodes are two roots with a child each, or a root with
a fork or a chain, beside a node that was lost.

Violation runs, each a disagreement between the code and what it, its README or
its tests say:

| run | property | what happens |
|---|---|---|
| `trie_search_doc` | SearchFindsInserted | a path inserted before a longer one is not found |
| `rewrite_file_doc` | EveryFileRelocated | `art/art_m.c` of project `art` becomes `./._m.c` |
| `split_alias_doc` | EveryCommandIsOutput | projects `art` and `./art` have two keys and one file |
| `folder_limit_doc` | FolderIsRead | of a folder with more manifests than the limit, some are not read |
| `mmap_leak_doc` | HandlesReturned | a failing map by path leaves its handle open |

Fairness. `Trie`, `TrieOwnership`: weak fairness of the steps inside a method, which
is sequential code without a wait; a caller need not call. `SplitCdb`, `DoSplit`
and `SplitCommand`: weak fairness of the whole next-state relation, which is that
the process is scheduled and that no I/O call blocks for ever. Fairness per task
is not needed since tasks only shrink what is left to do. There is no other
fairness.

## Proofs

`TrieProofs` (for any set of strings and segments, any number of insertions; it
assumes `TrieAssumption`, that `Slashed` and `Parts` are functions into strings and
sequences of segments). The inductive invariant `IInv` adds to TypeOK that
`current` is a prefix of `path`, that Insert's `path` is that of its argument with the
backslashes turned, that the nodes are exactly the covered paths
and, while Insert runs, those walked down so far, and that the flags are exactly
the listed paths except those walked through. The two middle states of an
insertion are why `NodesAreCovered` alone is not inductive, and quantifying over all
sequences rather than `Known` ones is what lets a step at a new node use them.
From it follow `TypeCorrect`, `NodesCorrect`, `EndCorrect` and
`TrieImplementsIndex`, the safety part of the refinement: a returning method is a
step of PrefixIndex, every other step stutters.

`SplitCdbProofs` (for any number of commands, keys, threads and any faults;
`SplitCdbAssumption`). `IInv` relates the counters of a task to its state and
the groups, and the phases to the tasks: that `off` and `done` differ only
after a lost write, that a closed task has written its whole group, that a
finished run has only closed tasks, and that no task has begun while the loop
runs, so that a process which dies there has no task running. `GroupsCorrect` follows for
all keys. `TasksSeparate`, `FilesNotTorn`, `OutputIsComplete` and `SplitImplementsDistribution` need
`NoAlias`, different keys name different directories: `split_alias_doc` shows that
without it they are false. `FilesNotTorn` is about what the files hold, also after a lost
write: `FilesOwn` says that a file has only commands of its own folder, whatever was lost,
and TasksSeparate that without a loss it has those handed to `fwrite`.

`SplitCommandProofs` (for any names of files, any positive limit, with and
without asserts; `SplitCommandAssumption`). `IInv` ties each promise to how far the
run is: up to the step that empties the destination (`Checking`) the destination is
as it was found (`Untouched`), past it (`Late`) the old output is gone, a split returns
status 0 only there, and only its last step returns it without an error line
(`Fresh`). For the folder of manifests it adds what holds during the iteration: the
limit is not reached while entries are left, and an XML file not yet known is
among them (`Scanned`). `FolderCapped` says nothing before the iteration is over, so
it is not inductive without that. All five invariants of `split_command`
follow. For `CommandImplementsRun`, that every run is one of SplitRun's, it adds
`Discarded`: while the run goes on, destination and outputs are as they were found
until the checks are over, and from there to the tasks there is no output; that is
why what the tasks leave is new. A step of the checks maps to `Warn`, `Reject`, a stutter or, in
PrepareDest, `Discard`; a step after them to the end of a run.

`DoSplitProofs` proves `LoopImplementsSplitCdb`: for any projects, databases,
directories and threads, the loop with its body and the tasks implements SplitCdb
without its fairness. `LoopInv` says that while a command is rewritten, it has the
members of the element that `next` points to and, once the prefix is known, it is
that of this element's path, from which `dests[next]` was computed, so that `PushCommand` appends to the array SplitCdb
appends to; the other steps of the body stutter. `Tasks` is SplitCdbProofs for the
keys and directories of the projects: its theorems give `LoopAndTasksCorrect` (groups in order, and no torn file if `NoAlias`), and
its lemmas on steps, with `FilesRead` (a command behind the loop had a path),
`DatabaseIsOutput`, from the parsed database to the files on disk. `NoAlias` is part
of what FoldersComplete claims and no assumption of that theorem.
`TypeCorrect` says that `arguments` keeps its length while the loop over it changes
its elements. `DoSplitAssumption` is that the databases are arrays of N commands
whose arguments are arrays, and that paths and arguments are sequences of tokens, with the
assumptions of SplitCdb.

What the loop does to the text is `RewrittenInv`: in the middle of a command, the members
and arguments it has come to are those the code computes from the element as the
database had it (`NewDirectory`, `NewFile`, `NewArgument`), the others are unchanged, and
`compiler` is true exactly at the first argument; a command behind the loop is rewritten
throughout (`RewrittenTo`). None of the three properties of the text is inductive, as a
half rewritten command satisfies none. `FilesCorrect` and `ArgumentsCorrect` then are
facts of `Lemmas` about one command: "." in place of the prefix, read from `base / prefix`,
names the same entry. `ProjectsCorrect` needs the tasks too: `MovedInv` puts RewrittenInv
together with the invariants of SplitCdbProofs, among them that a file with a command in it is that of a
task (`FilesHaveTasks`), and the nodes of the trie are made of whole names, so that a
command's folder lies below a project's folder exactly if its file does (`PathOf`). That it
is the deepest one is `NodeOfFile`: every node on the way to the file leads to the longest.

What these three leave out is where the code is wrong or where nothing says what is right.
The prefix must occur in a file's path only at its
start, and must not be the root directory (`Leads`); in `-I` only at the start of the path and as whole
names (`OnlyLeads`: `-Iart_x` of project `art` becomes `-I._x`); the base of
`ArgumentsRelocated` must be absolute, since the compiler is written relative to the base and
read from the new directory; and `ProjectsServed` is about projects with relative paths, as a manifest has,
and folders that are different directories (`NoAlias`). These are parts of the
properties, not assumptions of the theorems.

`SharedMmapProofs` (for any objects, holders, handles, regions and files, any page
size, a range of size_t of an even number of pages and more than twice the file; `MmapAssumption` and
`SharedMmapAssumption`). The inductive invariant is a predicate on the members, the regions,
the open handles and the lost ones, not only on the variables: a call of the
library is a composition of pieces (a member moved, two swapped, one released, a
new mapping taken), and the states between two pieces satisfy it too, so that each
piece is proved once. That munmap hits its region is arithmetic on pages: the
displacement of `data_` is less than a page, and rounding the sum of both lengths
gives the pages that mmap gave, whether or not offset + length wrapped around.
Holders are one lemma (`BecomeKeeps`) for every assignment of `pimpl_`. That an
object on the heap is one that somebody holds (`HeapIsHeld`) is `std::shared_ptr`'s doing,
as `Become` and `Abandoned` describe it, and a part of the invariant only. All seven
properties of `shared_mmap` follow, those of Mmap with them.

`Lemmas` has what the proofs need to know of data. The library's induction theorems take an
operator as parameter, which the provers cannot instantiate. `LeastNat`, every
set of numbers has a least element, takes a set instead and follows from
the finite sets: a lemma on all sequences or paths is proved on the shortest
one for which it fails. That is also how a recursive function is shown to exist, and to have
the values its recursion says (`FlattenIs`, `EntryIsKeep`, `JoinedIs`). On this rest the
lemmas on paths: the names of `p / q` are those of p and then those of q
(`NamesSplit`, `EntrySlash`), the names of what `Joined` makes of names are these names
(`SegmentsJoined`), and a prefix whose occurrence is whole names is a prefix of the segments
(`RelocateLemma`, `Boundary`). And those on strings: what `Replaced` is where the pattern
occurs once, and where it does not (`ReplacedOne`, `ReplacedNone`).

`StringReplaceProofs` (for any characters, lengths and counts; `StringReplaceAssumption`).
`Replaced` is defined by a set of matches, of which no two overlap and one of which
any other match overlaps from the right. There is such a set (`ScanExists`). The inductive invariant says that the loop
has come to the end of a prefix of the input that cuts no taken match in two, that
what is in `result` is the text of the images of that prefix, and that `k` is the count
less the matches in it: `find` from there is then the next match of the set, also when
the pattern overlaps itself. All three properties of `string_replace` follow.

`TrieOwnershipProofs` (for any objects, heap and paths; `OwnershipAssumption`: paths
are closed under leaving out the last segment, as the prefixes that Insert makes are, and
`Destroyed`, `MovedFrom` and `NoCall` are no content and no call).
There are three inductive invariants, one on top of the other.

- `IInv`: one object, one entry of a node above that deleteTrie has not come to, or
  one running deleteTrie leads to each node in use; freed and lost nodes have
  no entries, so that a place used again starts without children; Insert and
  deleteTrie never run at once. `OneOwner` follows, without any order on the nodes.
- `Forest`: the nodes can be given paths such that a child's is one segment longer
  than its parent's, a root's is empty, and that of the node Insert has come to is
  what it has gone through. So there is no cycle that owns itself, which `IInv` does not
  exclude. With both, each node has one way (`WayExists` by induction on the
  length of its path, `WayUnique` on that of the way), which is `NodesOwned`. Ways are
  `Trails`, suffixes of paths, and not paths: the subtree of a child that deleteTrie has
  yet to visit is below the rest of a path.
- `PlaceInv`: while Insert runs, the segments so far lead to `current`, and the
  tree of its object is `Walked(before, path, done)`; a place that is free has no flag,
  so that a new node has none; a crash meets no running call. From it follows
  `OwnershipImplementsValues`: construction, moves, assignment, swap and
  destruction are each the step of TrieValues, the iterations of Insert and
  deleteTrie stutter, and the return or the exception of Insert is the step that changes
  the value. Two trees share no node (`TreesApart`) and one trail leads to each (`TrailUnique`), so
  that setting a flag changes one path of one object.

Model-checked only: liveness, which is out of this prover's reach: the fairness halves of
`ImplementsIndex`, `ImplementsDistribution`, `ImplementsSplitCdb` and `ImplementsRun`, and
`Returns`. All invariants and action properties of
the passing runs are theorems.

## Not modelled

- Trie::ToString, MeasureRunningTime, the printed statistics: output that changes
  no state. ReadLargeFile: nothing calls it.
- The string traits of mio: choices of the compiler.
- The Windows and stream readers in DoSplitCommand. POSIX builds always define
  `SP_USE_OS_API` (CMakeLists.txt:69-71); without it util.hpp:91-120 still uses
  `open` and `mmap`. What mio does when it is used is Mmap and SharedMmap.
- JSON, XML and arguments as text: the outcomes of the parsers are enumerated, those of
  args with help and completion, which are one. That a folder of -d without any `.xml` file
  reaches the assertion at commands.cpp:83 is modelled (ManifestsParsed) and harmless
  to the destination (RejectionChangesNothing).
- That nobody is told of a short write: the model has it (`LoseCommand`, "short"), NoTornFile
  confines it to its own file, and no document says that it should be reported.
- For a map that fails on an object that is mapped, mio.hpp says two things: "as if this
  function hadn't been called" (337-338, 1584-1585) and "remains in an unmapped state"
  (342-343, 1589-1590). The code and its comment at 1096-1099 do the first, which is what
  FailureChangesNothing states; the second is true of an object that was not mapped.
- What a lone `-I` should be: it becomes `-I<base>/`, and no document says what it should become.
- Objects shared through `get_shared_ptr` and then moved from directly, and one
  object of mio used by two threads: the class leaves both to its user.
- Symbolic links, and other processes that change the files during a run.

## Plan

Every module of the code's own logic is modelled and every safety property of the runs
is proved. What is left: a run of RewriteCommand with a relative base and with prefixes
inside an argument, once a document says what these should become; and shorter proofs
in `Lemmas`, where the same induction is laid out for several recursive functions.

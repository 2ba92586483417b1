---------------------------- MODULE SplitCommand ----------------------------
(***************************************************************************)
(* One run of db-splitter split: main (src/main.cpp), SplitCommand with    *)
(* parseManifestFiles (src/commands.cpp), BuildFromXMLs (xml_trie.hpp),    *)
(* MmapLargeFile (util.hpp), and DoSplitCommand around the two stages that *)
(* RewriteCommand and SplitCdb model, on a POSIX build.  What the user     *)
(* gives, and what is on disk, is chosen in Init.                          *)
(***************************************************************************)
EXTENDS Integers, FiniteSets, SequencesExt

CONSTANTS
  XmlFile,     \* names with the extension .xml
  OtherFile,   \* names without it
  Limit,       \* MANIFEST_FILES_LIMIT_SIZE
  Asserts      \* a Debug build: assert is not compiled away

ASSUME SplitCommandAssumption ==
  /\ XmlFile \cap OtherFile = {}
  /\ Limit \in Nat \ {0}
  /\ Asserts \in BOOLEAN

File == XmlFile \cup OtherFile

\* consts.h, main's own code, and the statuses a shell shows for a process
\* that abort (a failed assert, an uncaught exception) or a bad access ended.
ErrNotExist == 2
ErrNotValid == 22
ErrParse    == 1
Running     == -1
Aborted     == 134
Crashed     == 139
Rejections  == {ErrParse, ErrNotExist, ErrNotValid}

\* What a manifest can be.
ManifestKind == {"missing", "malformed", "no root", "no path", "projects"}

\* What the file given with -c can be; "unterminated" is an array whose size
\* is a multiple of the page size.
CdbKind == {"missing", "no json", "empty", "malformed", "object", "array", "unterminated"}

Options == [flag : {"x"}, files : SeqOf(File, 2) \ {<<>>}]
           \cup [flag : {"d"}, entries : SUBSET File]
           \cup [flag : {"d missing", "none", "both", "help"}]

VARIABLES
  options,    \* -x or -d, or -h or --complete
  disk,       \* disk[f]: what the manifest f is
  base,       \* aosp_base_path is a directory with a .repo
  cdb,        \* what the file given with -c is
  found,      \* what dest was before the run
  dest,       \* "absent", "file", "empty", or "full"
  inside,     \* the inputs that lie in the destination folder
  outputs,    \* compile_commands.json files there: "none", "old" (an
              \* earlier run's), "part", "short" (all closed, but a write to one
              \* failed), "all"
  manifest_files,
  entries,    \* the directory entries not iterated yet
  at,         \* the manifest looked at next
  reported,   \* an error line was printed
  pc, exit

env  == <<options, base, found, inside>>
vars == <<options, disk, base, cdb, found, dest, inside, outputs, manifest_files,
          entries, at, reported, pc, exit>>

TypeOK ==
  /\ options \in Options
  /\ disk \in [File -> ManifestKind]
  /\ base \in BOOLEAN
  /\ cdb \in CdbKind
  /\ {found, dest} \subseteq {"absent", "file", "empty", "full"}
  /\ inside \in SUBSET {"cdb", "manifests"}
  /\ outputs \in {"none", "old", "part", "short", "all"}
  /\ manifest_files \in Seq(File)
  /\ entries \in SUBSET File
  /\ at \in 1..(Len(manifest_files) + 1)
  /\ reported \in BOOLEAN
  /\ exit \in {Running, 0, ErrParse, ErrNotExist, ErrNotValid, Aborted, Crashed}

Given(o) == IF o.flag = "x" THEN ToSet(o.files) ELSE IF o.flag = "d" THEN o.entries ELSE {}

\* Files that are not given do not matter, nor what is in one without .xml.
Init ==
  /\ options \in Options
  /\ disk \in [File -> ManifestKind]
  /\ \A f \in File \ Given(options) : disk[f] = "missing"
  /\ \A f \in OtherFile : disk[f] \in {"missing", "projects"}
  /\ base \in BOOLEAN
  /\ cdb \in CdbKind
  /\ found \in {"absent", "file", "empty", "full"}
  /\ dest = found
  /\ inside \in SUBSET {"cdb", "manifests"}
  /\ inside # {} => dest = "full"
  /\ outputs = IF dest = "full" THEN "old" ELSE "none"
  /\ manifest_files = <<>>
  /\ entries = {}
  /\ at = 1
  /\ reported = FALSE
  /\ pc = "parse"
  /\ exit = Running

Exists(f) == disk[f] # "missing"

\* exit(code), after a line on stderr.
Exit(code) == exit' = code /\ reported' = TRUE /\ UNCHANGED pc

\* abort or a bad access; neither prints anything of the program's own.
Die(status) == exit' = status /\ UNCHANGED <<pc, reported>>

Go(next) == pc' = next /\ UNCHANGED <<exit, reported>>

At(label) == exit = Running /\ pc = label

\* parser.Parse(): the Xor group wants exactly one of -x and -d; -h and
\* --complete throw before that is asked, and main prints a text and returns 0.
Parse ==
  /\ At("parse")
  /\ \/ options.flag \in {"none", "both"} /\ Exit(ErrParse) /\ UNCHANGED manifest_files
     \/ options.flag = "help" /\ exit' = 0 /\ UNCHANGED <<pc, reported, manifest_files>>
     \/ options.flag = "x" /\ Go("manifests") /\ manifest_files' = options.files
     \/ options.flag \in {"d", "d missing"} /\ Go("dir") /\ UNCHANGED manifest_files
  /\ UNCHANGED <<env, disk, cdb, dest, outputs, entries, at>>

\* The folder given with -d: its check, and the iterator over it.
OpenFolder ==
  /\ At("dir")
  /\ \/ options.flag = "d missing" /\ Exit(ErrNotValid) /\ UNCHANGED entries
     \/ options.flag = "d" /\ Go("folder") /\ entries' = {f \in options.entries : Exists(f)}
  /\ UNCHANGED <<env, disk, cdb, dest, outputs, manifest_files, at>>

\* A function of fs that looks at a file or steps through the folder throws,
\* past main, which catches the errors of args only.
FilesystemThrows ==
  /\ exit = Running
  /\ \/ pc = "manifests" /\ at <= Len(manifest_files)
     \/ pc \in {"dir", "folder", "base", "cdb", "dest"}
  /\ Die(Aborted)
  /\ UNCHANGED <<env, disk, cdb, dest, outputs, manifest_files, entries, at>>

\* The loop over the files given with -x.
MCheckManifestSkips ==
  /\ At("manifests")
  /\ at <= Len(manifest_files)
  /\ LET f == manifest_files[at] IN
       IF ~Exists(f) THEN Exit(ErrNotExist) /\ UNCHANGED at
       ELSE IF f \notin XmlFile THEN Exit(ErrNotValid) /\ UNCHANGED at
       ELSE at' = at + 2 /\ UNCHANGED <<pc, exit, reported>>
  /\ UNCHANGED <<env, disk, cdb, dest, outputs, manifest_files, entries>>

CheckManifest ==
  /\ At("manifests")
  /\ at <= Len(manifest_files)
  /\ LET f == manifest_files[at] IN
       IF ~Exists(f) THEN Exit(ErrNotExist) /\ UNCHANGED at
       ELSE IF f \notin XmlFile THEN Exit(ErrNotValid) /\ UNCHANGED at
       ELSE at' = at + 1 /\ UNCHANGED <<pc, exit, reported>>
  /\ UNCHANGED <<env, disk, cdb, dest, outputs, manifest_files, entries>>

\* One entry of the folder given with -d, in the order readdir has them.
MScanCapLate ==
  /\ At("folder")
  /\ \E f \in entries :
       LET files == IF f \in XmlFile THEN Append(manifest_files, f) ELSE manifest_files IN
         /\ manifest_files' = files
         /\ entries' = IF f \in XmlFile /\ Len(files) > Limit THEN {} ELSE entries \ {f}
  /\ UNCHANGED <<env, disk, cdb, dest, outputs, at, reported, pc, exit>>

ScanFolder ==
  /\ At("folder")
  /\ \E f \in entries :
       LET files == IF f \in XmlFile THEN Append(manifest_files, f) ELSE manifest_files IN
         /\ manifest_files' = files
         /\ entries' = IF f \in XmlFile /\ Len(files) >= Limit THEN {} ELSE entries \ {f}
  /\ UNCHANGED <<env, disk, cdb, dest, outputs, at, reported, pc, exit>>

\* assert(manifest_files.size() > 0), then manifest_files[0]: with the assert
\* compiled away it is read from an empty vector.
ManifestsParsed ==
  /\ \/ At("manifests") /\ at > Len(manifest_files)
     \/ At("folder") /\ entries = {}
  /\ IF manifest_files = <<>>
     THEN Die(IF Asserts THEN Aborted ELSE Crashed)
     ELSE Go("base")
  /\ at' = 1
  /\ UNCHANGED <<env, disk, cdb, dest, outputs, manifest_files, entries>>

\* What fs::remove_all(dest_folder) does to the folder and to inputs in it.
EmptiedDest ==
  /\ dest' = "absent"
  /\ outputs' = "none"
  /\ cdb' = IF "cdb" \in inside THEN "missing" ELSE cdb
  /\ disk' = IF "manifests" \in inside THEN [f \in File |-> "missing"] ELSE disk

\* The base path is only complained about.
MCheckBaseErases ==
  /\ At("base")
  /\ pc' = "cdb"
  /\ reported' = (reported \/ ~base)
  /\ IF dest = "full" THEN EmptiedDest ELSE UNCHANGED <<dest, outputs, cdb, disk>>
  /\ UNCHANGED <<env, manifest_files, entries, at, exit>>

CheckBase ==
  /\ At("base")
  /\ pc' = "cdb"
  /\ reported' = (reported \/ ~base)
  /\ UNCHANGED <<env, disk, cdb, dest, outputs, manifest_files, entries, at, exit>>

CheckCdb ==
  /\ At("cdb")
  /\ IF cdb \in {"missing", "no json"} THEN Exit(ErrNotValid) ELSE Go("dest")
  /\ UNCHANGED <<env, disk, cdb, dest, outputs, manifest_files, entries, at>>

\* The destination is created, or removed with all that is in it; remove_all
\* may throw half-way.
MPrepareKeeps ==
  /\ At("dest")
  /\ IF dest = "file" THEN Exit(ErrNotValid) ELSE Go("build")
  /\ dest' = IF dest = "absent" THEN "empty" ELSE dest
  /\ UNCHANGED <<env, disk, cdb, outputs, manifest_files, entries, at>>

PrepareDest ==
  /\ At("dest")
  /\ \/ /\ dest = "absent"
        /\ dest' = "empty"
        /\ Go("build")
        /\ UNCHANGED <<disk, cdb, outputs>>
     \/ /\ dest = "file"
        /\ Exit(ErrNotValid)
        /\ UNCHANGED <<disk, cdb, dest, outputs>>
     \/ /\ dest = "empty"
        /\ Go("build")
        /\ UNCHANGED <<disk, cdb, dest, outputs>>
     \/ /\ dest = "full"
        /\ EmptiedDest
        /\ Go("build")
     \/ /\ dest = "full"
        /\ outputs' = "none"
        /\ Die(Aborted)
        /\ UNCHANGED <<disk, cdb, dest>>
  /\ UNCHANGED <<env, manifest_files, entries, at>>

\* BuildFromXMLs, one manifest: a file that is gone or malformed throws past
\* main, a missing root or path attribute is a null pointer that is used.
MBuildStays ==
  /\ At("build")
  /\ at <= Len(manifest_files)
  /\ LET kind == disk[manifest_files[at]] IN
       \/ kind \in {"missing", "malformed"} /\ Die(Aborted)
       \/ kind \in {"no root", "no path"} /\ Die(Crashed)
       \/ kind = "projects" /\ UNCHANGED <<pc, exit, reported>>
  /\ UNCHANGED <<env, disk, cdb, dest, outputs, manifest_files, entries, at>>

BuildFromXML ==
  /\ At("build")
  /\ at <= Len(manifest_files)
  /\ LET kind == disk[manifest_files[at]] IN
       \/ kind \in {"missing", "malformed"} /\ Die(Aborted) /\ UNCHANGED at
       \/ kind \in {"no root", "no path"} /\ Die(Crashed) /\ UNCHANGED at
       \/ kind = "projects" /\ at' = at + 1 /\ UNCHANGED <<pc, exit, reported>>
  /\ UNCHANGED <<env, disk, cdb, dest, outputs, manifest_files, entries>>

TrieBuilt ==
  /\ At("build")
  /\ at > Len(manifest_files)
  /\ Go("map")
  /\ UNCHANGED <<env, disk, cdb, dest, outputs, manifest_files, entries, at>>

\* DoSplitCommand returns an error, which SplitCommand drops: main returns 0.
ReturnError == exit' = 0 /\ reported' = TRUE /\ UNCHANGED pc

\* MmapLargeFile: open fails on a missing file, mmap on an empty one.
MapCdb ==
  /\ At("map")
  /\ IF cdb \in {"missing", "empty"} THEN ReturnError ELSE Go("json")
  /\ UNCHANGED <<env, disk, cdb, dest, outputs, manifest_files, entries, at>>

\* ParseInsitu.  A buffer without a terminator is read past its last page: a
\* bad access, or whatever is mapped there.
ParseCdb ==
  /\ At("json")
  /\ \/ cdb \in {"object", "array", "unterminated"} /\ Go("array")
     \/ cdb \in {"malformed", "unterminated"} /\ ReturnError
     \/ cdb = "unterminated" /\ Die(Crashed)
  /\ UNCHANGED <<env, disk, cdb, dest, outputs, manifest_files, entries, at>>

\* assert(doc.IsArray()) and GetArray, which without asserts takes the members
\* of an object for elements.
GetArray ==
  /\ At("array")
  /\ \/ (cdb = "object" => ~Asserts) /\ Go("split")
     \/ cdb = "object" /\ Die(IF Asserts THEN Aborted ELSE Crashed)
  /\ UNCHANGED <<env, disk, cdb, dest, outputs, manifest_files, entries, at>>

\* The grouping loop and the parallel writers, as module SplitCdb has them
\* end: every file closed, or some when a task throws or the process dies.
\* A task makes its folder before its file; without commands there is none.
MDistributeSwallows ==
  /\ At("split")
  /\ outputs' \in {"none", "part", "short", "all"}
  /\ dest' \in {dest, "full"}
  /\ outputs' \in {"part", "short"} => dest' = "full"
  /\ Go("unmap")
  /\ UNCHANGED <<env, disk, cdb, manifest_files, entries, at>>

DistributeCommands ==
  /\ At("split")
  /\ outputs' \in {"none", "part", "short", "all"}
  /\ dest' \in {dest, "full"}
  /\ outputs' \in {"part", "short"} => dest' = "full"
  /\ \/ outputs' \in {"short", "all"} /\ Go("unmap")
     \/ Die(Aborted)
     \/ Die(Crashed)
  /\ UNCHANGED <<env, disk, cdb, manifest_files, entries, at>>

\* munmap; the result goes where every other result goes.
UnmapCdb ==
  /\ At("unmap")
  /\ \/ exit' = 0 /\ UNCHANGED <<pc, reported>>
     \/ ReturnError
  /\ UNCHANGED <<env, disk, cdb, dest, outputs, manifest_files, entries, at>>

Next ==
  \/ Parse \/ OpenFolder \/ FilesystemThrows
  \/ CheckManifest \/ ScanFolder \/ ManifestsParsed
  \/ CheckBase \/ CheckCdb \/ PrepareDest
  \/ BuildFromXML \/ TrieBuilt \/ MapCdb \/ ParseCdb \/ GetArray
  \/ DistributeCommands \/ UnmapCdb

Spec == Init /\ [][Next]_vars

\* The program runs until it exits.
FairSpec == Spec /\ WF_vars(Next)

-----------------------------------------------------------------------------
\* The user asked for a split, not for a text.
Asked == options.flag # "help"

Checking == {"parse", "manifests", "dir", "folder", "base", "cdb", "dest"}

\* A run that rejects its arguments, shows its help, or dies while it looks at
\* what it was given (on a folder without manifests, or when fs throws) has
\* changed nothing on disk: all of that comes before the destination is
\* emptied, however many checks passed before the one that failed.
RejectionChangesNothing ==
  exit \in Rejections \/ (exit # Running /\ pc \in Checking \ {"dest"}) =>
    dest = found /\ (found = "full" <=> outputs = "old")

\* The compile_commands.json files that a split with exit status 0 leaves in
\* the destination are its own, never those of an earlier run.
NothingStale == Asked /\ exit = 0 => outputs # "old"

\* main returns 0 even when DoSplitCommand fails, so that only the printed
\* lines tell: a split that ends with 0 and printed no error has written to
\* and closed the file of every folder.  It may be short: nothing looks at
\* what fwrite returns.
SilenceMeansOutput == Asked /\ exit = 0 /\ ~reported => outputs \in {"short", "all"}

\* The folder of manifests has been iterated.
FolderKnown == options.flag = "d" /\ pc \notin {"parse", "dir", "folder"}

\* Of a folder, manifest_files has only .xml files, each once, as many as the
\* limit allows: the others are left out only when it is reached.
FolderCapped ==
  FolderKnown =>
    /\ Len(manifest_files) <= Limit
    /\ IsInjective(manifest_files)
    /\ ToSet(manifest_files) \subseteq XmlFile \cap options.entries
    /\ \/ Len(manifest_files) = Limit
       \/ \A f \in XmlFile \cap options.entries : Exists(f) => f \in ToSet(manifest_files)

Run == INSTANCE SplitRun WITH
         asked <- Asked,
         stage <- IF pc \in Checking THEN "checking" ELSE "working",
         Deaths <- {Aborted, Crashed}

\* All the user sees of a run is one of the runs that SplitRun allows: nothing
\* is changed before the last check, nothing is checked after the old output
\* is discarded, only help leaves the old output with status 0, and every run
\* ends.
ImplementsRun == Run!Spec

\* README.md:104: with -d, db-splitter finds all manifest files of the folder.
FolderIsRead ==
  FolderKnown => \A f \in XmlFile \cap options.entries : Exists(f) => f \in ToSet(manifest_files)
=============================================================================

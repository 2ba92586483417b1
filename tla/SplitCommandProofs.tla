------------------------- MODULE SplitCommandProofs -------------------------
(***************************************************************************)
(* Theorems about SplitCommand, for any files, any limit, and Debug and    *)
(* Release builds.                                                         *)
(***************************************************************************)
EXTENDS SplitCommand, SequenceTheorems, TLAPS

Statuses == Rejections \cup {Running, 0, Aborted, Crashed}

\* The labels after the one that empties the destination.
Late  == {"build", "map", "json", "array", "split", "unmap"}

\* No manifest is known before the options are parsed, the two ways to give
\* them do not meet, and help ends the run at once.
ByOption ==
  /\ pc \in {"parse", "dir"} => manifest_files = <<>>
  /\ pc = "manifests" => options.flag = "x"
  /\ pc = "dir" => options.flag \in {"d", "d missing"}
  /\ pc = "folder" => options.flag = "d"
  /\ ~Asked => pc = "parse"

\* A process that has not come past "dest", and was not killed there, has
\* left the destination as it was.
Untouched ==
  /\ exit \in Rejections => pc \in Checking
  /\ (pc \in Checking /\ (exit \in Rejections \cup {Running} \/ pc # "dest")) =>
       dest = found /\ (found = "full" <=> outputs = "old")

\* Past "dest" the old output is gone; a split returns status 0 only past it,
\* and without an error line only at the end, when the files are closed.
Fresh ==
  /\ pc \in Late => outputs # "old"
  /\ pc = "unmap" => outputs \in {"short", "all"}
  /\ (Asked /\ exit = 0) => pc \in Late
  /\ (Asked /\ exit = 0 /\ ~reported) => pc = "unmap"

\* While the folder is read, what is not known yet is still to be iterated,
\* what is known is not, and nothing is once the limit is reached.
Scanned(files, rest) ==
  /\ Len(files) <= Limit
  /\ IsInjective(files)
  /\ ToSet(files) \subseteq XmlFile \cap options.entries
  /\ rest \subseteq options.entries
  /\ ToSet(files) \cap rest = {}
  /\ rest # {} => Len(files) < Limit
  /\ \/ Len(files) = Limit
     \/ \A f \in XmlFile \cap options.entries : Exists(f) => f \in ToSet(files) \cup rest

FolderScanned == pc = "folder" => Scanned(manifest_files, entries)

IInv ==
  /\ TypeOK
  /\ pc \in Checking \cup Late
  /\ ByOption
  /\ Untouched
  /\ Fresh
  /\ FolderScanned
  /\ FolderCapped

(***************************************************************************)
(* The statuses are different numbers.                                     *)
(***************************************************************************)
LEMMA StatusFacts ==
  /\ ErrParse = 1 /\ ErrNotExist = 2 /\ ErrNotValid = 22
  /\ Running = -1 /\ Aborted = 134 /\ Crashed = 139
BY DEF ErrParse, ErrNotExist, ErrNotValid, Running, Aborted, Crashed

(***************************************************************************)
(* What the options say of the manifests.                                  *)
(***************************************************************************)
LEMMA OptionFacts ==
  ASSUME options \in Options
  PROVE  /\ options.flag \in {"x", "d", "d missing", "none", "both", "help"}
         /\ options.flag = "x" => options.files \in Seq(File)
         /\ options.flag = "d" => options.entries \in SUBSET File
<1>1. SeqOf(File, 2) \subseteq Seq(File)
  <2>1. \A m \in 0..2 : m \in Nat
    OBVIOUS
  <2>2. QED
    BY <2>1, SeqDef, Zenon DEF SeqOf
<1>2. QED
  BY <1>1 DEF Options

LEMMA AppendFacts ==
  ASSUME NEW S, NEW g \in Seq(S), NEW c \in S
  PROVE  /\ Append(g, c) \in Seq(S)
         /\ Len(g) \in Nat /\ Len(Append(g, c)) = Len(g) + 1
         /\ ToSet(Append(g, c)) = ToSet(g) \cup {c}
         /\ (IsInjective(g) /\ c \notin ToSet(g)) => IsInjective(Append(g, c))
<1> DEFINE h == Append(g, c)
<1>1. /\ h \in Seq(S)
      /\ Len(g) \in Nat /\ Len(h) = Len(g) + 1
      /\ DOMAIN g = 1..Len(g) /\ DOMAIN h = 1..(Len(g) + 1)
      /\ h[Len(g) + 1] = c
      /\ \A i \in 1..Len(g) : h[i] = g[i]
  OBVIOUS
<1> HIDE DEF h
<1>2. ToSet(h) = ToSet(g) \cup {c}
  BY <1>1 DEF ToSet
<1>3. (IsInjective(g) /\ c \notin ToSet(g)) => IsInjective(h)
  BY <1>1 DEF IsInjective, ToSet
<1>4. QED
  BY <1>1, <1>2, <1>3 DEF h

LEMMA InitIInv ==
  ASSUME SplitCommandAssumption, Init
  PROVE  IInv
<1> USE DEF Init
<1>1. TypeOK
  <2>1. <<>> \in Seq(File) /\ 1 \in 1..(Len(<<>>) + 1)
    OBVIOUS
  <2>2. outputs \in {"none", "old", "part", "short", "all"}
    OBVIOUS
  <2>3. {found, dest} \subseteq {"absent", "file", "empty", "full"}
    OBVIOUS
  <2>4. exit \in {Running, 0, ErrParse, ErrNotExist, ErrNotValid, Aborted, Crashed}
    OBVIOUS
  <2>5. manifest_files \in Seq(File) /\ entries \in SUBSET File
    BY <2>1
  <2>6. at \in 1..(Len(manifest_files) + 1) /\ reported \in BOOLEAN
    BY <2>1
  <2>7. QED
    BY <2>2, <2>3, <2>4, <2>5, <2>6 DEF TypeOK
<1>2. pc \in Checking \cup Late /\ ByOption
  BY DEF Checking, ByOption, Asked
<1>3. Untouched /\ Fresh
  BY StatusFacts DEF Untouched, Fresh, Checking, Late, Rejections
<1>4. FolderScanned /\ FolderCapped
  BY DEF FolderScanned, FolderCapped, FolderKnown
<1>5. QED
  BY <1>1, <1>2, <1>3, <1>4 DEF IInv

(***************************************************************************)
(* What is known of the manifests is kept by every step that leaves them,  *)
(* and what is on disk, alone.                                             *)
(***************************************************************************)
LEMMA ManifestsKept ==
  ASSUME FolderCapped, UNCHANGED <<options, manifest_files>>,
         \A f \in File : Exists(f)' => Exists(f),
         pc \notin {"parse", "dir", "folder"}
  PROVE  FolderCapped'
<1>1. (XmlFile \cap options.entries) \subseteq File
  BY DEF File
<1>2. QED
  BY <1>1 DEF FolderCapped, FolderKnown

LEMMA ParseIInv ==
  ASSUME SplitCommandAssumption, IInv, Parse
  PROVE  IInv'
<1>1. /\ pc = "parse" /\ exit = Running /\ manifest_files = <<>>
      /\ UNCHANGED <<env, disk, cdb, dest, outputs, entries, at>>
      /\ options \in Options
  BY DEF Parse, At, IInv, ByOption, TypeOK
<1>2. \/ /\ options.flag = "x" /\ pc' = "manifests" /\ exit' = Running /\ reported' = reported
         /\ manifest_files' = options.files
      \/ /\ options.flag \in {"d", "d missing"} /\ pc' = "dir"
         /\ exit' = Running /\ reported' = reported /\ manifest_files' = <<>>
      \/ /\ pc' = "parse" /\ exit' = ErrParse /\ reported' = TRUE /\ manifest_files' = <<>>
      \/ /\ options.flag = "help" /\ pc' = "parse" /\ exit' = 0 /\ reported' = reported
         /\ manifest_files' = <<>>
  BY <1>1 DEF Parse, Go, Exit
<1>3. TypeOK'
  <2>1. manifest_files' \in Seq(File) /\ reported' \in BOOLEAN
    BY <1>1, <1>2, OptionFacts DEF IInv, TypeOK
  <2>2. at' \in 1..(Len(manifest_files') + 1)
    <3>1. Len(manifest_files) = 0
      BY <1>1
    <3>2. Len(manifest_files') \in Nat
      BY <2>1
    <3>3. at \in 1..(0 + 1)
      BY <3>1 DEF IInv, TypeOK
    <3>4. QED
      BY <1>1, <3>2, <3>3
  <2>3. exit' \in {Running, 0, ErrParse, ErrNotExist, ErrNotValid, Aborted, Crashed}
    BY <1>2
  <2>4. QED
    BY <1>1, <2>1, <2>2, <2>3 DEF IInv, TypeOK, env
<1>4. pc' \in Checking \cup Late /\ ByOption'
  BY <1>1, <1>2 DEF Checking, ByOption, Asked, env
<1>5. dest = found /\ (found = "full" <=> outputs = "old")
  BY <1>1 DEF IInv, Untouched, Checking
<1>6. Untouched'
  BY <1>1, <1>2, <1>5 DEF Untouched, Checking, Rejections, env
<1>7. Fresh'
  <2>1. options' = options
    BY <1>1 DEF env
  <2>2. pc' \in {"parse", "manifests", "dir"}
    BY <1>2
  <2>3. exit' = 0 => options.flag = "help"
    BY <1>2, StatusFacts
  <2>4. QED
    BY <2>1, <2>2, <2>3 DEF Fresh, Late, Asked
<1>8. FolderScanned' /\ FolderCapped'
  BY <1>1, <1>2 DEF FolderScanned, FolderCapped, FolderKnown, env
<1>9. QED
  BY <1>3, <1>4, <1>6, <1>7, <1>8 DEF IInv

LEMMA OpenFolderIInv ==
  ASSUME SplitCommandAssumption, IInv, OpenFolder
  PROVE  IInv'
<1>1. /\ pc = "dir" /\ exit = Running /\ manifest_files = <<>> /\ Asked
      /\ UNCHANGED <<env, disk, cdb, dest, outputs, manifest_files, at>>
      /\ options \in Options
  BY DEF OpenFolder, At, IInv, ByOption, TypeOK
<1>2. \/ /\ options.flag = "d" /\ pc' = "folder" /\ exit' = Running /\ reported' = reported
         /\ entries' = {f \in options.entries : Exists(f)}
      \/ /\ pc' = "dir" /\ exit' = ErrNotValid /\ reported' = TRUE /\ entries' = entries
  BY <1>1 DEF OpenFolder, Go, Exit
<1>3. TypeOK'
  BY <1>1, <1>2, OptionFacts DEF IInv, TypeOK, env
<1>4. pc' \in Checking \cup Late /\ ByOption'
  BY <1>1, <1>2 DEF IInv, Checking, ByOption, Asked, env
<1>5. Untouched'
  BY <1>1, <1>2 DEF IInv, Untouched, Checking, Rejections, env
<1>6. Fresh'
  BY <1>1, <1>2, StatusFacts DEF Fresh, Late
<1>7. FolderScanned'
  <2> SUFFICES ASSUME pc' = "folder"
               PROVE  Scanned(manifest_files, entries)'
    BY DEF FolderScanned
  <2>1. Len(manifest_files') = 0 /\ entries' = {f \in options.entries : Exists(f)}
    BY <1>1, <1>2
  <2>2. Len(manifest_files') < Limit /\ Len(manifest_files') <= Limit
    BY <2>1 DEF SplitCommandAssumption
  <2>3. \A f \in XmlFile \cap options.entries : Exists(f) => f \in entries'
    BY <2>1
  <2>4. IsInjective(manifest_files)' /\ ToSet(manifest_files') = {}
    BY <1>1 DEF IsInjective, ToSet
  <2>5. QED
    BY <1>1, <2>1, <2>2, <2>3, <2>4 DEF Scanned, Exists, env
<1>8. FolderCapped'
  BY <1>1, <1>2 DEF FolderCapped, FolderKnown
<1>9. QED
  BY <1>3, <1>4, <1>5, <1>6, <1>7, <1>8 DEF IInv

LEMMA ScanFolderIInv ==
  ASSUME SplitCommandAssumption, IInv, ScanFolder
  PROVE  IInv'
<1> USE DEF IInv, Asked, env
<1>1. /\ pc = "folder" /\ exit = Running /\ at \in Nat
      /\ UNCHANGED <<options, base, found, inside, disk, cdb, dest, outputs, at, reported,
                     pc, exit>>
      /\ manifest_files \in Seq(File)
  BY DEF ScanFolder, At, TypeOK, env
<1>2. PICK f \in entries :
        LET files == IF f \in XmlFile THEN Append(manifest_files, f) ELSE manifest_files IN
          /\ manifest_files' = files
          /\ entries' = IF f \in XmlFile /\ Len(files) >= Limit THEN {} ELSE entries \ {f}
  BY DEF ScanFolder
<1>3. f \in File /\ entries \in SUBSET File /\ entries # {}
  BY DEF TypeOK
<1>4. /\ Append(manifest_files, f) \in Seq(File)
      /\ Len(Append(manifest_files, f)) = Len(manifest_files) + 1
      /\ Len(manifest_files) \in Nat
      /\ ToSet(Append(manifest_files, f)) = ToSet(manifest_files) \cup {f}
      /\ (IsInjective(manifest_files) /\ f \notin ToSet(manifest_files)) =>
           IsInjective(Append(manifest_files, f))
  BY <1>1, <1>3, AppendFacts
<1>5. TypeOK'
  <2>1. manifest_files' \in Seq(File) /\ entries' \in SUBSET File
    BY <1>1, <1>2, <1>3, <1>4
  <2>2. at' \in 1..(Len(manifest_files') + 1)
    BY <1>1, <1>2, <1>4 DEF TypeOK
  <2>3. QED
    BY <1>1, <2>1, <2>2 DEF TypeOK
<1>6. ByOption' /\ Untouched' /\ Fresh'
  BY <1>1 DEF ByOption, Untouched, Fresh, Asked
<1>7. Scanned(manifest_files, entries)
  BY <1>1 DEF FolderScanned
<1>8. Limit \in Nat /\ Len(manifest_files) < Limit
  BY <1>3, <1>7 DEF Scanned, SplitCommandAssumption
<1>9. \A g \in XmlFile \cap options.entries : Exists(g) => g \in ToSet(manifest_files) \cup entries
  BY <1>4, <1>7, <1>8 DEF Scanned
<1>10. Scanned(manifest_files, entries)'
  <2>0. /\ IsInjective(manifest_files)'
        /\ ToSet(manifest_files') \subseteq XmlFile \cap options.entries
        /\ entries' \subseteq options.entries
        /\ ToSet(manifest_files') \cap entries' = {}
    BY <1>2, <1>4, <1>7 DEF Scanned
  <2>1. CASE f \in XmlFile
    <3>1. /\ Len(manifest_files') = Len(manifest_files) + 1
          /\ ToSet(manifest_files') = ToSet(manifest_files) \cup {f}
          /\ entries' = IF Len(manifest_files') >= Limit THEN {} ELSE entries \ {f}
      BY <1>2, <1>4, <2>1
    <3>2. /\ Len(manifest_files') <= Limit
          /\ entries' # {} => Len(manifest_files') < Limit
      BY <1>4, <1>8, <3>1
    <3>3. CASE Len(manifest_files') = Limit
      BY <1>1, <2>0, <3>2, <3>3 DEF Scanned
    <3>4. CASE Len(manifest_files') # Limit
      <4>1. entries' = entries \ {f}
        BY <1>4, <1>8, <3>1, <3>4
      <4>2. \A g \in XmlFile \cap options.entries :
              Exists(g) => g \in ToSet(manifest_files') \cup entries'
        BY <1>9, <3>1, <4>1
      <4>3. QED
        BY <1>1, <2>0, <3>2, <4>2 DEF Scanned, Exists
    <3>5. QED
      BY <3>3, <3>4
  <2>2. CASE f \notin XmlFile
    <3>1. manifest_files' = manifest_files /\ entries' = entries \ {f}
      BY <1>2, <2>2
    <3>2. \A g \in XmlFile \cap options.entries :
            Exists(g) => g \in ToSet(manifest_files') \cup entries'
      BY <1>9, <2>2, <3>1
    <3>3. Len(manifest_files') < Limit /\ Len(manifest_files') <= Limit
      BY <1>4, <1>8, <3>1
    <3>4. QED
      BY <1>1, <2>0, <3>2, <3>3 DEF Scanned, Exists
  <2>3. QED
    BY <2>1, <2>2
<1>11. FolderScanned' /\ FolderCapped'
  BY <1>1, <1>10 DEF FolderScanned, FolderCapped, FolderKnown
<1>12. QED
  BY <1>1, <1>5, <1>6, <1>11

(***************************************************************************)
(* The steps that decide how to go on, and change nothing but at.          *)
(***************************************************************************)
LEMMA StepTypeOK ==
  ASSUME TypeOK,
         UNCHANGED <<env, disk, cdb, dest, outputs, manifest_files, entries>>,
         at' \in 1..(Len(manifest_files) + 1),
         reported' \in BOOLEAN, exit' \in Statuses
  PROVE  TypeOK'
BY DEF TypeOK, env, Statuses, Rejections

LEMMA FilesystemThrowsIInv ==
  ASSUME IInv, FilesystemThrows
  PROVE  IInv'
<1> USE DEF IInv, Asked, env
<1>1. /\ exit = Running /\ exit' = Aborted
      /\ pc \in Checking \ {"parse"}
      /\ UNCHANGED <<env, disk, cdb, dest, outputs, manifest_files, entries, at, pc, reported>>
  BY DEF FilesystemThrows, Die, Checking
<1>2. TypeOK'
  BY <1>1, StepTypeOK DEF TypeOK, Statuses
<1>3. ByOption' /\ FolderScanned' /\ FolderCapped'
  BY <1>1 DEF ByOption, FolderScanned, Scanned, FolderCapped, FolderKnown, Exists, Asked, env
<1>4. Untouched' /\ Fresh'
  BY <1>1, StatusFacts DEF Untouched, Fresh, Checking, Late, Rejections, Asked, env
<1>5. QED
  BY <1>1, <1>2, <1>3, <1>4

LEMMA CheckManifestIInv ==
  ASSUME IInv, CheckManifest
  PROVE  IInv'
<1> USE DEF IInv, Asked, env
<1>0. Len(manifest_files) \in Nat /\ at \in 1..(Len(manifest_files) + 1) /\ reported \in BOOLEAN
  BY DEF TypeOK
<1>1. /\ pc = "manifests" /\ exit = Running /\ pc' = pc
      /\ at <= Len(manifest_files) /\ at' \in {at, at + 1}
      /\ reported' = TRUE \/ reported' = reported
      /\ exit' \in {Running, ErrNotExist, ErrNotValid}
      /\ UNCHANGED <<env, disk, cdb, dest, outputs, manifest_files, entries>>
  BY DEF CheckManifest, At, Exit
<1>2. TypeOK'
  <2>1. reported' \in BOOLEAN
    BY <1>0, <1>1
  <2>2. at' \in 1..(Len(manifest_files) + 1) /\ exit' \in Statuses
    BY <1>0, <1>1 DEF Statuses, Rejections
  <2>3. QED
    BY <1>1, <2>1, <2>2, StepTypeOK
<1>3. ByOption' /\ FolderScanned'
  BY <1>1 DEF ByOption, FolderScanned, env
<1>4. Untouched' /\ Fresh'
  BY <1>1, StatusFacts DEF Untouched, Fresh, Checking, Late, Rejections, env
<1>5. FolderCapped'
  BY <1>1, ManifestsKept DEF Exists, env
<1>6. QED
  BY <1>1, <1>2, <1>3, <1>4, <1>5

LEMMA ManifestsParsedIInv ==
  ASSUME IInv, ManifestsParsed
  PROVE  IInv'
<1> USE DEF IInv, Asked, env
<1>1. /\ pc \in {"manifests", "folder"} /\ exit = Running
      /\ pc = "folder" => entries = {}
      /\ at' = 1 /\ reported' = reported
      /\ \/ pc' = pc /\ exit' \in {Aborted, Crashed}
         \/ pc' = "base" /\ exit' = Running
      /\ UNCHANGED <<env, disk, cdb, dest, outputs, manifest_files, entries>>
  BY DEF ManifestsParsed, At, Die, Go
<1>2. TypeOK'
  <2>1. Len(manifest_files) \in Nat /\ reported' \in BOOLEAN
    BY <1>1 DEF TypeOK
  <2>2. at' \in 1..(Len(manifest_files) + 1) /\ exit' \in Statuses
    BY <1>1, <2>1 DEF Statuses
  <2>3. QED
    BY <1>1, <2>1, <2>2, StepTypeOK
<1>3. pc' \in Checking \cup Late /\ ByOption'
  BY <1>1 DEF ByOption, Checking, env
<1>4. Untouched' /\ Fresh'
  BY <1>1, StatusFacts DEF Untouched, Fresh, Checking, Late, Rejections, env
<1>5. FolderScanned'
  BY <1>1 DEF FolderScanned, Scanned, Exists, env
<1>6. FolderCapped'
  <2>1. CASE pc = "manifests"
    BY <1>1, <2>1, ManifestsKept DEF Exists, env
  <2>2. CASE pc = "folder"
    <3>1. Scanned(manifest_files, {})
      BY <1>1, <2>2 DEF FolderScanned
    <3>2. QED
      BY <1>1, <3>1 DEF FolderCapped, FolderKnown, Scanned, Exists, env
  <2>3. QED
    BY <1>1, <2>1, <2>2
<1>7. QED
  BY <1>2, <1>3, <1>4, <1>5, <1>6

LEMMA ArgumentsIInv ==
  ASSUME IInv, CheckBase \/ CheckCdb
  PROVE  IInv'
<1> USE DEF IInv, Asked, env
<1>1. /\ pc \in {"base", "cdb"} /\ exit = Running
      /\ \/ pc' = pc /\ exit' = ErrNotValid
         \/ pc' \in {"cdb", "dest"} /\ exit' = Running
      /\ reported' \in BOOLEAN
      /\ UNCHANGED <<env, disk, cdb, dest, outputs, manifest_files, entries, at>>
  BY DEF CheckBase, CheckCdb, At, Exit, Go, TypeOK
<1>2. TypeOK'
  BY <1>1, StepTypeOK DEF TypeOK, Statuses, Rejections
<1>3. pc' \in Checking \cup Late /\ ByOption' /\ FolderScanned'
  BY <1>1 DEF ByOption, FolderScanned, Checking
<1>4. Untouched' /\ Fresh'
  BY <1>1, StatusFacts DEF Untouched, Fresh, Checking, Late, Rejections, env
<1>5. FolderCapped'
  BY <1>1, ManifestsKept DEF Exists, env
<1>6. QED
  BY <1>2, <1>3, <1>4, <1>5

LEMMA PrepareDestIInv ==
  ASSUME IInv, PrepareDest
  PROVE  IInv'
<1> USE DEF IInv, Asked, env
<1>1. /\ pc = "dest" /\ exit = Running
      /\ UNCHANGED <<env, manifest_files, entries, at>>
      /\ dest' \in {dest, "empty", "absent"}
      /\ outputs' \in {outputs, "none"}
      /\ cdb' \in {cdb, "missing"}
      /\ disk' = disk \/ disk' = [f \in File |-> "missing"]
      /\ reported' \in {TRUE, reported}
      /\ \/ /\ pc' = "build" /\ exit' = Running
            /\ dest = "full" => outputs' = "none"
            /\ dest # "full" => outputs' = outputs
         \/ pc' = "dest" /\ exit' = ErrNotValid /\ dest' = dest /\ outputs' = outputs
         \/ pc' = "dest" /\ exit' = Aborted
  BY DEF PrepareDest, EmptiedDest, At, Exit, Go, Die
<1>2. TypeOK'
  <2>1. disk' \in [File -> ManifestKind] /\ cdb' \in CdbKind
    BY <1>1 DEF TypeOK, ManifestKind, CdbKind
  <2>2. /\ {found', dest'} \subseteq {"absent", "file", "empty", "full"}
        /\ outputs' \in {"none", "old", "part", "short", "all"}
        /\ reported' \in BOOLEAN
    BY <1>1 DEF TypeOK, env
  <2>3. exit' \in {Running, 0, ErrParse, ErrNotExist, ErrNotValid, Aborted, Crashed}
    BY <1>1
  <2>4. QED
    BY <1>1, <2>1, <2>2, <2>3 DEF TypeOK, env
<1>3. pc' \in Checking \cup Late /\ ByOption' /\ FolderScanned'
  BY <1>1 DEF ByOption, FolderScanned, Checking, Late
<1>4. dest = found /\ (found = "full" <=> outputs = "old")
  BY <1>1 DEF Untouched, Checking
<1>5. Untouched' /\ Fresh'
  BY <1>1, <1>4, StatusFacts DEF Untouched, Fresh, Checking, Late, Rejections, env
<1>6. FolderCapped'
  <2>1. \A f \in File : Exists(f)' => Exists(f)
    BY <1>1 DEF Exists
  <2>2. QED
    BY <1>1, <2>1, ManifestsKept DEF env
<1>7. QED
  BY <1>2, <1>3, <1>5, <1>6

(***************************************************************************)
(* The steps after the destination is emptied.                             *)
(***************************************************************************)
LEMMA BuildFromXMLIInv ==
  ASSUME IInv, BuildFromXML
  PROVE  IInv'
<1> USE DEF IInv, Asked, env
<1>0. Len(manifest_files) \in Nat /\ at \in 1..(Len(manifest_files) + 1) /\ reported \in BOOLEAN
  BY DEF TypeOK
<1>1. /\ pc = "build" /\ exit = Running /\ pc' = pc /\ reported' = reported
      /\ at <= Len(manifest_files) /\ at' \in {at, at + 1}
      /\ exit' \in {Running, Aborted, Crashed}
      /\ UNCHANGED <<env, disk, cdb, dest, outputs, manifest_files, entries>>
  BY DEF BuildFromXML, At, Die
<1>2. TypeOK'
  <2>1. at' \in 1..(Len(manifest_files) + 1) /\ exit' \in Statuses
    BY <1>0, <1>1 DEF Statuses
  <2>2. QED
    BY <1>0, <1>1, <2>1, StepTypeOK
<1>3. ByOption' /\ FolderScanned'
  BY <1>1 DEF ByOption, FolderScanned
<1>4. Untouched' /\ Fresh'
  BY <1>1, StatusFacts DEF Untouched, Fresh, Checking, Late, Rejections
<1>5. FolderCapped'
  BY <1>1, ManifestsKept DEF Exists, env
<1>6. QED
  BY <1>1, <1>2, <1>3, <1>4, <1>5

LEMMA LateIInv ==
  ASSUME IInv, TrieBuilt \/ MapCdb \/ ParseCdb \/ GetArray \/ UnmapCdb
  PROVE  IInv'
<1> USE DEF IInv, Asked, env
<1>1. /\ pc \in {"build", "map", "json", "array", "unmap"} /\ exit = Running
      /\ reported' = TRUE \/ reported' = reported
      /\ \/ pc' \in {"map", "json", "array", "split"} /\ exit' = Running
         \/ pc' = pc /\ exit' \in {Aborted, Crashed}
         \/ pc' = pc /\ exit' = 0 /\ (reported' = TRUE \/ pc = "unmap")
      /\ UNCHANGED <<env, disk, cdb, dest, outputs, manifest_files, entries, at>>
  BY DEF TrieBuilt, MapCdb, ParseCdb, GetArray, UnmapCdb, At, Die, Go, ReturnError
<1>2. TypeOK'
  <2>1. at' \in 1..(Len(manifest_files) + 1) /\ reported' \in BOOLEAN
    BY <1>1 DEF TypeOK
  <2>2. exit' \in Statuses
    BY <1>1 DEF Statuses
  <2>3. QED
    BY <1>1, <2>1, <2>2, StepTypeOK
<1>3. pc' \in Checking \cup Late /\ ByOption' /\ FolderScanned'
  BY <1>1 DEF ByOption, FolderScanned, Late
<1>4. Untouched' /\ Fresh'
  BY <1>1, StatusFacts DEF Untouched, Fresh, Checking, Late, Rejections
<1>5. FolderCapped'
  BY <1>1, ManifestsKept DEF Exists, env
<1>6. QED
  BY <1>2, <1>3, <1>4, <1>5

LEMMA DistributeCommandsIInv ==
  ASSUME IInv, DistributeCommands
  PROVE  IInv'
<1> USE DEF IInv, Asked, env
<1>1. /\ pc = "split" /\ exit = Running /\ reported' = reported
      /\ dest' \in {dest, "full"} /\ outputs' \in {"none", "part", "short", "all"}
      /\ \/ pc' = "unmap" /\ exit' = Running /\ outputs' \in {"short", "all"}
         \/ pc' = "split" /\ exit' \in {Aborted, Crashed}
      /\ UNCHANGED <<env, disk, cdb, manifest_files, entries, at>>
  BY DEF DistributeCommands, At, Die, Go
<1>2. TypeOK'
  <2>1. /\ {found', dest'} \subseteq {"absent", "file", "empty", "full"}
        /\ outputs' \in {"none", "old", "part", "short", "all"}
    BY <1>1 DEF TypeOK, env
  <2>2. exit' \in {Running, 0, ErrParse, ErrNotExist, ErrNotValid, Aborted, Crashed}
    BY <1>1
  <2>3. QED
    BY <1>1, <2>1, <2>2 DEF TypeOK, env
<1>3. pc' \in Checking \cup Late /\ ByOption' /\ FolderScanned'
  BY <1>1 DEF ByOption, FolderScanned, Late
<1>4. Untouched' /\ Fresh'
  BY <1>1, StatusFacts DEF Untouched, Fresh, Checking, Late, Rejections
<1>5. FolderCapped'
  BY <1>1, ManifestsKept DEF Exists, env
<1>6. QED
  BY <1>2, <1>3, <1>4, <1>5

LEMMA NextIInv ==
  ASSUME SplitCommandAssumption, IInv, [Next]_vars
  PROVE  IInv'
<1>1. CASE Next
  BY <1>1, ParseIInv, OpenFolderIInv, FilesystemThrowsIInv, CheckManifestIInv, ScanFolderIInv, ManifestsParsedIInv, ArgumentsIInv,
     PrepareDestIInv, BuildFromXMLIInv, LateIInv, DistributeCommandsIInv DEF Next
<1>2. CASE UNCHANGED vars
  <2>1. UNCHANGED <<options, disk, base, cdb, found, inside, dest, outputs, manifest_files,
                    entries, at, reported, pc, exit>>
    BY <1>2 DEF vars
  <2>2. TypeOK'
    BY <2>1 DEF IInv, TypeOK
  <2>3. ByOption' /\ Untouched' /\ Fresh'
    BY <2>1 DEF IInv, ByOption, Untouched, Fresh, Asked
  <2>4. FolderScanned' /\ FolderCapped'
    BY <2>1 DEF IInv, FolderScanned, Scanned, FolderCapped, FolderKnown, Exists
  <2>5. QED
    BY <2>1, <2>2, <2>3, <2>4 DEF IInv
<1>3. QED
  BY <1>1, <1>2

(***************************************************************************)
(* The inductive invariant holds of every run.                             *)
(***************************************************************************)
THEOREM InvariantHolds == Spec => []IInv
<1>1. Init => IInv
  BY InitIInv, SplitCommandAssumption
<1>2. IInv /\ [Next]_vars => IInv'
  BY NextIInv, SplitCommandAssumption
<1>3. QED
  BY <1>1, <1>2, PTL DEF Spec

(***************************************************************************)
(* Every variable of a run keeps its type: no loop runs past the vector of *)
(* manifests, and the process ends with one of the known statuses.         *)
(***************************************************************************)
THEOREM TypeCorrect == Spec => []TypeOK
<1>1. IInv => TypeOK
  BY DEF IInv
<1>2. QED
  BY <1>1, InvariantHolds, PTL

(***************************************************************************)
(* A run that ends with its arguments rejected, with help, or by a death   *)
(* before the destination is looked at has neither made nor emptied it,    *)
(* whatever it checked before.                                             *)
(***************************************************************************)
THEOREM RejectionsHarmless == Spec => []RejectionChangesNothing
<1>1. IInv => RejectionChangesNothing
  BY DEF IInv, Untouched, Rejections, RejectionChangesNothing
<1>2. QED
  BY <1>1, InvariantHolds, PTL

(***************************************************************************)
(* A split that ends with status 0 leaves no file of an earlier run.       *)
(***************************************************************************)
THEOREM NoStaleOutput == Spec => []NothingStale
<1>1. IInv => NothingStale
  BY DEF IInv, Fresh, NothingStale
<1>2. QED
  BY <1>1, InvariantHolds, PTL

(***************************************************************************)
(* Status 0 of a split without an error line means that every output file  *)
(* is closed.                                                              *)
(***************************************************************************)
THEOREM SilenceIsOutput == Spec => []SilenceMeansOutput
<1>1. IInv => SilenceMeansOutput
  BY DEF IInv, Fresh, SilenceMeansOutput
<1>2. QED
  BY <1>1, InvariantHolds, PTL

(***************************************************************************)
(* The folder given with -d is read up to the limit, whatever the limit    *)
(* and the order of the directory are, and wholly when it is below; no     *)
(* manifest of it is taken twice.                                          *)
(***************************************************************************)
THEOREM FolderIsCapped == Spec => []FolderCapped
<1>1. IInv => FolderCapped
  BY DEF IInv
<1>2. QED
  BY <1>1, InvariantHolds, PTL

(***************************************************************************)
(* For the refinement: as long as a run goes on, the destination holds the *)
(* old output up to the step that discards it, and then none, up to the    *)
(* step that writes the new one.                                           *)
(***************************************************************************)
Discarded ==
  exit = Running =>
    /\ pc \in Checking => /\ outputs = IF found = "full" THEN "old" ELSE "none"
                          /\ dest = found
    /\ pc \in Late \ {"unmap"} => outputs = "none"

LEMMA DiscardedKept ==
  ASSUME SplitCommandAssumption, IInv, Discarded, [Next]_vars
  PROVE  Discarded'
<1> USE StatusFacts DEF Checking, Late
<1>1. CASE UNCHANGED vars
  BY <1>1 DEF vars, env, Discarded
<1>2. CASE Parse \/ OpenFolder \/ CheckManifest \/ ScanFolder \/ ManifestsParsed
  BY <1>2 DEF Discarded, Parse, OpenFolder, CheckManifest, ScanFolder, ManifestsParsed, At, Go, Exit, Die, env
<1>3. CASE CheckBase \/ CheckCdb
  BY <1>3 DEF Discarded, CheckBase, CheckCdb, At, Go, Exit, env
<1>4. CASE PrepareDest
  <2>1. /\ exit = Running /\ pc = "dest" /\ dest = found
        /\ outputs = IF found = "full" THEN "old" ELSE "none"
    BY <1>4 DEF Discarded, PrepareDest, At
  <2>2. exit' # Running \/ (pc' = "build" /\ outputs' = "none")
    BY <1>4, <2>1 DEF PrepareDest, Go, Exit, Die, EmptiedDest
  <2>3. QED
    BY <2>2 DEF Discarded
<1>5. CASE BuildFromXML \/ TrieBuilt \/ MapCdb \/ ParseCdb \/ GetArray
  BY <1>5 DEF Discarded, BuildFromXML, TrieBuilt, MapCdb, ParseCdb, GetArray, At, Go, Die, ReturnError, env
<1>6. CASE DistributeCommands
  <2>1. exit' # Running \/ pc' = "unmap"
    BY <1>6 DEF DistributeCommands, Go, Die
  <2>2. QED
    BY <2>1 DEF Discarded
<1>7. CASE UnmapCdb
  BY <1>7 DEF Discarded, UnmapCdb, ReturnError
<1>8. CASE FilesystemThrows
  BY <1>8 DEF Discarded, FilesystemThrows, Die
<1>9. QED
  BY <1>1, <1>2, <1>3, <1>4, <1>5, <1>6, <1>7, <1>8 DEF Next

(***************************************************************************)
(* Only the step that parses the options can be one of a run for help.     *)
(***************************************************************************)
LEMMA AskedKept ==
  ASSUME IInv, Next
  PROVE  Asked' = Asked /\ (Parse \/ Asked)
<1>1. UNCHANGED options
  BY DEF Next, Parse, OpenFolder, FilesystemThrows, CheckManifest, ScanFolder, ManifestsParsed,
     CheckBase, CheckCdb, PrepareDest, BuildFromXML, TrieBuilt, MapCdb, ParseCdb, GetArray,
     DistributeCommands, UnmapCdb, env
<1>2. Parse \/ pc # "parse"
  BY DEF Next, OpenFolder, FilesystemThrows, CheckManifest, ScanFolder, ManifestsParsed,
     CheckBase, CheckCdb, PrepareDest, BuildFromXML, TrieBuilt, MapCdb, ParseCdb, GetArray,
     DistributeCommands, UnmapCdb, At
<1>3. QED
  BY <1>1, <1>2 DEF IInv, ByOption, Asked

LEMMA StepImplements ==
  ASSUME SplitCommandAssumption, IInv, Discarded, [Next]_vars
  PROVE  [Run!Next]_Run!vars
<1> DEFINE stage == IF pc \in Checking THEN "checking" ELSE "working"
<1>1. CASE UNCHANGED vars
  BY <1>1 DEF vars, env, Asked, Run!vars
<1>help. CASE Parse /\ ~Asked
  <2>1. /\ exit = Running /\ exit' = 0 /\ pc \in Checking
        /\ UNCHANGED <<dest, outputs, reported, pc>>
    BY <1>help DEF Parse, At, Checking, Asked
  <2>2. Asked' = Asked
    BY <1>help, AskedKept DEF Next
  <2>3. QED
    BY <1>help, <2>1, <2>2 DEF Run!Next, Run!ShowHelp
<1> DEFINE Outcome == Run!Warn \/ Run!Reject \/ Run!Discard \/ Run!Die \/ Run!Write \/ Run!Finish
<1>run. ASSUME Next, Asked, exit = Running, Outcome
      PROVE  Run!Next
  BY <1>run, AskedKept DEF Run!Next
<1> SUFFICES ASSUME Next, ~(Parse /\ ~Asked)
             PROVE  (exit = Running /\ Outcome) \/ UNCHANGED <<stage, dest, outputs, reported, exit>>
  BY <1>help, <1>1, <1>run, AskedKept DEF Run!vars
<1>asked. Asked
  BY AskedKept
<1> HIDE DEF Outcome
<1>2. CASE Parse \/ OpenFolder \/ CheckManifest \/ ScanFolder \/ CheckCdb
  <2>1. /\ exit = Running /\ pc \in Checking
        /\ UNCHANGED <<dest, outputs>>
        /\ \/ exit' \in Rejections /\ reported' = TRUE /\ pc' = pc
           \/ exit' = exit /\ reported' = reported /\ pc' \in Checking
    BY <1>2, <1>asked DEF Parse, OpenFolder, CheckManifest, ScanFolder, CheckCdb, At, Go, Exit,
       Checking, Rejections, Asked
  <2>2. QED
    BY <2>1 DEF Outcome, Run!Reject
<1>3. CASE FilesystemThrows \/ ManifestsParsed \/ BuildFromXML \/ TrieBuilt
  <2>1. /\ exit = Running
        /\ UNCHANGED <<dest, outputs, reported>>
        /\ stage' = stage
        /\ exit' \in {Aborted, Crashed} \/ exit' = exit
    BY <1>3 DEF FilesystemThrows, ManifestsParsed, BuildFromXML, TrieBuilt, At, Go, Die, Checking
  <2>2. QED
    BY <2>1 DEF Outcome, Run!Die
<1>4. CASE CheckBase
  <2>1. /\ exit = Running /\ exit' = exit /\ UNCHANGED <<dest, outputs>>
        /\ pc \in Checking /\ pc' \in Checking
        /\ reported \in BOOLEAN /\ base \in BOOLEAN
        /\ reported' = (reported \/ ~base)
    BY <1>4 DEF CheckBase, At, Checking, IInv, TypeOK
  <2>2. \/ reported' = reported
        \/ reported = FALSE /\ reported' = TRUE
    BY <2>1
  <2>3. QED
    BY <2>1, <2>2 DEF Outcome, Run!Warn
<1>5. CASE PrepareDest
  <2>1. /\ exit = Running /\ pc = "dest" /\ dest = found
        /\ outputs = IF found = "full" THEN "old" ELSE "none"
        /\ pc \in Checking /\ "build" \notin Checking
    BY <1>5 DEF Discarded, PrepareDest, At, Checking
  <2>2. CASE pc' = "build"
    <3>1. /\ dest # "file" /\ dest' \in {"absent", "empty"} /\ outputs' = "none"
          /\ UNCHANGED <<reported, exit>>
      BY <1>5, <2>1, <2>2, StatusFacts DEF PrepareDest, Go, Exit, Die, EmptiedDest
    <3>2. QED
      BY <2>1, <2>2, <3>1 DEF Outcome, Run!Discard
  <2>3. CASE pc' # "build"
    <3>1. /\ pc' = pc /\ dest' = dest
          /\ \/ exit' \in Rejections /\ reported' = TRUE /\ outputs' = outputs
             \/ exit' \in {Aborted, Crashed} /\ reported' = reported
                /\ outputs' \in {outputs, "none"}
      BY <1>5, <2>1, <2>3 DEF PrepareDest, Go, Exit, Die, Rejections
    <3>2. QED
      BY <2>1, <3>1 DEF Outcome, Run!Reject, Run!Die
  <2>4. QED
    BY <2>2, <2>3
<1>6. CASE MapCdb \/ ParseCdb \/ GetArray
  <2>1. /\ exit = Running /\ UNCHANGED <<dest, outputs>>
        /\ pc \notin Checking /\ pc' \notin Checking
        /\ \/ exit' = 0 /\ reported' = TRUE
           \/ exit' \in {Aborted, Crashed} /\ reported' = reported
           \/ exit' = exit /\ reported' = reported
    BY <1>6 DEF MapCdb, ParseCdb, GetArray, At, Go, Die, ReturnError, Checking
  <2>2. QED
    BY <2>1 DEF Outcome, Run!Finish, Run!Die
<1>7. CASE DistributeCommands
  <2>1. /\ exit = Running /\ outputs = "none" /\ UNCHANGED reported
        /\ pc \notin Checking /\ pc' \notin Checking
        /\ dest' \in {dest, "full"} /\ (outputs' \in {"part", "short"} => dest' = "full")
        /\ \/ outputs' \in {"short", "all"} /\ exit' = Running
           \/ outputs' \in {"none", "part", "short", "all"} /\ exit' \in {Aborted, Crashed}
    BY <1>7 DEF DistributeCommands, At, Go, Die, Checking, Late, Discarded
  <2>2. QED
    BY <2>1 DEF Outcome, Run!Write
<1>8. CASE UnmapCdb
  <2>1. /\ exit = Running /\ exit' = 0 /\ UNCHANGED <<dest, outputs, pc>>
        /\ pc \notin Checking
        /\ reported' = TRUE \/ reported' = reported
        /\ outputs \in {"short", "all"}
    BY <1>8 DEF UnmapCdb, At, ReturnError, Checking, IInv, Fresh
  <2>2. QED
    BY <2>1 DEF Outcome, Run!Finish
<1>9. QED
  BY <1>2, <1>3, <1>4, <1>5, <1>6, <1>7, <1>8 DEF Next

(***************************************************************************)
(* What the user sees of any run, its status, its error lines and the      *)
(* destination, is a run of SplitRun: the safety half of ImplementsRun.    *)
(***************************************************************************)
THEOREM CommandImplementsRun == Spec => Run!Safety
<1>1. Init => Run!Init /\ Discarded
  BY DEF Init, Run!Init, Discarded, Checking, Late, Asked
<1>2. IInv /\ Discarded /\ [Next]_vars => Discarded'
  BY DiscardedKept, SplitCommandAssumption
<1>3. IInv /\ Discarded /\ [Next]_vars => [Run!Next]_Run!vars
  BY StepImplements, SplitCommandAssumption
<1>4. QED
  BY <1>1, <1>2, <1>3, InvariantHolds, PTL DEF Spec, Run!Safety
=============================================================================

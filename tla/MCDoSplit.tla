------------------------------ MODULE MCDoSplit ------------------------------
(***************************************************************************)
(* Databases of two commands: every kind of command of MCRewriteCommand,   *)
(* or one without "file", before each of a few others, which go to the     *)
(* same folder or another, with and without arguments, and after one.      *)
(***************************************************************************)
EXTENDS DoSplit, MCRewriteCommand

Kinds == {
  [file |-> f, directory |-> BaseDir, arguments |-> << <<"cc">>, a>>] :
    f \in Files, a \in Arguments }
  \cup {[file |-> f, arguments |-> << <<"cc">>, <<"-I", "sys">> >>] : f \in Files}
  \cup {[file |-> f, directory |-> BaseDir] : f \in Files}
  \cup {[file |-> f, directory |-> BaseDir, arguments |-> <<>>] : f \in Files}
  \cup {[directory |-> BaseDir]}

Others == {
  [file |-> <<"art", "/", "y.c">>, directory |-> BaseDir,
   arguments |-> << <<"/", "bin", "/", "cc">>, <<"-I", "sys">>, <<"-I", "art">> >>],
  [file |-> <<"hw", "/", "ril", "/", "y.c">>, directory |-> BaseDir,
   arguments |-> << <<"cc">>, <<"-I", "art">> >>],
  [file |-> <<"out", "/", "y.c">>, directory |-> BaseDir, arguments |-> <<>>] }

Pairs == (Kinds \X Others)
  \cup {<<d, c>> : c \in Kinds, d \in {e \in Others : Len(e.arguments) = 3}}
=============================================================================

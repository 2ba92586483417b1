-------------------------- MODULE MCRewriteCommand --------------------------
(***************************************************************************)
(* A super-project with a project art, one nested in it, written with a    *)
(* backslash, and one whose path has two segments, hw/ril.  Files lie in   *)
(* them, in none, beside them, behind a "./", behind a doubled slash, and  *)
(* in a project whose name occurs again in the file's own name.            *)
(***************************************************************************)
EXTENDS RewriteCommand

BaseDir    == <<"/", "aosp">>
DestDir    == <<"/", "cdb", "/">>
ArtAndHw   == {<<"art">>, <<"art", "\\", "rt">>, <<"hw", "/", "ril">>}

Files == {
  <<"art", "/", "x.c">>, <<"art", "/", "rt", "/", "x.c">>, <<"out", "/", "x.c">>,
  <<"hw", "/", "ril", "/", "x.c">>, <<"hw", "/", "x.c">>,
  <<".", "/", "art", "/", "x.c">>, <<"art", "/", "/", "rt", "/", "x.c">>,
  <<"/", "aosp", "/", "art", "/", "x.c">>, <<"art", "/", "art", "_m.c">> }

Arguments == {
  <<"-I">>, <<"-I", "art">>, <<"-I", "art", "/", "rt">>, <<"-I", "art", "_x">>, <<"-I", "sys">>,
  <<"-I", "sys", "/", "art">>, <<"-I", "gone">>, <<"-o">>, <<"art", "/", "x.c">> }

ExistingDirs == {Entry(Slash(BaseDir, p)) :
  p \in {<<>>, <<"art">>, <<"art", "/", "rt">>, <<"art", "_x">>, <<"sys">>,
         <<"sys", "/", "art">>}}

\* Objects with and without a "directory", with "arguments" or, as the format
\* allows, a "command" instead, which the program does not touch.
Compiles == {
  [file |-> f, directory |-> BaseDir, arguments |-> << <<"cc">>, a, b>>] :
    f \in Files, a \in Arguments, b \in Arguments }
  \cup {[file |-> f, arguments |-> << <<"cc">>, a>>] : f \in Files, a \in Arguments}
  \cup {[file |-> f, directory |-> BaseDir] : f \in Files}
  \cup {[file |-> f, directory |-> BaseDir, arguments |-> <<>>] : f \in Files}
=============================================================================

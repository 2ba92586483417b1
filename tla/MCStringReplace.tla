--------------------------- MODULE MCStringReplace ---------------------------
(***************************************************************************)
(* Two characters are enough for partial and overlapping matches, and the  *)
(* replacement contains one of them, as "." may occur in a path.           *)
(***************************************************************************)
EXTENDS StringReplace

Replacement == <<"x">>
=============================================================================

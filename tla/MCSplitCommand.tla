--------------------------- MODULE MCSplitCommand ---------------------------
(***************************************************************************)
(* SplitCommand with two .xml files, another file, and a limit of one      *)
(* manifest per folder, so that a folder may hold more than the limit.     *)
(***************************************************************************)
EXTENDS SplitCommand

MCXmlFile == {"a.xml", "b.xml"}
MCOtherFile == {"c.txt"}
=============================================================================

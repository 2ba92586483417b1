-------------------------- MODULE MCTrieOwnership ---------------------------
(***************************************************************************)
(* Two tries, as many as a move, an assignment or a swap relates, on a     *)
(* heap of four nodes: two roots with a child each, or one with a fork, a  *)
(* chain or a leak.                                                        *)
(***************************************************************************)
EXTENDS TrieOwnership

CONSTANTS t1, t2, a, b, n1, n2, n3, n4

MCTries == {t1, t2}
MCNode == {n1, n2, n3, n4}
MCPaths == {<<>>, <<a>>, <<b>>, <<a, b>>}
=============================================================================

------------------------------- MODULE MCTrie -------------------------------
(***************************************************************************)
(* Trie over real strings: the segments are what Paths yields for them.    *)
(***************************************************************************)
EXTENDS Trie, Paths

\* "", a, a/b, a/b/c, /a, a\b and a trailing slash.  The set is closed under
\* TurnBackslashes, and a\b is one segment where backslashes are not turned.
Strings == {
  <<>>, <<"a">>, <<"a", "/", "b">>, <<"a", "/", "b", "/", "c">>,
  <<"/", "a">>, <<"a", "\\", "b">>, <<"a", "/">> }

SlashedStrings == [r \in Strings |-> TurnBackslashes(r)]
PartsOfStrings == [r \in Strings |-> Segments(r)]
AllSegments    == UNION {ToSet(Segments(r)) : r \in Strings}
=============================================================================

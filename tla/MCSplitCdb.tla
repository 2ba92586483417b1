----------------------------- MODULE MCSplitCdb -----------------------------
(***************************************************************************)
(* Two kinds of instances: keys that name directories of their own, and    *)
(* the keys of a manifest with the paths "art" and "./art", which name the *)
(* same one.                                                               *)
(***************************************************************************)
EXTENDS SplitCdb, Paths

Dest == <<"/", "cdb">>

KeysOf(prefixes) == {Slash(Dest, p) : p \in prefixes}

OwnKeys    == KeysOf({<<>>, <<"art">>, <<"art", "/", "rt">>})
SharedKeys == KeysOf({<<"art">>, <<".", "/", "art">>})

AtOwn    == [k \in OwnKeys |-> Entry(k)]
AtShared == [k \in SharedKeys |-> Entry(k)]

OwnDirs    == {AtOwn[k] : k \in OwnKeys}
SharedDirs == {AtShared[k] : k \in SharedKeys}
=============================================================================

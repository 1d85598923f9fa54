------------------------------- MODULE GoMaps -------------------------------
(***************************************************************************)
(* Go maps as finite functions: make(map), m[k] = v and delete(m, k).      *)
(***************************************************************************)

Empty == [x \in {} |-> x]

Put(f, k, v) == [x \in DOMAIN f \cup {k} |-> IF x = k THEN v ELSE f[x]]

RemoveKeys(f, S) == [x \in DOMAIN f \ S |-> f[x]]
=============================================================================

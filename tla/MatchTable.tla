------------------------------- MODULE MatchTable -------------------------------
(****************************************************************************)
(* src/cc/matcher/match_table/src/match_table_hash_map.h: the table of the  *)
(* publisher's IDs.  A table is a function from the keys it contains to     *)
(* [value, is_matched].  Each operation runs under data_mutex_, so it is    *)
(* one step of whoever calls it; MarkMatched is split into the lookup that  *)
(* answers and the table it leaves.                                         *)
(****************************************************************************)
EmptyTable == [key \in {} |-> {}]

\* AddElement fails, and changes nothing, iff the key is there already.
CanAddElement(t, key) == key \notin DOMAIN t
AddElement(t, key, value) ==
  [k \in DOMAIN t \cup {key} |->
     IF k = key THEN [value |-> value, is_matched |-> FALSE] ELSE t[k]]

HasElement(t, key) == key \in DOMAIN t
GetValue(t, key) == t[key].value
MarkMatched(t, key) ==
  IF HasElement(t, key) THEN [t EXCEPT ![key].is_matched = TRUE] ELSE t

\* The elements VisitMatched calls its visitor with.
VisitMatched(t) ==
  {<<key, t[key].value>> : key \in {k \in DOMAIN t : t[k].is_matched}}
================================================================================

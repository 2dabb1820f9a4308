------------------------------- MODULE Sanitize -------------------------------
(***************************************************************************)
(* What configIsSame and updateCache compare and keep of a configuration   *)
(* (pkg/controller/helpers.go): its JSON without the keys that change with *)
(* every update.                                                           *)
(*                                                                         *)
(* A JSON value is [map |-> function], [slice |-> sequence] or             *)
(* [leaf |-> value].  A key is <<name, spelling>>, with the name in lower  *)
(* case.                                                                   *)
(***************************************************************************)
EXTENDS SequencesExt

keysToDeleteForCache == <<"etag", "tags">>

ToLower(k) == k[1]
isMap(v) == "map" \in DOMAIN v
isSlice(v) == "slice" \in DOMAIN v

\* Mutant of deleteKey: lists are left as they are.
RECURSIVE deleteKey_MapsOnly(_, _)
deleteKey_MapsOnly(m, key) ==
    LET under(v) == IF isMap(v) THEN deleteKey_MapsOnly(v, key) ELSE v
    IN  [map |-> [k \in {x \in DOMAIN m.map : ToLower(x) # key} |-> under(m.map[k])]]

\* deleteKey: recurses into maps, and into the maps among the elements of a list.
RECURSIVE deleteKey(_, _)
deleteKey(m, key) ==
    LET element(v) == IF isMap(v) THEN deleteKey(v, key) ELSE v
        under(v) == IF isSlice(v) THEN [slice |-> [n \in DOMAIN v.slice |-> element(v.slice[n])]]
                    ELSE element(v)
    IN  [map |-> [k \in {x \in DOMAIN m.map : ToLower(x) # key} |-> under(m.map[k])]]

deleteKeyFromJSON(m, keysToDelete) == FoldLeft(deleteKey, m, keysToDelete)

-----------------------------------------------------------------------------
(* The reference: a value is the set of what is found along its paths. *)

RECURSIVE Entries(_)
Entries(v) ==
    LET below(f) == UNION {{<< <<k>> \o e[1], e[2] >> : e \in Entries(f[k])} : k \in DOMAIN f}
    IN  IF isMap(v) THEN {<< << >>, "map">>} \cup below(v.map)
        ELSE IF isSlice(v)
        THEN {<< << >>, "slice">>} \cup below([i \in {<<"element", n>> : n \in DOMAIN v.slice} |-> v.slice[i[2]]])
        ELSE {<< << >>, v.leaf>>}

\* What is left of a value without some keys.
Without(v, keys) ==
    {e \in Entries(v) : \A n \in DOMAIN e[1] : ToLower(e[1][n]) \notin ToSet(keys)}
=============================================================================

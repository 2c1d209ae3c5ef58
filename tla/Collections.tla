---------------------------- MODULE Collections ----------------------------
(***************************************************************************)
(* JavaScript's Set, as the sequence of its elements in the order in which *)
(* they were inserted: the identifiers of the workers on offer, the values *)
(* of a key of type set.  And its Map, as a function: the workers of a     *)
(* pool, the keys of a store.                                              *)
(***************************************************************************)
EXTENDS Naturals, SequencesExt

(* Set.add: an element that is there keeps its place.                      *)
Add(set, e) == IF Contains(set, e) THEN set ELSE Append(set, e)

(* Set.delete                                                              *)
Delete(set, e) ==
    IF Contains(set, e)
    THEN RemoveAt(set, CHOOSE i \in 1..Len(set) : set[i] = e)
    ELSE set

(* Map.set                                                                 *)
Put(map, key, value) ==
    [k \in DOMAIN map \cup {key} |-> IF k = key THEN value ELSE map[k]]

(* Map.delete                                                              *)
Without(map, key) == [k \in DOMAIN map \ {key} |-> map[k]]
=============================================================================

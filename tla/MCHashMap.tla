----------------------------- MODULE MCHashMap -----------------------------
(***************************************************************************)
(* HashMap for TLC: a hash function that makes the keys collide, and       *)
(* values that are interchangeable.                                        *)
(***************************************************************************)
EXTENDS HashMap, TLC

CONSTANTS k1, k2, k3, v1, v2

\* At capacity 5 all keys start at the last slot; at 10 two share a slot and
\* the third starts in the middle.
Crowded == [k \in Keys |-> CASE k = k1 -> 4 [] k = k2 -> 9 [] OTHER -> 14]

Interchangeable == Permutations(Values)
=============================================================================

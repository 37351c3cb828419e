---------------------------- MODULE KeyValueMap ----------------------------
(***************************************************************************)
(* What a key-value container promises: a partial function from keys to    *)
(* values (NULL where a key is absent), changed one key at a time.  An     *)
(* operation that fails, or that only looks, changes nothing.              *)
(***************************************************************************)
CONSTANTS Keys, Values, NULL

VARIABLE map

Init == map = [k \in Keys |-> NULL]

Put(k, v) == map' = [map EXCEPT ![k] = v]

Remove(k) == map[k] # NULL /\ map' = [map EXCEPT ![k] = NULL]

Clear == map' = [k \in Keys |-> NULL]

Next ==
    \/ \E k \in Keys, v \in Values : Put(k, v)
    \/ \E k \in Keys : Remove(k)
    \/ Clear

Spec == Init /\ [][Next]_map
=============================================================================

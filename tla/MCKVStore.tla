----------------------------- MODULE MCKVStore -----------------------------
(***************************************************************************)
(* KVStore for TLC: its keys and its values are interchangeable.           *)
(***************************************************************************)
EXTENDS KVStore, TLC

CONSTANTS k1, k2, v1, v2

Interchangeable == Permutations(Keys) \cup Permutations(Values)
=============================================================================

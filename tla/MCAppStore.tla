----------------------------- MODULE MCAppStore -----------------------------
(***************************************************************************)
(* AppStore and ObjectPool for TLC.  Two keys that fit and one, long, that *)
(* is cut to the first of them; a value, wide, that is cut to another.     *)
(* The stores of the server and the pool of the library have nothing in    *)
(* common: a behaviour uses the one or the other.                          *)
(***************************************************************************)
EXTENDS AppStore, ObjectPool

CONSTANTS k1, k2, long, v1, v2, wide, m1, m2, o1, o2, c1, c2

VARIABLE uses       \* "stores" or "pool"

MCClip == [v \in Values |-> IF v = wide THEN v1 ELSE v]

MCCut == [k \in Keys |-> IF k = long THEN k1 ELSE k]

MCInit == StoresInit /\ PoolInit /\ uses \in {"stores", "pool"}

MCNext ==
    \/ uses = "stores" /\ StoresNext /\ UNCHANGED <<pool_vars, uses>>
    \/ uses = "pool" /\ PoolNext /\ UNCHANGED <<stores_vars, uses>>

MCSpec == MCInit /\ [][MCNext]_<<stores_vars, pool_vars, uses>>
=============================================================================

----------------------------- MODULE ObjectPool -----------------------------
(***************************************************************************)
(* object_pool.c: a fixed array of slots, the first free of which is handed *)
(* out under its index.  Clients put objects in and keep the index as a     *)
(* handle; one that gave its handle back may still remember it and release  *)
(* it again, after which the slot may be another's.                         *)
(***************************************************************************)
EXTENDS Integers, FiniteSets

CONSTANTS
    Clients,
    PoolObjects,    \* what clients put into the pool
    POOL_CAPACITY,  \* argument of pool_new, not 0
    NoObject        \* no handle; also the NULL of an empty slot

Slots == 0 .. POOL_CAPACITY - 1

Handle == [id : Slots, obj : PoolObjects]

\* Nothing a client puts in, and no handle it gets, is the same as none.
ASSUME PoolAssumption ==
    /\ POOL_CAPACITY \in Nat \ {0}
    /\ NoObject \notin Handle \cup PoolObjects

VARIABLES
    objects, allocated, count,  \* ObjectPool
    handle,     \* what a client holds, or NoObject
    returned,   \* the slots a client has given back and may remember
    careless    \* ghost: a release freed a slot that was not the client's any more

pool == <<objects, allocated, count>>
pool_vars == <<pool, handle, returned, careless>>

pool_get(id) == IF allocated[id] THEN objects[id] ELSE NoObject

FreeSlots == {i \in Slots : ~allocated[i]}

FirstFree == CHOOSE i \in FreeSlots : \A j \in FreeSlots : i <= j

pool_allocate(c, obj) ==
    /\ handle[c] = NoObject
    /\ FreeSlots # {}
    /\ objects' = [objects EXCEPT ![FirstFree] = obj]
    /\ allocated' = [allocated EXCEPT ![FirstFree] = TRUE]
    /\ count' = count + 1
    /\ handle' = [handle EXCEPT ![c] = [id |-> FirstFree, obj |-> obj]]
    /\ UNCHANGED <<returned, careless>>

\* Mutant: a slot that is free already is released once more.
AlwaysReleased(id) ==
    /\ objects' = [objects EXCEPT ![id] = NoObject]
    /\ allocated' = [allocated EXCEPT ![id] = FALSE]
    /\ count' = count - 1

\* A slot that is free is refused, and nothing changes.
Released(id) ==
    IF allocated[id]
    THEN /\ objects' = [objects EXCEPT ![id] = NoObject]
         /\ allocated' = [allocated EXCEPT ![id] = FALSE]
         /\ count' = count - 1
    ELSE UNCHANGED pool

pool_release(c) ==
    /\ handle[c] # NoObject
    /\ Released(handle[c].id)
    /\ handle' = [handle EXCEPT ![c] = NoObject]
    /\ returned' = [returned EXCEPT ![c] = @ \cup {handle[c].id}]
    /\ UNCHANGED careless

\* A client releases a slot it has given back before.
ReleaseAgain(c, id) ==
    /\ id \in returned[c]
    /\ Released(id)
    /\ careless' = (careless \/ allocated[id])
    /\ UNCHANGED <<handle, returned>>

PoolInit ==
    /\ objects = [i \in Slots |-> NoObject]
    /\ allocated = [i \in Slots |-> FALSE]
    /\ count = 0
    /\ handle = [c \in Clients |-> NoObject]
    /\ returned = [c \in Clients |-> {}]
    /\ careless = FALSE

PoolNext ==
    \E c \in Clients :
        \/ \E obj \in PoolObjects : pool_allocate(c, obj)
        \/ pool_release(c)
        \/ \E id \in Slots : ReleaseAgain(c, id)

PoolSpec == PoolInit /\ [][PoolNext]_pool_vars

---------------------------------------------------------------------------
(* Properties.                                                             *)

\* What pool_count answers is the number of slots in use, however often a slot is
\* released; and as long as nobody has released a slot that was handed on, a handle
\* names the object its client put in, and no two clients hold the same slot
\* (object_pool.c:46, 67).
HandlesStand ==
    /\ count = Cardinality({i \in Slots : allocated[i]})
    /\ ~careless =>
          /\ \A c \in Clients : handle[c] # NoObject => pool_get(handle[c].id) = handle[c].obj
          /\ \A c, d \in Clients :
                c # d /\ handle[c] # NoObject /\ handle[d] # NoObject => handle[c].id # handle[d].id
=============================================================================

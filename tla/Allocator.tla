----------------------------- MODULE Allocator -----------------------------
(***************************************************************************)
(* What a memory manager promises its clients (mm.h), with no headers, no  *)
(* free list and no placement policy: a heap of `extent' bytes, and for    *)
(* every address the number of bytes the client asked for and still holds  *)
(* there (0 where nothing is handed out).                                  *)
(***************************************************************************)
EXTENDS Integers

CONSTANTS Addr,     \* the offsets of the heap
          Requests  \* the sizes a client may ask for

VARIABLES extent,   \* size of the mapped heap, 0 when there is none
          held      \* bytes handed out at each address

vars == <<extent, held>>

\* The bytes of the object the client holds at p.
Region(p) == p .. (p + held[p] - 1)

Init == extent = 0 /\ held = [p \in Addr |-> 0]

\* A heap is mapped when there is none.
Map == extent = 0 /\ extent' \in Nat \ {0} /\ UNCHANGED held

\* n bytes at p are handed out: inside the heap, and no byte of them is held.
Allocate(p, n) ==
    /\ n > 0
    /\ held[p] = 0
    /\ p + n <= extent
    /\ \A q \in Addr : held[q] # 0 => (p .. (p + n - 1)) \cap Region(q) = {}
    /\ held' = [held EXCEPT ![p] = n]
    /\ UNCHANGED extent

\* Exactly one object is given back.
Release(p) ==
    /\ held[p] # 0
    /\ held' = [held EXCEPT ![p] = 0]
    /\ UNCHANGED extent

\* The heap goes away with everything in it.
Unmap ==
    /\ extent # 0
    /\ extent' = 0
    /\ held' = [p \in Addr |-> 0]

Next ==
    \/ Map
    \/ \E p \in Addr, n \in Requests : Allocate(p, n)
    \/ \E p \in Addr : Release(p)
    \/ Unmap

Spec == Init /\ [][Next]_vars
=============================================================================

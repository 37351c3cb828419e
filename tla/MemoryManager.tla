--------------------------- MODULE MemoryManager ---------------------------
(***************************************************************************)
(* The heap of myos-lib (myos-lib/src/mm.c): one mmap'ed region, blocks    *)
(* with a 32-byte header in front of the payload, and a free list kept in  *)
(* address order.  Addresses are offsets from heap_base.                   *)
(*                                                                         *)
(*  - The links next of the free list are followed only from its head, so  *)
(*    the list is the sequence of its block addresses (prev is written and *)
(*    never read).                                                         *)
(*  - mem holds what a reader of a header finds at an address: the header  *)
(*    last written there while its bytes are intact, NoHdr otherwise (the  *)
(*    magic does not match).  Headers of absorbed blocks stay in memory.   *)
(*  - asked is a ghost: the bytes the client requested for the pointer it  *)
(*    holds at an address, 0 if it holds none there.                       *)
(*  - total_allocations and total_deallocations are only ever incremented  *)
(*    and reported; they are left out.                                     *)
(***************************************************************************)
EXTENDS Integers, FiniteSetsExt, SequencesExt

CONSTANTS Align,      \* MEM_ALIGN
          Meta,       \* METADATA_SIZE
          PageSize,   \* the page mm_init rounds to
          SizeMod,    \* a size_t holds 0 .. SizeMod - 1
          MaxHeap,    \* bound: no heap of the model is longer
          HeapSizes,  \* arguments of mm_init
          Requests,   \* arguments of mm_alloc
          MaxLibc,    \* bound: pointers of the libc allocator held at once
          NoHdr       \* what a header read finds where no magic is

ASSUME ConstantsAssumption ==
    /\ Align \in Nat \ {0} /\ Meta \in Nat \ {0}
    /\ PageSize \in Nat /\ PageSize > Meta
    /\ SizeMod \in Nat \ {0} /\ MaxHeap \in Nat
    /\ HeapSizes \subseteq Nat /\ Requests \subseteq Nat
    /\ MaxLibc \in Nat
    /\ NoHdr \notin [is_free : BOOLEAN, size : Nat]

Addr   == 0 .. MaxHeap - 1
Header == [is_free : BOOLEAN, size : Nat]

VARIABLES mapped,             \* heap_base # NULL
          heap_size, free_list, current_allocated,
          mem, asked,
          libc                \* pointers the client got from malloc and holds

vars == <<mapped, heap_size, free_list, current_allocated, mem, asked, libc>>

\* Variant of align_up that rounds down.
align_down(n, a) == ((n % SizeMod) \div a) * a

\* size_t arithmetic: the sum wraps before the division.
align_up(n, a) == (((n + a - 1) % SizeMod) \div a) * a

IsHeader(b) == mem[b] # NoHdr
EndOf(b)    == b + Meta + mem[b].size     \* first byte after block b
Held        == {p \in Addr : asked[p] # 0}
FreeBlocks  == {free_list[i] : i \in DOMAIN free_list}
UsedBlocks  == {p - Meta : p \in Held}

TypeOK ==
    /\ mapped \in BOOLEAN
    /\ heap_size \in Nat
    /\ free_list \in Seq(Addr)
    /\ current_allocated \in Int
    /\ mem \in [Addr -> Header \cup {NoHdr}]
    /\ asked \in [Addr -> Nat]
    /\ libc \in Nat
-----------------------------------------------------------------------------
Init ==
    /\ mapped = FALSE
    /\ heap_size = 0
    /\ free_list = <<>>
    /\ current_allocated = 0
    /\ mem = [a \in Addr |-> NoHdr]
    /\ asked = [p \in Addr |-> 0]
    /\ libc = 0

\* mm_init: the whole heap becomes one free block.  heap_size is assigned
\* before mmap is tried and keeps its value when mmap fails.
MapHeap(n) ==
    LET size == align_up(n, PageSize) IN
    /\ ~mapped
    /\ heap_size' = size
    /\ \/ /\ size > 0 /\ size <= MaxHeap          \* mmap succeeds
          /\ mapped' = TRUE
          /\ mem' = [a \in Addr |-> IF a = 0
                       THEN [is_free |-> TRUE, size |-> size - Meta]
                       ELSE NoHdr]
          /\ free_list' = <<0>>
       \/ UNCHANGED <<mapped, mem, free_list>>    \* mmap fails
    /\ UNCHANGED <<current_allocated, asked, libc>>

\* mm_init on an initialised heap refuses.
RefuseInit == mapped /\ UNCHANGED vars

mm_init == \/ \E n \in HeapSizes : MapHeap(n)
           \/ RefuseInit

\* Positions of the free list whose block can serve size bytes.
Fits(size) == {i \in DOMAIN free_list :
                  mem[free_list[i]].is_free /\ mem[free_list[i]].size >= size}

\* Memory after a header is written at b: it overwrites what was under it.
PutHeader(m, b, h) ==
    [a \in Addr |-> IF a = b THEN h
                    ELSE IF a \in (b + 1) .. (b + Meta - 1) THEN NoHdr
                    ELSE m[a]]

\* Variant of Splits that needs no room for the new header.
SplitsWithoutRoom(b, size) == mem[b].size >= size

\* Is the block split?  Only if a header and at least one byte are left over;
\* otherwise the rest of the block is given up (block->size = size).
Splits(b, size) == mem[b].size > size + Meta

\* Variant of Carve: the tail's size still counts the bytes of its own header.
CarveKeepingSize(i, size) ==
    LET b    == free_list[i]
        rest == b + Meta + size
        used == [mem EXCEPT ![b] = [is_free |-> FALSE, size |-> size]]
    IN  IF Splits(b, size)
        THEN /\ mem' = PutHeader(used, rest, [is_free |-> TRUE, size |-> mem[b].size - size])
             /\ free_list' = [free_list EXCEPT ![i] = rest]
        ELSE /\ mem' = used
             /\ free_list' = RemoveAt(free_list, i)

\* The first fitting block is taken off the list, its tail put in its place.
Carve(i, size) ==
    LET b    == free_list[i]
        rest == b + Meta + size
        used == [mem EXCEPT ![b] = [is_free |-> FALSE, size |-> size]]
    IN  IF Splits(b, size)
        THEN /\ mem' = PutHeader(used, rest,
                          [is_free |-> TRUE, size |-> mem[b].size - size - Meta])
             /\ free_list' = [free_list EXCEPT ![i] = rest]
        ELSE /\ mem' = used
             /\ free_list' = RemoveAt(free_list, i)

AllocBlock(n) ==
    LET size == align_up(n, Align) IN
    /\ n # 0
    /\ mapped
    /\ \E i \in Fits(size) :
         /\ \A j \in Fits(size) : i <= j
         /\ Carve(i, size)
         /\ asked' = [asked EXCEPT ![free_list[i] + Meta] = n]
    /\ current_allocated' = current_allocated + size
    /\ UNCHANGED <<mapped, heap_size, libc>>

\* Without a heap the request goes to malloc, which may fail.
AllocLibc(n) ==
    /\ n # 0
    /\ ~mapped
    /\ libc < MaxLibc
    /\ libc' = libc + 1
    /\ UNCHANGED <<mapped, heap_size, free_list, current_allocated, mem, asked>>

\* NULL: a request for nothing, no block that fits, or malloc out of memory.
AllocNull(n) ==
    /\ n = 0 \/ ~mapped \/ Fits(align_up(n, Align)) = {}
    /\ UNCHANGED vars

mm_alloc(n) == AllocBlock(n) \/ AllocLibc(n) \/ AllocNull(n)

\* Variant of InsertPos: always at the head.
InsertAtHead(b) == 1

\* Where mm_free inserts b: before the first block that is not below it.
InsertPos(b) ==
    CHOOSE k \in 1 .. Len(free_list) + 1 :
        /\ \A i \in 1 .. k - 1 : free_list[i] < b
        /\ k <= Len(free_list) => free_list[k] >= b

\* Variant of TouchesPrev: no merge with the block before.
NeverTouchesPrev(b) == FALSE

\* Does the block touch the one behind it, or the one before it, in the list?
TouchesNext(b) == /\ InsertPos(b) <= Len(free_list)
                  /\ EndOf(b) = free_list[InsertPos(b)]
TouchesPrev(b) == /\ InsertPos(b) > 1
                  /\ EndOf(free_list[InsertPos(b) - 1]) = b

\* Payload of the block once the next one is merged into it.
SizeWithNext(b) ==
    mem[b].size + (IF TouchesNext(b) THEN Meta + mem[free_list[InsertPos(b)]].size ELSE 0)

\* Variant of Insert: a block that is absorbed by the one before it is not
\* marked free first.
InsertUnmarked(b) ==
    LET k     == InsertPos(b)
        freed == [mem EXCEPT ![b] = [is_free |-> TRUE, size |-> SizeWithNext(b)]]
    IN  /\ free_list' = SubSeq(free_list, 1, k - 1)
                        \o (IF TouchesPrev(b) THEN <<>> ELSE <<b>>)
                        \o SubSeq(free_list, IF TouchesNext(b) THEN k + 1 ELSE k,
                                  Len(free_list))
        /\ mem' = IF TouchesPrev(b)
                  THEN [mem EXCEPT ![free_list[k - 1]] =
                          [is_free |-> @.is_free, size |-> @.size + Meta + SizeWithNext(b)]]
                  ELSE freed

\* The block is put back in address order and merged with its neighbours.
Insert(b) ==
    LET k     == InsertPos(b)
        freed == [mem EXCEPT ![b] = [is_free |-> TRUE, size |-> SizeWithNext(b)]]
    IN  /\ free_list' = SubSeq(free_list, 1, k - 1)
                        \o (IF TouchesPrev(b) THEN <<>> ELSE <<b>>)
                        \o SubSeq(free_list, IF TouchesNext(b) THEN k + 1 ELSE k,
                                  Len(free_list))
        /\ mem' = IF TouchesPrev(b)
                  THEN [freed EXCEPT ![free_list[k - 1]] =
                          [is_free |-> @.is_free, size |-> @.size + Meta + SizeWithNext(b)]]
                  ELSE freed

\* Variant of LooksAllocated without the check for a double free.
LooksLikeBlock(p) == IsHeader(p - Meta)

\* What mm_free checks of the header in front of the pointer.
LooksAllocated(p) == IsHeader(p - Meta) /\ ~mem[p - Meta].is_free

\* Variant of FreeBlock: the counter is lowered by the size after the merge.
FreeBlockMergedSize(p) ==
    /\ mapped
    /\ LooksAllocated(p)
    /\ current_allocated' = current_allocated - SizeWithNext(p - Meta)
    /\ Insert(p - Meta)
    /\ asked' = [asked EXCEPT ![p] = 0]
    /\ UNCHANGED <<mapped, heap_size, libc>>

\* mm_free of any pointer into the heap: the client may pass one it holds, one
\* it has freed before, or one it never got.
FreeBlock(p) ==
    /\ mapped
    /\ LooksAllocated(p)
    /\ current_allocated' = current_allocated - mem[p - Meta].size
    /\ Insert(p - Meta)
    /\ asked' = [asked EXCEPT ![p] = 0]
    /\ UNCHANGED <<mapped, heap_size, libc>>

FreeIgnored(p) ==
    /\ mapped
    /\ ~LooksAllocated(p)
    /\ UNCHANGED vars

\* mm_free of a malloc'ed pointer.  With a heap mapped, the bytes in front of
\* it do not carry the magic: the call returns and the pointer stays allocated.
FreeLibc ==
    /\ libc > 0
    /\ libc' = IF mapped THEN libc ELSE libc - 1
    /\ UNCHANGED <<mapped, heap_size, free_list, current_allocated, mem, asked>>

mm_free == \/ \E p \in Meta .. MaxHeap - 1 : FreeBlock(p) \/ FreeIgnored(p)
           \/ FreeLibc

mm_destroy ==
    /\ mapped
    /\ mapped' = FALSE
    /\ heap_size' = 0
    /\ free_list' = <<>>
    /\ current_allocated' = 0
    /\ mem' = [a \in Addr |-> NoHdr]
    /\ asked' = [p \in Addr |-> 0]
    /\ UNCHANGED libc

\* The client fills the object it holds at p with data, which buries every
\* stale header inside it.
ClientWrite(p) ==
    /\ asked[p] # 0
    /\ mem' = [a \in Addr |-> IF a \in p .. (p + asked[p] - 1) THEN NoHdr ELSE mem[a]]
    /\ UNCHANGED <<mapped, heap_size, free_list, current_allocated, asked, libc>>

Next ==
    \/ mm_init
    \/ \E n \in Requests : mm_alloc(n)
    \/ mm_free
    \/ mm_destroy
    \/ \E p \in Addr : ClientWrite(p)

Spec == Init /\ [][Next]_vars
-----------------------------------------------------------------------------
(* Safety *)

\* Every two blocks, free or handed out, keep clear of one another, header and
\* payload, whatever splitting, merging and giving up of tails came before
\* (mm_alloc 207-241, mm_free 281-312).
BlocksDisjoint ==
    \A a, b \in FreeBlocks \cup UsedBlocks :
        /\ IsHeader(a)
        /\ EndOf(a) <= heap_size
        /\ a < b => EndOf(a) <= b

\* The free list is in strictly ascending order, so it is acyclic and no block
\* is on it twice, and holds only blocks marked free (mm_free 284-298).
FreeListSorted ==
    /\ \A i, j \in DOMAIN free_list : i < j => free_list[i] < free_list[j]
    /\ \A b \in FreeBlocks : IsHeader(b) /\ mem[b].is_free

\* Two free blocks never touch: a touching pair would have been merged, so no
\* request fails because free space that is contiguous is listed in two pieces
\* (mm_free 300-312).
Coalesced == \A a, b \in FreeBlocks : EndOf(a) # b

\* mm_free's validity check can be trusted: a header that reads as allocated,
\* stale headers inside merged blocks and payloads included, is that of an
\* object a client holds now; and every held object has one (mm_free 268-274).
AllocatedMeansHeld ==
    \A b \in Addr : (IsHeader(b) /\ ~mem[b].is_free) <=> b \in UsedBlocks

\* current_allocated is the payload of the blocks in use, and never wraps
\* below zero (mm_alloc 236, mm_free 278).
Accounting ==
    current_allocated = SumFunction([b \in UsedBlocks |-> mem[b].size])

\* A client never gets less than it asked for.
RequestServed == \A p \in Held : mem[p - Meta].size >= asked[p]

\* The manager implements what mm.h promises.
A == INSTANCE Allocator WITH extent <- IF mapped THEN heap_size ELSE 0,
                             held   <- asked
ImplementsAllocator == A!Spec
-----------------------------------------------------------------------------
(* Statements of the documentation and the tests that the code refutes *)

\* mm_validate returns 0: there is a heap, and walking it from block to block meets
\* a header every time and ends exactly at its end.
mm_validate ==
    LET walk[a \in 0 .. heap_size] ==
            IF a = heap_size THEN TRUE
            ELSE IsHeader(a) /\ EndOf(a) <= heap_size /\ walk[EndOf(a)]
    IN  mapped /\ walk[0]
=============================================================================

---------------------------- MODULE MemoryProofs ----------------------------
(***************************************************************************)
(* The memory manager, the object pool and the string, for every size.     *)
(*                                                                         *)
(* The heap of MemoryManager is sound for every alignment, header size,    *)
(* heap size and set of requests, as long as no request is so close to the *)
(* largest size_t that rounding it up wraps (NoWrap).                      *)
(*                                                                         *)
(* The argument: HeapInv says that blocks do not overlap, that the free    *)
(* list is ascending and holds no two touching blocks, that an allocated   *)
(* header is that of an object some client holds, and that an object lies  *)
(* inside its block.  The last two are what makes the first inductive:     *)
(* mm_free trusts the header it finds, and clients write into their object.*)
(*                                                                         *)
(* The counter: a step changes the sizes of at most the block it is about, *)
(* so the sum over the blocks handed out changes by what the counter does. *)
(*                                                                         *)
(* The pool, for every capacity, every set of clients and of objects.  The *)
(* count needs that the slots are finitely many; that a handle names its   *)
(* object needs that, while nobody is careless, the slots clients hold are *)
(* in use, each by one client.                                             *)
(*                                                                         *)
(* The string, for every alphabet, capacity, and width of int and long.    *)
(* Each of its loops is a sequence of states, and a state is known by what *)
(* it has done and what it has left.  string_replace (Halfway): what       *)
(* should come of the whole text is what is done, and what should come of  *)
(* the rest.  string_split_str (Scanning, Scanned, Stopped): each part the *)
(* place it begins at and the place it stops at, and no delimiter between. *)
(* string_reverse: the text turned round as far as left and right have     *)
(* come.  parse_int: the low bits of the digits read.  StringInv then says *)
(* of each call that it gave what it promised.                             *)
(***************************************************************************)
EXTENDS MemoryManager, ObjectPool, StringEngine, SequenceLemmas

NoWrap == \A n \in Requests : n + Align - 1 < SizeMod

Shape ==
    /\ mapped => heap_size > 0 /\ heap_size <= MaxHeap
    /\ ~mapped => free_list = <<>> /\ Held = {}
    /\ \A p \in Held : p >= Meta

HeapInv ==
    /\ TypeOK
    /\ Shape
    /\ FreeListSorted
    /\ BlocksDisjoint
    /\ Coalesced
    /\ AllocatedMeansHeld
    /\ RequestServed
-----------------------------------------------------------------------------
(* Rounding up. *)

\* A rounded size is a number (mm.c, align_up).
LEMMA AlignUpType ==
    ASSUME NEW n \in Nat, NEW a \in Nat \ {0}
    PROVE  align_up(n, a) \in Nat
  BY ConstantsAssumption DEF align_up

\* Rounding up never loses a byte, unless it wraps.
LEMMA AlignUpCovers ==
    ASSUME NEW n \in Nat, NEW a \in Nat \ {0}, n + a - 1 < SizeMod
    PROVE  align_up(n, a) >= n
  BY ConstantsAssumption DEF align_up

\* What is not rounded to nothing is at least one unit.
LEMMA AlignUpPage ==
    ASSUME NEW n \in Nat, NEW a \in Nat \ {0}, align_up(n, a) > 0
    PROVE  align_up(n, a) >= a
  BY ConstantsAssumption DEF align_up
-----------------------------------------------------------------------------
(* Lists: what a list with a middle part replaced, or removed, contains. *)

\* A list without its i-th element: the others in their order.
LEMMA RemoveAtElements ==
    ASSUME NEW S, NEW s \in Seq(S), NEW i \in 1 .. Len(s)
    PROVE  /\ RemoveAt(s, i) \in Seq(S)
           /\ Len(RemoveAt(s, i)) = Len(s) - 1
           /\ \A j \in 1 .. Len(s) - 1 :
                RemoveAt(s, i)[j] = s[IF j < i THEN j ELSE j + 1]
<1> DEFINE l == SubSeq(s, 1, i - 1)
           r == SubSeq(s, i + 1, Len(s))
           t == l \o r
<1>1. l \in Seq(S) /\ r \in Seq(S)
  OBVIOUS
<1>2. Len(l) = i - 1 /\ \A j \in 1 .. i - 1 : l[j] = s[j]
  OBVIOUS
<1>3. Len(r) = Len(s) - i /\ \A j \in 1 .. Len(s) - i : r[j] = s[i + j]
  OBVIOUS
<1>4. RemoveAt(s, i) = t
  BY DEF RemoveAt
<1> HIDE DEF l, r
<1>5. /\ t \in Seq(S) /\ Len(t) = Len(l) + Len(r)
      /\ \A j \in 1 .. Len(l) + Len(r) : t[j] = IF j <= Len(l) THEN l[j] ELSE r[j - Len(l)]
  BY <1>1
<1> HIDE DEF t
<1>6. Len(s) \in Nat /\ i \in Nat
  OBVIOUS
<1>7. Len(t) = Len(s) - 1
  BY <1>2, <1>3, <1>5, <1>6
<1>8. ASSUME NEW j \in 1 .. Len(s) - 1
      PROVE  t[j] = s[IF j < i THEN j ELSE j + 1]
  <2>1. CASE j < i
    <3>1. t[j] = l[j] /\ j \in 1 .. i - 1
      BY <1>2, <1>3, <1>5, <1>6, <2>1
    <3> QED BY <1>2, <2>1, <3>1
  <2>2. CASE ~(j < i)
    <3>1. t[j] = r[j - Len(l)] /\ j - Len(l) \in 1 .. Len(s) - i
      BY <1>2, <1>3, <1>5, <1>6, <2>2, SMTT(40)
    <3>2. r[j - Len(l)] = s[j + 1]
      <4>1. r[j - Len(l)] = s[i + (j - Len(l))]
        BY <1>3, <3>1
      <4>2. i + (j - Len(l)) = j + 1
        BY <1>2, <1>6
      <4> QED BY <4>1, <4>2
    <3> QED BY <2>2, <3>1, <3>2
  <2> QED BY <2>1, <2>2
<1> QED BY <1>4, <1>5, <1>7, <1>8
-----------------------------------------------------------------------------
(* The actions that leave the blocks alone, or make or drop all of them. *)

\* An address that holds a header is not one that holds none.
LEMMA HeaderIsNotNoHdr ==
    ASSUME NEW h \in Header PROVE h # NoHdr
  BY ConstantsAssumption DEF Header

\* The invariant says nothing of the two counters but their type.
LEMMA BlocksUnchanged ==
    ASSUME HeapInv, UNCHANGED <<mapped, heap_size, free_list, mem, asked>>,
           current_allocated' \in Int, libc' \in Nat
    PROVE  HeapInv'
  BY DEF HeapInv, TypeOK, Shape, FreeListSorted, BlocksDisjoint, Coalesced,
         AllocatedMeansHeld, RequestServed, Held, FreeBlocks, UsedBlocks,
         IsHeader, EndOf

\* With no block at all, every part of the invariant is vacuous.
LEMMA NoBlocks ==
    ASSUME mapped \in BOOLEAN, mapped => heap_size > 0 /\ heap_size <= MaxHeap,
           heap_size \in Nat, free_list = <<>>, current_allocated \in Int, libc \in Nat,
           mem = [a \in Addr |-> NoHdr], asked = [p \in Addr |-> 0]
    PROVE  HeapInv
<1>1. Held = {} /\ UsedBlocks = {} /\ FreeBlocks = {}
  BY DEF Held, UsedBlocks, FreeBlocks
<1>2. TypeOK
  <2>1. free_list \in Seq(Addr)
    OBVIOUS
  <2>2. mem \in [Addr -> Header \cup {NoHdr}] /\ asked \in [Addr -> Nat]
    OBVIOUS
  <2> QED BY <2>1, <2>2 DEF TypeOK
<1>3. Shape /\ RequestServed /\ AllocatedMeansHeld
  BY <1>1 DEF Shape, RequestServed, AllocatedMeansHeld, IsHeader
<1>4. FreeListSorted /\ BlocksDisjoint /\ Coalesced
  BY <1>1 DEF FreeListSorted, BlocksDisjoint, Coalesced
<1> QED BY <1>2, <1>3, <1>4 DEF HeapInv

\* Before mm_init there is no block.
LEMMA InitEstablishes == Init => HeapInv
<1> SUFFICES ASSUME Init PROVE HeapInv
  OBVIOUS
<1>1. mapped \in BOOLEAN /\ ~mapped
  BY DEF Init
<1>2. /\ heap_size \in Nat /\ free_list = <<>> /\ current_allocated \in Int /\ libc \in Nat
      /\ mem = [a \in Addr |-> NoHdr] /\ asked = [p \in Addr |-> 0]
  BY DEF Init
<1> QED BY <1>1, <1>2, NoBlocks

\* mm_destroy leaves no block.
LEMMA DestroyPreserves ==
    ASSUME HeapInv, mm_destroy
    PROVE  HeapInv'
<1>1. /\ mapped' = FALSE /\ heap_size' = 0 /\ free_list' = <<>>
      /\ current_allocated' \in Int /\ libc' \in Nat
      /\ mem' = [a \in Addr |-> NoHdr] /\ asked' = [p \in Addr |-> 0]
  BY DEF mm_destroy, HeapInv, TypeOK
<1>2. Held' = {} /\ UsedBlocks' = {} /\ FreeBlocks' = {}
  BY <1>1 DEF Held, UsedBlocks, FreeBlocks
<1>3. TypeOK'
  <2>1. free_list' \in Seq(Addr) /\ heap_size' \in Nat
    BY <1>1
  <2>2. mem' \in [Addr -> Header \cup {NoHdr}] /\ asked' \in [Addr -> Nat]
    BY <1>1
  <2>3. mapped' \in BOOLEAN
    BY <1>1
  <2> QED BY <1>1, <2>1, <2>2, <2>3 DEF TypeOK
<1>4. Shape' /\ RequestServed' /\ AllocatedMeansHeld'
  BY <1>1, <1>2 DEF Shape, RequestServed, AllocatedMeansHeld, IsHeader
<1>5. FreeListSorted' /\ BlocksDisjoint' /\ Coalesced'
  BY <1>1, <1>2 DEF FreeListSorted, BlocksDisjoint, Coalesced
<1> QED BY <1>3, <1>4, <1>5 DEF HeapInv

\* mm_init leaves one free block, as large as the heap without its header.
LEMMA MapHeapPreserves ==
    ASSUME HeapInv, NEW n \in HeapSizes, MapHeap(n)
    PROVE  HeapInv'
<1> DEFINE size == align_up(n, PageSize)
<1>1. size \in Nat /\ n \in Nat /\ PageSize \in Nat \ {0} /\ Meta \in Nat
  BY ConstantsAssumption, AlignUpType
<1>2. /\ ~mapped /\ heap_size' = size /\ UNCHANGED <<current_allocated, asked, libc>>
      /\ Held = {} /\ free_list = <<>> /\ TypeOK
  BY DEF MapHeap, HeapInv, Shape
<1>3. CASE UNCHANGED <<mapped, mem, free_list>>
  <2>1. Held' = {} /\ UsedBlocks' = {} /\ FreeBlocks' = {}
    BY <1>2, <1>3 DEF Held, UsedBlocks, FreeBlocks
  <2>2. TypeOK' /\ Shape' /\ RequestServed'
    BY <1>1, <1>2, <1>3, <2>1 DEF TypeOK, Shape, RequestServed
  <2>3. AllocatedMeansHeld'
    <3>1. UsedBlocks = {}
      BY <1>2 DEF UsedBlocks
    <3> QED BY <1>3, <2>1, <3>1 DEF HeapInv, AllocatedMeansHeld, IsHeader
  <2>4. FreeListSorted' /\ BlocksDisjoint' /\ Coalesced'
    BY <1>2, <1>3, <2>1 DEF FreeListSorted, BlocksDisjoint, Coalesced
  <2> QED BY <2>2, <2>3, <2>4 DEF HeapInv
<1>4. CASE /\ size > 0 /\ size <= MaxHeap /\ mapped' = TRUE
           /\ mem' = [a \in Addr |-> IF a = 0
                        THEN [is_free |-> TRUE, size |-> size - Meta] ELSE NoHdr]
           /\ free_list' = <<0>>
  <2>1. size > Meta /\ 0 \in Addr /\ MaxHeap \in Nat
    BY <1>1, <1>4, AlignUpPage, ConstantsAssumption DEF Addr
  <2> DEFINE h == [is_free |-> TRUE, size |-> size - Meta]
  <2>2. h \in Header /\ h # NoHdr
    <3>1. size - Meta \in Nat
      BY <1>1, <2>1
    <3>2. h \in Header
      BY <3>1 DEF Header
    <3> QED BY <3>2, HeaderIsNotNoHdr
  <2>3. mem'[0] = h /\ \A a \in Addr : a # 0 => mem'[a] = NoHdr
    BY <1>4, <2>1
  <2>4. Held' = {} /\ UsedBlocks' = {} /\ FreeBlocks' = {0}
    BY <1>2, <1>4 DEF Held, UsedBlocks, FreeBlocks
  <2>5. TypeOK' /\ Shape' /\ RequestServed'
    <3>1. free_list' \in Seq(Addr)
      BY <1>4, <2>1
    <3>2. mem' \in [Addr -> Header \cup {NoHdr}]
      BY <1>4, <2>2
    <3> QED BY <1>1, <1>2, <1>4, <2>4, <3>1, <3>2 DEF TypeOK, Shape, RequestServed
  <2>6. AllocatedMeansHeld'
    BY <2>2, <2>3, <2>4 DEF AllocatedMeansHeld, IsHeader
  <2>7. FreeListSorted'
    BY <1>4, <2>2, <2>3, <2>4 DEF FreeListSorted, IsHeader
  <2>8. BlocksDisjoint' /\ Coalesced'
    <3>1. mem'[0].size = size - Meta
      BY <2>3
    <3> QED BY <1>1, <1>2, <2>1, <2>2, <2>3, <2>4, <3>1
            DEF BlocksDisjoint, Coalesced, IsHeader, EndOf
  <2> QED BY <2>5, <2>6, <2>7, <2>8 DEF HeapInv
<1> QED BY <1>3, <1>4 DEF MapHeap
-----------------------------------------------------------------------------
(* What the invariant says of one block. *)

\* What the invariant says of each block: it has a header, inside the heap.
LEMMA BlockFacts ==
    ASSUME HeapInv
    PROVE  /\ Meta \in Nat \ {0} /\ MaxHeap \in Nat
           /\ \A b \in FreeBlocks \cup UsedBlocks :
                /\ b \in Addr /\ mem[b] \in Header /\ mem[b] # NoHdr
                /\ mem[b].size \in Nat /\ mem[b].is_free \in BOOLEAN
           /\ \A b \in FreeBlocks : mem[b].is_free
           /\ \A b \in UsedBlocks : ~mem[b].is_free
<1>1. Meta \in Nat \ {0} /\ MaxHeap \in Nat
  BY ConstantsAssumption
<1>2. \A b \in FreeBlocks : b \in Addr
  BY DEF FreeBlocks, HeapInv, TypeOK
<1>3. \A b \in UsedBlocks : b \in Addr
  BY <1>1 DEF UsedBlocks, HeapInv, Shape, Held, Addr
<1>4. \A b \in FreeBlocks \cup UsedBlocks : mem[b] # NoHdr
  BY DEF HeapInv, BlocksDisjoint, IsHeader
<1>5. \A b \in Addr : mem[b] \in Header \cup {NoHdr}
  BY DEF HeapInv, TypeOK
<1>6. \A h \in Header : h.size \in Nat /\ h.is_free \in BOOLEAN
  BY DEF Header
<1>7. \A b \in FreeBlocks : mem[b].is_free
  BY DEF HeapInv, FreeListSorted
<1>8. \A b \in UsedBlocks : ~mem[b].is_free
  BY <1>3 DEF HeapInv, AllocatedMeansHeld
<1> QED BY <1>1, <1>2, <1>3, <1>4, <1>5, <1>6, <1>7, <1>8

\* Blocks in ascending order do not overlap.
LEMMA BlocksApart ==
    ASSUME HeapInv, NEW a \in FreeBlocks \cup UsedBlocks, NEW b \in FreeBlocks \cup UsedBlocks
    PROVE  /\ a + Meta + mem[a].size <= heap_size
           /\ a < b => a + Meta + mem[a].size <= b
  BY DEF HeapInv, BlocksDisjoint, EndOf

\* A client that writes within what it asked for hits no header.
LEMMA ClientWritePreserves ==
    ASSUME HeapInv, NEW p \in Addr, ClientWrite(p)
    PROVE  /\ HeapInv'
           /\ UsedBlocks' = UsedBlocks /\ \A c \in UsedBlocks : mem'[c] = mem[c]
<1> DEFINE b == p - Meta
           n == asked[p]
<1>1. /\ n # 0 /\ n \in Nat /\ p \in Nat
      /\ UNCHANGED <<mapped, heap_size, free_list, current_allocated, asked, libc>>
      /\ mem' = [a \in Addr |-> IF a \in p .. (p + n - 1) THEN NoHdr ELSE mem[a]]
  BY DEF ClientWrite, HeapInv, TypeOK, Addr
<1>2. p \in Held /\ b \in UsedBlocks /\ mem[b].size >= n
  BY <1>1 DEF Held, UsedBlocks, HeapInv, RequestServed
<1>3. Held' = Held /\ UsedBlocks' = UsedBlocks /\ FreeBlocks' = FreeBlocks
  BY <1>1 DEF Held, UsedBlocks, FreeBlocks
<1>4. ASSUME NEW c \in FreeBlocks \cup UsedBlocks
      PROVE  mem'[c] = mem[c]
  <2>1. c \in Addr /\ c \in Nat
    BY BlockFacts DEF Addr
  <2>2. c < b => c < p
    BY <1>1, <2>1, BlockFacts
  <2>3. c > b => c >= p + n
    BY <1>1, <1>2, <2>1, BlocksApart, BlockFacts
  <2>4. c = b => c < p
    BY <1>1, BlockFacts
  <2>5. c \notin p .. (p + n - 1)
    BY <1>1, <2>1, <2>2, <2>3, <2>4, BlockFacts
  <2> QED BY <1>1, <2>1, <2>5
<1>5. \A a \in Addr : mem'[a] = mem[a] \/ mem'[a] = NoHdr
  BY <1>1
<1>6. TypeOK' /\ Shape'
  <2>1. mem' \in [Addr -> Header \cup {NoHdr}]
    BY <1>1 DEF HeapInv, TypeOK
  <2> QED BY <1>1, <1>3, <2>1 DEF HeapInv, TypeOK, Shape
<1>7. FreeListSorted'
  BY <1>1, <1>3, <1>4 DEF HeapInv, FreeListSorted, IsHeader
<1>8. BlocksDisjoint' /\ Coalesced'
  BY <1>1, <1>3, <1>4 DEF HeapInv, BlocksDisjoint, Coalesced, IsHeader, EndOf
<1>9. AllocatedMeansHeld'
  <2>1. \A a \in Addr : mem'[a] # NoHdr /\ ~mem'[a].is_free => a \in UsedBlocks
    BY <1>5 DEF HeapInv, AllocatedMeansHeld, IsHeader
  <2>2. \A a \in UsedBlocks : mem'[a] # NoHdr /\ ~mem'[a].is_free
    BY <1>4, BlockFacts
  <2> QED BY <1>3, <2>1, <2>2 DEF AllocatedMeansHeld, IsHeader
<1>10. RequestServed'
  <2>1. \A q \in Held : q - Meta \in UsedBlocks
    BY DEF UsedBlocks
  <2> QED BY <1>1, <1>3, <1>4, <2>1 DEF HeapInv, RequestServed
<1>11. HeapInv'
  BY <1>6, <1>7, <1>8, <1>9, <1>10 DEF HeapInv
<1> QED BY <1>3, <1>4, <1>11
-----------------------------------------------------------------------------
(* mm_alloc: a block is cut to size, its tail may become a block. *)

\* The block found is free, lies in the heap, and every other block lies
\* before it or behind its end.
LEMMA FoundBlock ==
    ASSUME HeapInv, mapped, NEW size \in Nat, size > 0, NEW i \in Fits(size)
    PROVE  LET b == free_list[i] IN
           /\ i \in 1 .. Len(free_list) /\ b \in FreeBlocks /\ b \notin UsedBlocks
           /\ b \in Addr /\ b \in Nat /\ b + Meta \in Addr /\ mem[b] \in Header
           /\ mem[b].size \in Nat /\ mem[b].size >= size
           /\ b + Meta + mem[b].size <= MaxHeap
           /\ b + Meta + mem[b].size <= heap_size
           /\ \A c \in FreeBlocks \cup UsedBlocks :
                /\ c < b => c + Meta + mem[c].size <= b
                /\ c > b => c >= b + Meta + mem[b].size
<1> DEFINE b == free_list[i]
<1>1. i \in 1 .. Len(free_list) /\ b \in FreeBlocks /\ mem[b].is_free /\ mem[b].size >= size
  BY DEF Fits, FreeBlocks, HeapInv, TypeOK
<1>2. b \in Addr /\ mem[b] \in Header /\ mem[b].size \in Nat /\ b \notin UsedBlocks
  BY <1>1, BlockFacts
<1> HIDE DEF b
<1>3. b \in Nat /\ heap_size \in Nat /\ heap_size <= MaxHeap /\ MaxHeap \in Nat /\ Meta \in Nat
  BY <1>2, BlockFacts DEF Addr, HeapInv, TypeOK, Shape
<1>4. b + Meta + mem[b].size <= heap_size
  BY <1>1, BlocksApart
<1>5. b + Meta \in Addr
  BY <1>1, <1>2, <1>3, <1>4 DEF Addr
<1>6. \A c \in FreeBlocks \cup UsedBlocks :
        /\ c < b => c + Meta + mem[c].size <= b
        /\ c > b => c >= b + Meta + mem[b].size
  BY <1>1, BlocksApart
<1> QED BY <1>1, <1>2, <1>3, <1>4, <1>5, <1>6 DEF b

\* What cutting the block leaves: the block in use, every other block as it
\* was, and as the only new free block the tail (rest) when there is one.
\* (b, rest and end only name terms.)
LEMMA CarveResult ==
    ASSUME HeapInv, mapped, NEW size \in Nat, size > 0, NEW i \in Fits(size), Carve(i, size),
           NEW b \in Nat, b = free_list[i], NEW rest \in Nat, rest = b + Meta + size,
           NEW end \in Nat, end = b + Meta + mem[b].size
    PROVE  /\ mem' \in [Addr -> Header \cup {NoHdr}]
           /\ mem'[b] = [is_free |-> FALSE, size |-> size]
           /\ \A c \in FreeBlocks \cup UsedBlocks : c # b => mem'[c] = mem[c]
           /\ \A a \in Addr : a # b =>
                mem'[a] = mem[a] \/ mem'[a] = NoHdr \/ mem'[a].is_free
           /\ free_list' \in Seq(Addr)
           /\ \A j, k \in DOMAIN free_list' : j < k => free_list'[j] < free_list'[k]
           /\ \A c \in FreeBlocks' :
                \/ c \in FreeBlocks /\ c # b
                \/ /\ c = rest /\ rest + Meta < end
                   /\ mem'[c] # NoHdr /\ mem'[c].is_free
                   /\ mem'[c].size = end - rest - Meta
<1> DEFINE used == [mem EXCEPT ![b] = [is_free |-> FALSE, size |-> size]]
           h ==  [is_free |-> TRUE, size |-> mem[b].size - size - Meta]
<1>1. /\ i \in 1 .. Len(free_list) /\ b \in FreeBlocks
      /\ b \in Addr /\ b \in Nat /\ mem[b].size \in Nat /\ mem[b].size >= size
      /\ end <= MaxHeap
  BY FoundBlock
<1>8. \A c \in FreeBlocks \cup UsedBlocks : c > b => c >= end
  BY FoundBlock
<1>2. /\ Meta \in Nat \ {0} /\ MaxHeap \in Nat
      /\ mem \in [Addr -> Header \cup {NoHdr}] /\ free_list \in Seq(Addr)
  BY BlockFacts DEF HeapInv, TypeOK
<1>1a. mem[b].size \in Nat /\ mem[b].size >= size
  BY <1>1
<1>2a. Meta \in Nat /\ Meta > 0
  BY <1>2
<1>2b. ASSUME NEW z \in Nat, end = b + Meta + z
       PROVE  z - size - Meta = end - rest - Meta
  BY <1>2a, <1>2b
<1>9. \A j, k \in DOMAIN free_list : j < k => free_list[j] < free_list[k]
  BY DEF HeapInv, FreeListSorted
<1>3. used \in [Addr -> Header \cup {NoHdr}]
  BY <1>2 DEF Header
<1>4. used[b] = [is_free |-> FALSE, size |-> size] /\ \A a \in Addr : a # b => used[a] = mem[a]
  BY <1>1, <1>2
<1>5. \A c \in FreeBlocks \cup UsedBlocks : c \in Addr /\ c \in Nat
  BY BlockFacts DEF Addr
<1>6. CASE Splits(b, size)
  <2>1. mem[b].size > size + Meta
    BY <1>6 DEF Splits
  <2>2. mem' = PutHeader(used, rest, h) /\ free_list' = [free_list EXCEPT ![i] = rest]
    BY <1>6 DEF Carve
  <2>3. h \in Header /\ h # NoHdr
    <3>1. mem[b].size - size - Meta \in Nat
      BY <1>1a, <1>2a, <2>1
    <3>2. h \in Header
      BY <3>1 DEF Header
    <3> QED BY <3>2, HeaderIsNotNoHdr
  <2>4. rest \in Nat /\ rest + Meta < end /\ rest > b /\ end \in Nat
    BY <1>1a, <1>2a, <2>1
  <2>4a. rest \in Addr
    BY <1>1, <1>2, <2>4, SMTT(40) DEF Addr
  <2> HIDE DEF used, h
  <2>5. \A a \in Addr : mem'[a] = IF a = rest THEN h
                                  ELSE IF a \in (rest + 1) .. (rest + Meta - 1) THEN NoHdr
                                  ELSE used[a]
    BY <2>2 DEF PutHeader
  <2>6. mem' \in [Addr -> Header \cup {NoHdr}]
    BY <1>3, <2>2, <2>3 DEF PutHeader
  <2>7. mem'[rest] = h
    BY <2>4a, <2>5
  <2>8. \A a \in Addr : a <= b \/ a >= end => mem'[a] = used[a]
    <3> SUFFICES ASSUME NEW a \in Addr, a <= b \/ a >= end PROVE mem'[a] = used[a]
      OBVIOUS
    <3>1. a \in Nat
      BY DEF Addr
    <3>2. a # rest
      BY <1>2a, <2>4, <3>1
    <3>3. ~(rest + 1 <= a /\ a <= rest + Meta - 1)
      <4>1. CASE a <= b
        BY <2>4, <3>1, <4>1
      <4>2. CASE a >= end
        BY <1>2, <2>4, <3>1, <4>2, SMTT(40)
      <4> QED BY <4>1, <4>2
    <3>4. a \notin (rest + 1) .. (rest + Meta - 1)
      BY <3>3
    <3> QED BY <2>5, <3>2, <3>4
  <2>9. mem'[b] = [is_free |-> FALSE, size |-> size]
    BY <1>1, <1>4, <2>8
  <2>10. \A c \in FreeBlocks \cup UsedBlocks : c # b => mem'[c] = mem[c]
    <3> SUFFICES ASSUME NEW c \in FreeBlocks \cup UsedBlocks, c # b PROVE mem'[c] = mem[c]
      OBVIOUS
    <3>1. c <= b \/ c >= end
      BY <1>1, <1>5, <1>8
    <3>2. c \in Addr
      BY <1>5
    <3> QED BY <1>4, <2>8, <3>1, <3>2
  <2>11. \A a \in Addr : a # b =>
           mem'[a] = mem[a] \/ mem'[a] = NoHdr \/ mem'[a].is_free
    <3>1. h.is_free
      BY DEF h
    <3> QED BY <1>4, <2>5, <3>1
  <2>12. free_list' \in Seq(Addr) /\ Len(free_list') = Len(free_list)
    BY <1>1, <1>2, <2>2, <2>4a, ExceptSeq
  <2>13. \A j \in 1 .. Len(free_list) :
            free_list'[j] = IF j = i THEN rest ELSE free_list[j]
    BY <1>2, <2>2
  <2>14. \A j \in 1 .. Len(free_list) :
            free_list[j] \in FreeBlocks /\ free_list[j] \in Nat
    BY <1>2, <1>5 DEF FreeBlocks
  <2>15. ASSUME NEW j \in DOMAIN free_list', NEW k \in DOMAIN free_list', j < k
         PROVE  free_list'[j] < free_list'[k]
    <3>1. j \in 1 .. Len(free_list) /\ k \in 1 .. Len(free_list)
      BY <2>12
    <3>2. free_list[j] < free_list[k]
      BY <1>2, <1>9, <2>15, <3>1
    <3>3. CASE j = i
      <4>1. free_list[k] > b /\ free_list[k] \in FreeBlocks
        BY <2>14, <3>1, <3>2, <3>3
      <4>2. free_list[k] >= end
        BY <1>8, <4>1
      <4>3. free_list[k] \in Nat
        BY <2>14, <3>1
      <4>5. k # i
        BY <1>1, <2>15, <3>1, <3>3
      <4>6. rest < end
        BY <1>2a, <2>4
      <4>4. rest < free_list[k]
        BY <2>4, <4>2, <4>3, <4>6
      <4> QED BY <2>13, <3>1, <3>3, <4>5, <4>4
    <3>4. CASE k = i
      <4>1. free_list[j] < rest
        BY <1>1, <2>4, <2>14, <3>1, <3>2, <3>4
      <4>2. j # i
        BY <2>15, <3>1, <3>4
      <4> QED BY <2>13, <3>1, <3>4, <4>1, <4>2
    <3>5. CASE j # i /\ k # i
      BY <2>13, <3>1, <3>2, <3>5
    <3> QED BY <3>3, <3>4, <3>5
  <2>16. ASSUME NEW c \in FreeBlocks'
         PROVE  \/ c \in FreeBlocks /\ c # b
                \/ /\ c = rest /\ rest + Meta < end
                   /\ mem'[c] # NoHdr /\ mem'[c].is_free
                   /\ mem'[c].size = end - rest - Meta
    <3>1. PICK j \in 1 .. Len(free_list) : c = free_list'[j]
      BY <2>12 DEF FreeBlocks
    <3>2. CASE j = i
      <4>1. h.is_free /\ h.size = end - rest - Meta
        <5>1. h.is_free
          BY DEF h
        <5>2. h.size = mem[b].size - size - Meta
          BY DEF h
        <5>3. PICK z \in Nat : z = mem[b].size
          BY <1>1
        <5>4. end = b + Meta + z
          BY <5>3
        <5>6. z - size - Meta = end - rest - Meta
          BY <1>2b, <5>4
        <5> QED BY <5>1, <5>2, <5>3, <5>6
      <4> QED BY <2>3, <2>4, <2>7, <2>13, <3>1, <3>2, <4>1
    <3>3. CASE j # i
      <4>1. i \in DOMAIN free_list /\ j \in DOMAIN free_list /\ (j < i \/ i < j)
        BY <1>1, <1>2, <3>3, SMTT(40)
      <4>2. free_list[j] < free_list[i] \/ free_list[i] < free_list[j]
        BY <1>2, <1>9, <4>1
      <4>3. free_list[j] # free_list[i]
        BY <1>1, <2>14, <4>2
      <4> QED BY <2>13, <2>14, <3>1, <3>3, <4>3
    <3> QED BY <3>2, <3>3
  <2> QED BY <2>6, <2>9, <2>10, <2>11, <2>12, <2>15, <2>16
<1>7. CASE ~Splits(b, size)
  <2>1. mem' = used /\ free_list' = RemoveAt(free_list, i)
    BY <1>7 DEF Carve
  <2> HIDE DEF used
  <2>2. /\ free_list' \in Seq(Addr) /\ Len(free_list') = Len(free_list) - 1
        /\ \A j \in 1 .. Len(free_list) - 1 :
             free_list'[j] = free_list[IF j < i THEN j ELSE j + 1]
    <3>1. i \in 1 .. Len(free_list) /\ free_list \in Seq(Addr)
      BY <1>1, <1>2
    <3>2. /\ RemoveAt(free_list, i) \in Seq(Addr)
          /\ Len(RemoveAt(free_list, i)) = Len(free_list) - 1
          /\ \A j \in 1 .. Len(free_list) - 1 :
               RemoveAt(free_list, i)[j] = free_list[IF j < i THEN j ELSE j + 1]
      BY <3>1, RemoveAtElements
    <3> QED BY <2>1, <3>2
  <2>3. Len(free_list) \in Nat
    BY <1>2
  <2>4. ASSUME NEW j \in DOMAIN free_list', NEW k \in DOMAIN free_list', j < k
        PROVE  free_list'[j] < free_list'[k]
    <3> DEFINE old(x) == IF x < i THEN x ELSE x + 1
    <3>1. j \in 1 .. Len(free_list) - 1 /\ k \in 1 .. Len(free_list) - 1
      BY <2>2, SMTT(40)
    <3>2. old(j) \in 1 .. Len(free_list) /\ old(k) \in 1 .. Len(free_list) /\ old(j) < old(k)
      BY <1>1, <2>3, <2>4, <3>1, SMTT(40)
    <3>3. free_list[old(j)] < free_list[old(k)]
      BY <1>2, <1>9, <3>2, SMTT(40)
    <3> QED BY <2>2, <3>1, <3>3
  <2>5. ASSUME NEW c \in FreeBlocks'
        PROVE  c \in FreeBlocks /\ c # b
    <3>1. PICK j \in 1 .. Len(free_list) - 1 : c = free_list'[j]
      BY <2>2 DEF FreeBlocks
    <3> DEFINE o == IF j < i THEN j ELSE j + 1
    <3>2. c = free_list[o] /\ o \in 1 .. Len(free_list) /\ o # i
      BY <1>1, <2>2, <2>3, <3>1, SMTT(40)
    <3> HIDE DEF o
    <3>3. free_list[o] # free_list[i]
      <4>1. i \in DOMAIN free_list /\ o \in DOMAIN free_list /\ (o < i \/ i < o)
        BY <1>1, <1>2, <3>2, SMTT(40)
      <4>2. free_list[o] < free_list[i] \/ free_list[i] < free_list[o]
        BY <1>9, <4>1
      <4>3. free_list[i] \in Nat
        OBVIOUS
      <4> QED BY <4>2, <4>3
    <3> QED BY <1>2, <3>2, <3>3 DEF FreeBlocks
  <2> QED BY <1>3, <1>4, <1>5, <2>1, <2>2, <2>4, <2>5
<1> QED BY <1>6, <1>7

\* mm_alloc from the free list: one block more is used, the others are untouched.
LEMMA AllocBlockPreserves ==
    ASSUME HeapInv, NoWrap, NEW n \in Requests, AllocBlock(n)
    PROVE  /\ HeapInv'
           /\ \E b : /\ b \notin UsedBlocks /\ UsedBlocks' = UsedBlocks \cup {b}
                    /\ mem'[b].size = align_up(n, Align)
                    /\ \A c \in UsedBlocks : mem'[c] = mem[c]
<1> DEFINE size == align_up(n, Align)
<1>1. n \in Nat /\ n # 0 /\ size \in Nat /\ size >= n /\ size > 0 /\ mapped
  <2>1. n \in Nat /\ Align \in Nat \ {0} /\ n # 0 /\ mapped
    BY ConstantsAssumption DEF AllocBlock
  <2>2. size \in Nat /\ size >= n
    BY <2>1, AlignUpType, AlignUpCovers DEF NoWrap
  <2> QED BY <2>1, <2>2
<1>2. PICK i \in Fits(size) :
        /\ Carve(i, size)
        /\ asked' = [asked EXCEPT ![free_list[i] + Meta] = n]
  BY DEF AllocBlock
<1>3. UNCHANGED <<mapped, heap_size, libc>> /\ current_allocated' = current_allocated + size
  BY DEF AllocBlock
<1> HIDE DEF size
<1>4. PICK b \in Nat, rest \in Nat, end \in Nat :
        b = free_list[i] /\ rest = b + Meta + size /\ end = b + Meta + mem[b].size
  <2>1. free_list[i] \in Nat /\ mem[free_list[i]].size \in Nat
    BY <1>1, <1>2, FoundBlock
  <2>2. Meta \in Nat
    BY BlockFacts
  <2> QED BY <1>1, <2>1, <2>2
<1>5. /\ b \in FreeBlocks /\ b \notin UsedBlocks /\ b \in Addr /\ b + Meta \in Addr
      /\ end <= heap_size
  BY <1>1, <1>2, <1>4, FoundBlock
<1>6. \A c \in FreeBlocks \cup UsedBlocks :
         /\ c < b => c + Meta + mem[c].size <= b
         /\ c > b => c >= end
  BY <1>1, <1>2, <1>4, FoundBlock
<1>7. /\ Meta \in Nat \ {0} /\ heap_size \in Nat /\ rest > b
      /\ rest <= end
  <2>1. mem[b].size \in Nat /\ mem[b].size >= size
    BY <1>1, <1>2, <1>4, FoundBlock
  <2>2. Meta \in Nat \ {0}
    BY BlockFacts
  <2>3. heap_size \in Nat
    BY DEF HeapInv, TypeOK
  <2>4. PICK z \in Nat : z = mem[b].size
    BY <2>1
  <2>5. rest > b
    BY <1>1, <1>4, <2>2
  <2>6. rest <= end
    <3>1. end = b + Meta + z
      BY <1>4, <2>4
    <3>2. size <= z
      BY <2>1, <2>4
    <3> QED BY <1>1, <1>4, <2>2, <3>1, <3>2
  <2> QED BY <2>2, <2>3, <2>5, <2>6
<1>8. /\ mem' \in [Addr -> Header \cup {NoHdr}]
      /\ mem'[b] = [is_free |-> FALSE, size |-> size]
      /\ \A c \in FreeBlocks \cup UsedBlocks : c # b => mem'[c] = mem[c]
      /\ \A a \in Addr : a # b =>
           mem'[a] = mem[a] \/ mem'[a] = NoHdr \/ mem'[a].is_free
      /\ free_list' \in Seq(Addr)
      /\ \A j, k \in DOMAIN free_list' : j < k => free_list'[j] < free_list'[k]
      /\ \A c \in FreeBlocks' :
           \/ c \in FreeBlocks /\ c # b
           \/ /\ c = rest /\ rest + Meta < end
              /\ mem'[c] # NoHdr /\ mem'[c].is_free
              /\ mem'[c].size = end - rest - Meta
  <2>1. HeapInv /\ mapped /\ size \in Nat /\ size > 0 /\ i \in Fits(size) /\ Carve(i, size)
    BY <1>1, <1>2
  <2>2. b \in Nat /\ rest \in Nat /\ end \in Nat
    OBVIOUS
  <2> QED BY <1>4, <2>1, <2>2, CarveResult
<1>9. \A c \in FreeBlocks \cup UsedBlocks : c # b => mem'[c] = mem[c]
  BY <1>8
<1>10. \A a \in Addr : a # b =>
         mem'[a] = mem[a] \/ mem'[a] = NoHdr \/ mem'[a].is_free
  BY <1>8
<1>11. \A j, k \in DOMAIN free_list' : j < k => free_list'[j] < free_list'[k]
  BY <1>8
<1>12. \A c \in FreeBlocks' :
          \/ c \in FreeBlocks /\ c # b
          \/ /\ c = rest /\ rest + Meta < end
             /\ mem'[c] # NoHdr /\ mem'[c].is_free
             /\ mem'[c].size = end - rest - Meta
  BY <1>8
<1>13. /\ asked' \in [Addr -> Nat] /\ asked'[b + Meta] = n
       /\ \A q \in Addr : q # b + Meta => asked'[q] = asked[q]
  BY <1>1, <1>2, <1>4, <1>5 DEF HeapInv, TypeOK
<1>14. /\ Held' = Held \cup {b + Meta}
       /\ UsedBlocks' = UsedBlocks \cup {b}
  <2>1. Held' = Held \cup {b + Meta}
    BY <1>1, <1>5, <1>13 DEF Held
  <2>2. (b + Meta) - Meta = b
    BY <1>7
  <2> QED BY <2>1, <2>2 DEF UsedBlocks
<1>15. mem'[b] # NoHdr /\ ~mem'[b].is_free /\ mem'[b].size = size
  <2>1. mem'[b] \in Header
    BY <1>1, <1>8 DEF Header
  <2>2. mem'[b] # NoHdr
    BY <2>1, HeaderIsNotNoHdr
  <2>3. ~mem'[b].is_free
    BY <1>8
  <2>4. mem'[b].size = size
    BY <1>8
  <2> QED BY <2>2, <2>3, <2>4
<1>16. TypeOK'
  <2>1. current_allocated' \in Int
    BY <1>1, <1>3 DEF HeapInv, TypeOK
  <2> QED BY <1>3, <1>8, <1>13, <2>1 DEF HeapInv, TypeOK
<1>17. Shape'
  <2>1. b + Meta >= Meta
    BY <1>7
  <2> QED BY <1>1, <1>3, <1>14, <2>1 DEF HeapInv, Shape
<1>18. FreeListSorted'
  <2>1. \A c \in FreeBlocks : c # b => mem'[c] # NoHdr /\ mem'[c].is_free
    BY <1>9, BlockFacts
  <2> QED BY <1>11, <1>12, <2>1 DEF FreeListSorted, IsHeader
<1>19. \A c \in FreeBlocks' \cup UsedBlocks' :
         \/ /\ c \in FreeBlocks \cup UsedBlocks /\ c # b /\ c \in Nat
            /\ mem'[c] = mem[c] /\ mem[c] # NoHdr /\ mem[c].size \in Nat
            /\ c + Meta + mem[c].size <= heap_size
            /\ ((c < b /\ c + Meta + mem[c].size <= b) \/ (c > b /\ c >= end))
         \/ c = b /\ mem'[c] # NoHdr /\ mem'[c].size = size
         \/ /\ c = rest /\ rest + Meta < end
            /\ mem'[c] # NoHdr /\ mem'[c].size = end - rest - Meta
  <2> SUFFICES ASSUME NEW c \in FreeBlocks \cup UsedBlocks, c # b
               PROVE  /\ c \in Nat
                      /\ mem'[c] = mem[c] /\ mem[c] # NoHdr /\ mem[c].size \in Nat
                      /\ c + Meta + mem[c].size <= heap_size
                      /\ ((c < b /\ c + Meta + mem[c].size <= b) \/ (c > b /\ c >= end))
    BY <1>12, <1>14, <1>15
  <2>1. c \in Nat /\ mem'[c] = mem[c] /\ mem[c] # NoHdr /\ mem[c].size \in Nat
    BY <1>9, BlockFacts DEF Addr
  <2>2. c + Meta + mem[c].size <= heap_size
    BY BlocksApart
  <2>3. c < b \/ c > b
    BY <2>1
  <2>4. (c < b /\ c + Meta + mem[c].size <= b) \/ (c > b /\ c >= end)
    BY <1>6, <2>3
  <2> QED BY <2>1, <2>2, <2>4, Zenon
<1>20. BlocksDisjoint'
  <2> SUFFICES ASSUME NEW a \in FreeBlocks' \cup UsedBlocks', NEW c \in FreeBlocks' \cup UsedBlocks'
               PROVE  /\ mem'[a] # NoHdr
                      /\ a + Meta + mem'[a].size <= heap_size
                      /\ a < c => a + Meta + mem'[a].size <= c
    BY <1>3 DEF BlocksDisjoint, IsHeader, EndOf
  <2> DEFINE Old(x) == /\ x \in FreeBlocks \cup UsedBlocks /\ x # b /\ x \in Nat
                       /\ mem'[x] = mem[x] /\ mem[x] # NoHdr /\ mem[x].size \in Nat
                       /\ x + Meta + mem[x].size <= heap_size
                       /\ ((x < b /\ x + Meta + mem[x].size <= b) \/ (x > b /\ x >= end))
             Used(x) == x = b /\ mem'[x] # NoHdr /\ mem'[x].size = size
             Rest(x) == /\ x = rest /\ rest + Meta < end
                        /\ mem'[x] # NoHdr /\ mem'[x].size = end - rest - Meta
  <2>1. (Old(a) \/ Used(a) \/ Rest(a)) /\ (Old(c) \/ Used(c) \/ Rest(c))
    BY <1>19
  <2>2. CASE Old(a)
    <3>1. mem'[a] # NoHdr /\ a + Meta + mem'[a].size <= heap_size
      BY <2>2
    <3>2. CASE Old(c)
      <4>1. a < c => a + Meta + mem[a].size <= c
        BY <2>2, <3>2, BlocksApart
      <4> QED BY <2>2, <3>1, <4>1
    <3>3. CASE Used(c) \/ Rest(c)
      BY <1>4, <1>7, <2>2, <3>1, <3>3
    <3> QED BY <2>1, <3>2, <3>3
  <2>3. CASE Used(a)
    <3>1. a + Meta + mem'[a].size = rest
      BY <1>4, <2>3
    <3>2. a < c => c >= rest
      BY <1>1, <1>4, <1>7, <2>1, <2>3
    <3> QED BY <1>5, <1>7, <2>3, <3>1, <3>2
  <2>4. CASE Rest(a)
    <3>1. a + Meta + mem'[a].size = end
      BY <1>7, <2>4
    <3>2. a < c => c >= end
      BY <1>4, <1>7, <2>1, <2>4
    <3> QED BY <1>5, <2>4, <3>1, <3>2
  <2> QED BY <2>1, <2>2, <2>3, <2>4
<1>21. Coalesced'
  <2> SUFFICES ASSUME NEW a \in FreeBlocks', NEW c \in FreeBlocks'
               PROVE  a + Meta + mem'[a].size # c
    BY DEF Coalesced, EndOf
  <2>1. \A x \in FreeBlocks, y \in FreeBlocks : x + Meta + mem[x].size # y
    BY DEF HeapInv, Coalesced, EndOf
  <2>2. \A x \in FreeBlocks : x # b => /\ x \in Nat /\ mem[x].size \in Nat
                                       /\ mem'[x] = mem[x] /\ (x > b => x >= end)
                                       /\ (x < b => x + Meta + mem[x].size <= b)
    BY <1>6, <1>9, BlockFacts DEF Addr
  <2>3. CASE a # rest /\ c # rest
    BY <1>12, <2>1, <2>2, <2>3
  <2>4. CASE a = rest /\ c # rest
    <3>1. mem'[a].size = end - rest - Meta \/ (a \in FreeBlocks /\ a # b)
      BY <1>12
    <3>2. end # c
      BY <1>4, <1>5, <1>12, <2>1, <2>4
    <3>3. CASE mem'[a].size = end - rest - Meta
      <4>1. a + Meta + mem'[a].size = end
        BY <1>7, <2>4, <3>3
      <4> QED BY <3>2, <4>1
    <3>4. CASE a \in FreeBlocks /\ a # b
      BY <1>12, <2>1, <2>2, <2>4, <3>4
    <3> QED BY <3>1, <3>3, <3>4
  <2>5. CASE a # rest /\ c = rest
    <3>1. a \in FreeBlocks /\ a # b
      BY <1>12, <2>5
    <3>2. PICK z \in Nat : z = mem'[a].size /\ a \in Nat
                           /\ (a > b => a >= end) /\ (a < b => a + Meta + z <= b)
      BY <2>2, <3>1
    <3>3. a + Meta + z # rest
      <4>1. CASE a < b
        BY <1>7, <3>2, <4>1
      <4>2. CASE a > b
        BY <1>7, <3>2, <4>2
      <4> QED BY <3>1, <3>2, <4>1, <4>2
    <3> QED BY <2>5, <3>2, <3>3
  <2>6. CASE a = rest /\ c = rest
    <3>1. mem'[a].size \in Nat
      <4>1. CASE a \in FreeBlocks /\ a # b
        BY <2>2, <4>1
      <4>2. CASE rest + Meta < end /\ mem'[a].size = end - rest - Meta
        BY <1>7, <4>2
      <4> QED BY <1>12, <2>6, <4>1, <4>2
    <3> QED BY <1>7, <2>6, <3>1
  <2> QED BY <2>3, <2>4, <2>5, <2>6
<1>22. AllocatedMeansHeld'
  <2>1. \A a \in Addr : a # b /\ mem'[a] # NoHdr /\ ~mem'[a].is_free => a \in UsedBlocks
    BY <1>10 DEF HeapInv, AllocatedMeansHeld, IsHeader
  <2>2. \A a \in UsedBlocks : mem'[a] # NoHdr /\ ~mem'[a].is_free
    BY <1>5, <1>9, BlockFacts
  <2> QED BY <1>14, <1>15, <2>1, <2>2 DEF AllocatedMeansHeld, IsHeader
<1>23. RequestServed'
  <2>1. \A q \in Held : q \in Addr /\ q - Meta \in UsedBlocks /\ q - Meta # b
                        /\ mem[q - Meta].size >= asked[q]
    BY <1>5 DEF UsedBlocks, Held, HeapInv, RequestServed
  <2>2. (b + Meta) - Meta = b
    BY <1>7
  <2>3. \A q \in Held : q # b + Meta
    BY <2>1, <2>2
  <2>4. mem'[b].size >= asked'[b + Meta]
    BY <1>1, <1>13, <1>15
  <2>5. \A q \in Held : mem'[q - Meta].size >= asked'[q]
    BY <1>9, <1>13, <2>1, <2>3
  <2> QED BY <1>14, <2>2, <2>4, <2>5 DEF RequestServed
<1>24. HeapInv'
  BY <1>16, <1>17, <1>18, <1>20, <1>21, <1>22, <1>23 DEF HeapInv
<1>25. mem'[b].size = align_up(n, Align) /\ \A c \in UsedBlocks : mem'[c] = mem[c]
  BY <1>5, <1>9, <1>15 DEF size
<1> QED BY <1>5, <1>14, <1>24, <1>25
-----------------------------------------------------------------------------
(* mm_free: where the block goes in the list. *)

\* The place mm_free finds in the free list is behind the lower addresses.
LEMMA InsertPosFacts ==
    ASSUME free_list \in Seq(Addr), NEW b \in Nat
    PROVE  /\ InsertPos(b) \in 1 .. Len(free_list) + 1
           /\ \A i \in 1 .. InsertPos(b) - 1 : free_list[i] < b
           /\ InsertPos(b) <= Len(free_list) => free_list[InsertPos(b)] >= b
<1> DEFINE n == Len(free_list)
           T == {k \in 1 .. n + 1 : k <= n => free_list[k] >= b}
           Good(k) == /\ \A i \in 1 .. k - 1 : free_list[i] < b
                      /\ k <= Len(free_list) => free_list[k] >= b
<1>1. n \in Nat
  OBVIOUS
<1>2. T \subseteq Nat /\ n + 1 \in T
  BY <1>1
<1>3. PICK k \in T : \A y \in T : k <= y
  <2> HIDE DEF T
  <2> QED BY <1>2, HasLeast
<1>4. k \in 1 .. n + 1 /\ (k <= n => free_list[k] >= b)
  OBVIOUS
<1>5. ASSUME NEW i \in 1 .. k - 1 PROVE free_list[i] < b
  <2>1. i \in 1 .. n /\ i < k
    BY <1>1, <1>4
  <2>2. i \notin T
    <3> HIDE DEF T
    <3> QED BY <1>3, <1>4, <2>1
  <2>3. free_list[i] \in Addr
    BY <2>1
  <2>4. free_list[i] \in Nat
    BY <2>3 DEF Addr
  <2> QED BY <2>1, <2>2, <2>4
<1>6. \E j \in 1 .. Len(free_list) + 1 : Good(j)
  BY <1>4, <1>5
<1>7. InsertPos(b) = CHOOSE j \in 1 .. Len(free_list) + 1 : Good(j)
  BY DEF InsertPos
<1> HIDE DEF Good
<1>8. InsertPos(b) \in 1 .. Len(free_list) + 1 /\ Good(InsertPos(b))
  BY <1>6, <1>7
<1> QED BY <1>8 DEF Good

\* Where a block b handed out goes: what is listed before its place lies below
\* it, what is listed from there on lies behind it.
LEMMA PlaceInList ==
    ASSUME HeapInv, NEW b \in UsedBlocks,
           NEW k \in Nat, k = InsertPos(b), NEW n \in Nat, n = Len(free_list)
    PROVE  /\ k \in 1 .. n + 1 /\ b \in Nat /\ b \in Addr
           /\ \A i \in 1 .. n : free_list[i] \in FreeBlocks /\ free_list[i] \in Nat
           /\ \A i \in 1 .. n : i < k => free_list[i] < b
           /\ \A i \in 1 .. n : i >= k => free_list[i] > b
           /\ \A i, j \in 1 .. n : i < j => free_list[i] < free_list[j]
<1>1. /\ free_list \in Seq(Addr) /\ n \in Nat /\ b \in Addr /\ b \in Nat
      /\ b \notin FreeBlocks
  BY BlockFacts, SMTT(40) DEF HeapInv, TypeOK, Addr
<1>2. \A i \in 1 .. n : free_list[i] \in Addr /\ free_list[i] \in FreeBlocks
  BY <1>1 DEF FreeBlocks
<1>3. \A i \in 1 .. n : free_list[i] \in Nat
  BY <1>2 DEF Addr
<1>4. \A i, j \in 1 .. n : i < j => free_list[i] < free_list[j]
  BY <1>1 DEF HeapInv, FreeListSorted
<1>5. /\ k \in 1 .. n + 1
      /\ \A i \in 1 .. k - 1 : free_list[i] < b
      /\ k <= n => free_list[k] >= b
  BY <1>1, InsertPosFacts
<1>6. \A i \in 1 .. n : i < k => free_list[i] < b
  BY <1>1, <1>5
<1>7. ASSUME NEW i \in 1 .. n, i >= k PROVE free_list[i] > b
  <2>1. k \in 1 .. n /\ free_list[k] \in Nat /\ free_list[k] # b
    BY <1>1, <1>2, <1>3, <1>5, <1>7
  <2>2. free_list[k] > b
    BY <1>1, <1>5, <2>1
  <2>3. free_list[i] \in Nat /\ (k < i => free_list[k] < free_list[i])
    BY <1>3, <1>4, <2>1
  <2>4. k = i \/ k < i
    BY <1>1, <1>5, <1>7
  <2> QED BY <1>1, <2>1, <2>2, <2>3, <2>4
<1> QED BY <1>1, <1>2, <1>3, <1>4, <1>5, <1>6, <1>7

\* The list s with its positions k .. m - 1 replaced by mid, and what is to be
\* shown of it when mid is empty or holds the one value b that belongs there.
Spliced(s, k, mid, m) == SubSeq(s, 1, k - 1) \o mid \o SubSeq(s, m, Len(s))

SplicedInOrder(t, s, b, k, mid, m) ==
    /\ \A i, j \in DOMAIN t : i < j => t[i] < t[j]
    /\ \A j \in DOMAIN t :
         \/ \E i \in 1 .. k - 1 : t[j] = s[i]
         \/ Len(mid) = 1 /\ t[j] = b
         \/ \E i \in m .. Len(s) : t[j] = s[i]
    /\ \A i \in 1 .. k - 1 : \E j \in DOMAIN t : t[j] = s[i]
    /\ Len(mid) = 1 => \E j \in DOMAIN t : t[j] = b

\* An ascending list stays one when a part of it gives way to an element in order.
LEMMA SortedSplice ==
    ASSUME NEW s \in Seq(Nat), NEW mid \in Seq(Nat), NEW b \in Nat,
           NEW k \in 1 .. Len(s) + 1, NEW m \in k .. Len(s) + 1,
           Len(mid) <= 1, Len(mid) = 1 => mid[1] = b,
           \A i \in 1 .. Len(s) : i < k => s[i] < b,
           \A i \in 1 .. Len(s) : i >= k => s[i] > b,
           \A i, j \in 1 .. Len(s) : i < j => s[i] < s[j]
    PROVE  SplicedInOrder(Spliced(s, k, mid, m), s, b, k, mid, m)
<1> DEFINE l == SubSeq(s, 1, k - 1)
           r == SubSeq(s, m, Len(s))
           t == l \o mid \o r
<1>1. l \in Seq(Nat) /\ r \in Seq(Nat)
  BY SMTT(40)
<1>2. Len(l) = k - 1 /\ \A j \in 1 .. k - 1 : l[j] = s[j]
  OBVIOUS
<1>3. Len(r) = Len(s) - m + 1 /\ \A j \in 1 .. Len(s) - m + 1 : r[j] = s[m + j - 1]
  OBVIOUS
<1> HIDE DEF l, r
<1>4. /\ t \in Seq(Nat) /\ Len(t) = Len(l) + Len(mid) + Len(r)
      /\ \A j \in 1 .. Len(l) + Len(mid) + Len(r) :
           t[j] = IF j <= Len(l) THEN l[j]
                  ELSE IF j <= Len(l) + Len(mid) THEN mid[j - Len(l)]
                  ELSE r[j - Len(l) - Len(mid)]
  BY <1>1
<1> HIDE DEF t
<1>5. PICK n \in Nat, w \in Nat : n = Len(s) /\ w = Len(mid)
  OBVIOUS
<1>6. PICK z \in Nat : z = (k - 1) + w + (n - m + 1) /\ z = Len(t)
  <2>1. Len(t) = (k - 1) + w + (n - m + 1)
    BY <1>2, <1>3, <1>4, <1>5
  <2>2. Len(t) \in Nat
    BY <1>4
  <2> QED BY <2>1, <2>2
<1>7. /\ k \in Nat /\ m \in Nat /\ 1 <= k /\ k <= m /\ m <= n + 1 /\ w <= 1
      /\ z = (k - 1) + w + (n - m + 1)
  BY <1>5, <1>6
<1>8. DOMAIN t = 1 .. z
  BY <1>4, <1>6
<1>9. /\ \A i \in 1 .. n : s[i] \in Nat
      /\ \A i \in 1 .. n : i < k => s[i] < b
      /\ \A i \in 1 .. n : i >= k => s[i] > b
      /\ \A i, j \in 1 .. n : i < j => s[i] < s[j]
  BY <1>5
<1>10. w = 1 => mid[1] = b
  BY <1>5
<1>11. ASSUME NEW j \in 1 .. z
       PROVE  \/ j < k /\ j \in 1 .. n /\ t[j] = s[j]
              \/ j = k /\ w = 1 /\ t[j] = b
              \/ /\ j >= k + w /\ j - k - w + m \in 1 .. n /\ j - k - w + m >= m
                 /\ t[j] = s[j - k - w + m]
  <2>1. CASE j < k
    <3>1. j \in 1 .. n /\ j \in 1 .. k - 1 /\ j <= k - 1
      BY <1>7, <2>1
    <3> QED BY <1>2, <1>3, <1>4, <1>5, <1>6, <1>7, <2>1, <3>1
  <2>2. CASE ~(j < k) /\ j < k + w
    <3>1. j = k /\ w = 1 /\ j - (k - 1) = 1
      BY <1>7, <2>2
    <3>2. t[j] = mid[j - (k - 1)]
      BY <1>2, <1>3, <1>4, <1>5, <1>6, <1>7, <2>2, SMTT(40)
    <3> QED BY <1>10, <3>1, <3>2
  <2>3. CASE ~(j < k + w)
    <3>1. j - (k - 1) - w \in 1 .. n - m + 1 /\ ~(j <= k - 1) /\ ~(j <= (k - 1) + w)
      BY <1>7, <2>3
    <3>2. t[j] = r[j - (k - 1) - w]
      BY <1>2, <1>3, <1>4, <1>5, <1>6, <3>1
    <3>3. r[j - (k - 1) - w] = s[m + (j - (k - 1) - w) - 1]
      BY <1>3, <1>5, <3>1
    <3>4. m + (j - (k - 1) - w) - 1 = j - k - w + m
      BY <1>7
    <3>5. j >= k + w /\ j - k - w + m \in 1 .. n /\ j - k - w + m >= m
      BY <1>7, <2>3
    <3> QED BY <3>2, <3>3, <3>4, <3>5
  <2> QED BY <1>7, <2>1, <2>2, <2>3
<1>12. ASSUME NEW i \in 1 .. z, NEW j \in 1 .. z, i < j
       PROVE  t[i] < t[j]
  <2> DEFINE o(x) == x - k - w + m
  <2>0. \A x \in 1 .. z : x >= k + w => o(x) \in Int /\ o(x) >= k
    BY <1>7
  <2>1. CASE i < k /\ i \in 1 .. n /\ t[i] = s[i]
    <3>1. CASE j < k /\ j \in 1 .. n /\ t[j] = s[j]
      BY <1>9, <1>12, <2>1, <3>1
    <3>2. CASE t[j] = b
      BY <1>9, <2>1, <3>2
    <3>3. CASE j >= k + w /\ o(j) \in 1 .. n /\ t[j] = s[o(j)]
      <4>1. i < o(j)
        BY <1>7, <2>1, <3>3
      <4> HIDE DEF o
      <4> QED BY <1>9, <2>1, <3>3, <4>1
    <3> QED BY <1>11, <3>1, <3>2, <3>3
  <2>2. CASE i = k /\ w = 1 /\ t[i] = b
    <3>1. j >= k + w /\ ~(j < k) /\ j # k
      BY <1>7, <1>12, <2>2
    <3>2. o(j) \in 1 .. n /\ t[j] = s[o(j)]
      BY <1>11, <3>1
    <3>3. o(j) >= k
      BY <2>0, <3>1
    <3> HIDE DEF o
    <3>4. s[o(j)] > b /\ s[o(j)] \in Nat
      BY <1>9, <3>2, <3>3
    <3> QED BY <2>2, <3>2, <3>4
  <2>3. CASE i >= k + w /\ o(i) \in 1 .. n /\ t[i] = s[o(i)]
    <3>1. j >= k + w /\ ~(j < k) /\ ~(j = k /\ w = 1)
      BY <1>7, <1>12, <2>3
    <3>2. o(j) \in 1 .. n /\ t[j] = s[o(j)]
      BY <1>11, <3>1
    <3>3. o(i) < o(j)
      BY <1>7, <1>12
    <3> HIDE DEF o
    <3> QED BY <1>9, <2>3, <3>2, <3>3
  <2> QED BY <1>11, <2>1, <2>2, <2>3
<1>13. ASSUME NEW j \in 1 .. z
       PROVE  \/ \E i \in 1 .. k - 1 : t[j] = s[i]
              \/ Len(mid) = 1 /\ t[j] = b
              \/ \E i \in m .. Len(s) : t[j] = s[i]
  <2>1. CASE j < k /\ t[j] = s[j]
    <3>1. j \in 1 .. k - 1
      BY <1>7, <2>1
    <3> QED BY <2>1, <3>1
  <2>2. CASE w = 1 /\ t[j] = b
    BY <1>5, <2>2
  <2>3. CASE j - k - w + m \in 1 .. n /\ j - k - w + m >= m /\ t[j] = s[j - k - w + m]
    <3>1. j - k - w + m \in m .. Len(s)
      BY <1>5, <1>7, <2>3
    <3> QED BY <2>3, <3>1
  <2> QED BY <1>11, <2>1, <2>2, <2>3
<1>14. ASSUME NEW i \in 1 .. k - 1 PROVE i \in 1 .. z /\ t[i] = s[i]
  <2>1. i \in 1 .. z /\ i < k /\ ~(i >= k + w) /\ i # k
    BY <1>7
  <2> QED BY <1>11, <2>1
<1>15. Len(mid) = 1 => k \in 1 .. z /\ t[k] = b
  <2> SUFFICES ASSUME Len(mid) = 1 PROVE k \in 1 .. z /\ t[k] = b
    OBVIOUS
  <2>1. k \in 1 .. z /\ ~(k < k) /\ ~(k >= k + w)
    BY <1>5, <1>7
  <2> QED BY <1>11, <2>1
<1>16. SplicedInOrder(t, s, b, k, mid, m)
  BY <1>8, <1>12, <1>13, <1>14, <1>15 DEF SplicedInOrder
<1>17. t = Spliced(s, k, mid, m)
  BY DEF t, l, r, Spliced
<1> QED BY <1>16, <1>17

\* The list mm_free leaves: ascending, with b on it unless it was merged into
\* the block before it, and without the block merged into b.
LEMMA InsertList ==
    ASSUME HeapInv, NEW b \in UsedBlocks, Insert(b)
    PROVE  /\ free_list' \in Seq(Addr)
           /\ \A i, j \in DOMAIN free_list' : i < j => free_list'[i] < free_list'[j]
           /\ \A c \in FreeBlocks' :
                \/ c \in FreeBlocks /\ c < b
                \/ c = b /\ ~TouchesPrev(b)
                \/ /\ c \in FreeBlocks /\ c > b
                   /\ TouchesNext(b) => c > free_list[InsertPos(b)]
           /\ TouchesPrev(b) => free_list[InsertPos(b) - 1] \in FreeBlocks'
           /\ ~TouchesPrev(b) => b \in FreeBlocks'
<1> DEFINE k   == InsertPos(b)
           mid == IF TouchesPrev(b) THEN <<>> ELSE <<b>>
           m   == IF TouchesNext(b) THEN k + 1 ELSE k
           s   == free_list
           t   == Spliced(s, k, mid, m)
<1>1. /\ Len(s) \in Nat /\ s \in Seq(Addr)
      /\ k \in 1 .. Len(s) + 1 /\ b \in Nat /\ b \in Addr
      /\ \A i \in 1 .. Len(s) : s[i] \in FreeBlocks /\ s[i] \in Nat
      /\ \A i \in 1 .. Len(s) : i < k => s[i] < b
      /\ \A i \in 1 .. Len(s) : i >= k => s[i] > b
      /\ \A i, j \in 1 .. Len(s) : i < j => s[i] < s[j]
  <2>1. s \in Seq(Addr)
    BY DEF HeapInv, TypeOK
  <2>2. b \in Nat /\ Len(s) \in Nat
    BY <2>1, BlockFacts DEF Addr
  <2>3. k \in 1 .. Len(s) + 1 /\ k \in Nat
    BY <2>1, <2>2, InsertPosFacts
  <2> HIDE DEF k
  <2> QED BY <2>1, <2>2, <2>3, PlaceInList DEF k
<1>2. (TouchesPrev(b) => k > 1) /\ (TouchesNext(b) => k <= Len(s))
  BY DEF TouchesPrev, TouchesNext
<1>3. /\ mid \in Seq(Nat) /\ mid \in Seq(Addr) /\ Len(mid) <= 1 /\ (Len(mid) = 1 => mid[1] = b)
      /\ (Len(mid) = 1 <=> ~TouchesPrev(b))
  BY <1>1
<1>4. m \in k .. Len(s) + 1 /\ m \in Nat /\ m >= k /\ (TouchesNext(b) => m = k + 1)
  BY <1>1, <1>2
<1>5. free_list' = t
  BY DEF Insert, Spliced
<1>6. s \in Seq(Nat)
  BY <1>1 DEF Addr
<1>7. t \in Seq(Addr)
  <2> HIDE DEF k, m, mid
  <2> QED BY <1>1, <1>3, <1>4 DEF Spliced
<1> HIDE DEF k, m, mid, s
<1>8. /\ \A i, j \in DOMAIN t : i < j => t[i] < t[j]
      /\ \A j \in DOMAIN t :
           \/ \E i \in 1 .. k - 1 : t[j] = s[i]
           \/ Len(mid) = 1 /\ t[j] = b
           \/ \E i \in m .. Len(s) : t[j] = s[i]
      /\ \A i \in 1 .. k - 1 : \E j \in DOMAIN t : t[j] = s[i]
      /\ Len(mid) = 1 => \E j \in DOMAIN t : t[j] = b
  <2>1. /\ k \in 1 .. Len(s) + 1 /\ m \in k .. Len(s) + 1 /\ b \in Nat
        /\ s \in Seq(Nat) /\ mid \in Seq(Nat)
        /\ Len(mid) <= 1 /\ (Len(mid) = 1 => mid[1] = b)
        /\ \A i \in 1 .. Len(s) : i < k => s[i] < b
        /\ \A i \in 1 .. Len(s) : i >= k => s[i] > b
        /\ \A i, j \in 1 .. Len(s) : i < j => s[i] < s[j]
    BY <1>1, <1>3, <1>4, <1>6
  <2>2. SplicedInOrder(t, s, b, k, mid, m)
    BY <2>1, SortedSplice
  <2> QED BY <2>2 DEF SplicedInOrder
<1> HIDE DEF t
<1>9. FreeBlocks' = {t[j] : j \in DOMAIN t}
  BY <1>5 DEF FreeBlocks
<1>10. ASSUME NEW c \in FreeBlocks'
       PROVE  \/ c \in FreeBlocks /\ c < b
              \/ c = b /\ ~TouchesPrev(b)
              \/ c \in FreeBlocks /\ c > b /\ (TouchesNext(b) => c > s[k])
  <2>1. PICK j \in DOMAIN t : c = t[j]
    BY <1>9
  <2>2. ASSUME NEW i \in 1 .. k - 1, c = s[i]
        PROVE  c \in FreeBlocks /\ c < b
    <3>1. i \in 1 .. Len(s) /\ i < k
      BY <1>1
    <3> QED BY <1>1, <2>2, <3>1
  <2>3. ASSUME NEW i \in m .. Len(s), c = s[i]
        PROVE  c \in FreeBlocks /\ c > b /\ (TouchesNext(b) => c > s[k])
    <3>1. i \in 1 .. Len(s) /\ i >= k
      BY <1>1, <1>4
    <3>2. TouchesNext(b) => k \in 1 .. Len(s) /\ k < i
      BY <1>1, <1>4, <1>2
    <3>3. TouchesNext(b) => s[k] < s[i]
      BY <1>1, <3>1, <3>2
    <3> QED BY <1>1, <2>3, <3>1, <3>3
  <2> QED BY <1>3, <1>8, <2>1, <2>2, <2>3
<1>11. TouchesPrev(b) => s[k - 1] \in FreeBlocks'
  <2>1. TouchesPrev(b) => k - 1 \in 1 .. k - 1
    BY <1>1, <1>2
  <2> QED BY <1>8, <1>9, <2>1
<1>12. ~TouchesPrev(b) => b \in FreeBlocks'
  BY <1>3, <1>8, <1>9
<1> QED BY <1>5, <1>7, <1>8, <1>10, <1>11, <1>12 DEF k, s
-----------------------------------------------------------------------------
(* mm_free: merging with the neighbours. *)

\* The block that the bytes of b belong to once b is back on the list.
MergedInto(b) == IF TouchesPrev(b) THEN free_list[InsertPos(b) - 1] ELSE b

\* Below b, nothing but the block it is merged into reaches up to that block.
LEMMA BelowMerged ==
    ASSUME HeapInv, NEW b \in UsedBlocks, NEW g, g = MergedInto(b)
    PROVE  /\ g \in Addr /\ g <= b
           /\ TouchesPrev(b) => g \in FreeBlocks /\ g < b /\ g + Meta + mem[g].size = b
           /\ ~TouchesPrev(b) => g = b
           /\ \A c \in FreeBlocks \cup UsedBlocks :
                c < b /\ c # g => c < g /\ c + Meta + mem[c].size <= g
           /\ \A c \in FreeBlocks : c < b /\ c # g => c + Meta + mem[c].size # g
<1>1. PICK n \in Nat, k \in Nat : n = Len(free_list) /\ k = InsertPos(b)
  <2>1. b \in Nat /\ free_list \in Seq(Addr)
    BY BlockFacts DEF Addr, HeapInv, TypeOK
  <2> QED BY <2>1, InsertPosFacts
<1>2. /\ k \in 1 .. n + 1 /\ b \in Nat /\ b \in Addr
      /\ \A i \in 1 .. n : free_list[i] \in FreeBlocks /\ free_list[i] \in Nat
      /\ \A i \in 1 .. n : i < k => free_list[i] < b
      /\ \A i \in 1 .. n : i >= k => free_list[i] > b
      /\ \A i, j \in 1 .. n : i < j => free_list[i] < free_list[j]
  BY <1>1, PlaceInList
<1>3. \A c \in FreeBlocks \cup UsedBlocks : c \in Nat /\ c \in Addr /\ mem[c].size \in Nat
  BY BlockFacts DEF Addr
<1>4. \A c, d \in FreeBlocks \cup UsedBlocks : c < d => c + Meta + mem[c].size <= d
  BY BlocksApart
<1>5. \A c, d \in FreeBlocks : c + Meta + mem[c].size # d
  BY DEF HeapInv, Coalesced, EndOf
<1>6. CASE TouchesPrev(b)
  <2>1. /\ k > 1 /\ g = free_list[k - 1] /\ g + Meta + mem[g].size = b
    BY <1>1, <1>6 DEF TouchesPrev, EndOf, MergedInto
  <2>2. k - 1 \in 1 .. n /\ k - 1 < k
    BY <1>2, <2>1
  <2>3. g \in FreeBlocks /\ g < b /\ g \in Nat /\ g \in Addr
    BY <1>2, <1>3, <2>1, <2>2
  <2>4. ASSUME NEW c \in FreeBlocks \cup UsedBlocks, c < b, c # g
        PROVE  c < g /\ c + Meta + mem[c].size <= g
    <3>1. ~(g < c)
      BY <1>2, <1>3, <1>4, <2>1, <2>3, <2>4
    <3>2. c < g
      <4>1. c \in Nat
        BY <1>3
      <4> QED BY <2>3, <2>4, <3>1, <4>1
    <3> QED BY <1>4, <2>3, <3>2
  <2> QED BY <1>2, <1>5, <1>6, <2>1, <2>3, <2>4
<1>7. CASE ~TouchesPrev(b)
  <2>1. g = b
    BY <1>7 DEF MergedInto
  <2>2. ASSUME NEW c \in FreeBlocks, c < b, c + Meta + mem[c].size = b
        PROVE  FALSE
    <3>1. PICK i \in 1 .. n : c = free_list[i]
      BY <1>1 DEF FreeBlocks
    <3>2. ~(i >= k)
      BY <1>2, <2>2, <3>1
    <3>3. k > 1 /\ k - 1 \in 1 .. n /\ k - 1 < k /\ i <= k - 1
      BY <1>2, <3>2
    <3>4. i # k - 1
      BY <1>1, <1>7, <2>2, <3>1, <3>3 DEF TouchesPrev, EndOf
    <3>5. i < k - 1
      BY <3>3, <3>4
    <3>6. /\ c < free_list[k - 1] /\ free_list[k - 1] < b
          /\ free_list[k - 1] \in FreeBlocks /\ free_list[k - 1] \in Nat
      BY <1>2, <3>1, <3>3, <3>5
    <3>7. b <= free_list[k - 1]
      BY <1>4, <2>2, <3>6
    <3> QED BY <1>2, <3>6, <3>7
  <2> QED BY <1>2, <1>4, <1>7, <2>1, <2>2
<1> QED BY <1>6, <1>7

\* Above b, every block but the one merged into b lies behind the merged block,
\* and no free one touches it.
LEMMA AboveMerged ==
    ASSUME HeapInv, NEW b \in UsedBlocks, NEW size, size = SizeWithNext(b)
    PROVE  /\ size \in Nat /\ b + Meta + size <= heap_size
           /\ \A c \in FreeBlocks \cup UsedBlocks :
                c > b /\ (TouchesNext(b) => c # free_list[InsertPos(b)])
                  => c >= b + Meta + size
           /\ \A c \in FreeBlocks :
                c > b /\ (TouchesNext(b) => c # free_list[InsertPos(b)])
                  => c # b + Meta + size
<1>1. PICK n \in Nat, k \in Nat : n = Len(free_list) /\ k = InsertPos(b)
  <2>1. b \in Nat /\ free_list \in Seq(Addr)
    BY BlockFacts DEF Addr, HeapInv, TypeOK
  <2> QED BY <2>1, InsertPosFacts
<1>2. /\ k \in 1 .. n + 1 /\ b \in Nat /\ b \in Addr
      /\ \A i \in 1 .. n : free_list[i] \in FreeBlocks /\ free_list[i] \in Nat
      /\ \A i \in 1 .. n : i < k => free_list[i] < b
      /\ \A i \in 1 .. n : i >= k => free_list[i] > b
      /\ \A i, j \in 1 .. n : i < j => free_list[i] < free_list[j]
  BY <1>1, PlaceInList
<1>3. /\ \A c \in FreeBlocks \cup UsedBlocks : c \in Nat /\ c \in Addr /\ mem[c].size \in Nat
      /\ Meta \in Nat /\ Meta > 0
  BY BlockFacts DEF Addr
<1>4. \A c, d \in FreeBlocks \cup UsedBlocks :
        /\ c + Meta + mem[c].size <= heap_size
        /\ c < d => c + Meta + mem[c].size <= d
  BY BlocksApart
<1>5. \A c, d \in FreeBlocks : c + Meta + mem[c].size # d
  BY DEF HeapInv, Coalesced, EndOf
<1>6. CASE TouchesNext(b)
  <2> DEFINE x == free_list[k]
  <2>1. k \in 1 .. n /\ b + Meta + mem[b].size = x
    BY <1>1, <1>2, <1>6 DEF TouchesNext, EndOf
  <2>2. x \in FreeBlocks /\ x \in Nat /\ mem[x].size \in Nat /\ x > b
    BY <1>2, <1>3, <2>1
  <2>3. size = mem[b].size + (Meta + mem[x].size)
    BY <1>1, <1>6 DEF SizeWithNext
  <2> HIDE DEF x
  <2>4. PICK y \in Nat, z \in Nat : y = mem[b].size /\ z = mem[x].size
    BY <1>3, <2>2
  <2>5. size \in Nat /\ b + Meta + size = x + Meta + mem[x].size
    BY <1>2, <1>3, <2>1, <2>2, <2>3, <2>4
  <2>6. ASSUME NEW c \in FreeBlocks \cup UsedBlocks, c > b, c # x
        PROVE  c >= b + Meta + size
    <3>1. c \in Nat /\ mem[c].size \in Nat
      BY <1>3
    <3>2. c >= x
      BY <1>4, <2>1, <2>6
    <3>3. c > x
      BY <2>2, <2>6, <3>1, <3>2
    <3> QED BY <1>4, <2>2, <2>5, <3>3
  <2>7. ASSUME NEW c \in FreeBlocks
        PROVE  c # b + Meta + size
    BY <1>5, <2>2, <2>5
  <2>8. b + Meta + size <= heap_size
    BY <1>4, <2>2, <2>5
  <2> QED BY <1>1, <1>6, <2>5, <2>6, <2>7, <2>8 DEF x
<1>7. CASE ~TouchesNext(b)
  <2>1. size = mem[b].size + 0 /\ mem[b].size \in Nat
    BY <1>3, <1>7 DEF SizeWithNext
  <2>2. size \in Nat /\ size = mem[b].size
    BY <2>1
  <2>3. ASSUME NEW c \in FreeBlocks, c > b, c = b + Meta + mem[b].size
        PROVE  FALSE
    <3>1. PICK i \in 1 .. n : c = free_list[i]
      BY <1>1 DEF FreeBlocks
    <3>2. ~(i < k) /\ c \in Nat
      BY <1>2, <1>3, <2>3, <3>1
    <3>3. k <= n /\ k \in 1 .. n /\ k <= i
      BY <1>2, <3>2
    <3>4. i # k
      BY <1>1, <1>7, <2>3, <3>1, <3>3 DEF TouchesNext, EndOf
    <3>5. k < i
      BY <3>3, <3>4
    <3>6. /\ free_list[k] < c /\ free_list[k] > b
          /\ free_list[k] \in FreeBlocks /\ free_list[k] \in Nat
      BY <1>2, <3>1, <3>3, <3>5
    <3>7. free_list[k] >= c
      BY <1>4, <2>3, <3>6
    <3> QED BY <3>2, <3>6, <3>7
  <2>4. ASSUME NEW c \in FreeBlocks \cup UsedBlocks, c > b
        PROVE  c >= b + Meta + mem[b].size
    BY <1>4, <2>4
  <2>5. b + Meta + mem[b].size <= heap_size
    BY <1>4
  <2> QED BY <1>7, <2>2, <2>3, <2>4, <2>5
<1> QED BY <1>6, <1>7

\* The headers mm_free leaves: one free block from the merged start to the
\* merged end, the header at b marked free, everything else as it was.
LEMMA InsertMem ==
    ASSUME HeapInv, NEW b \in UsedBlocks, Insert(b),
           NEW g, g = MergedInto(b), NEW size, size = SizeWithNext(b)
    PROVE  /\ mem' \in [Addr -> Header \cup {NoHdr}]
           /\ mem'[g] # NoHdr /\ mem'[g].is_free /\ mem'[b].is_free
           /\ mem'[g].size \in Nat /\ g + Meta + mem'[g].size = b + Meta + size
           /\ \A a \in Addr : a # b /\ a # g => mem'[a] = mem[a]
<1> DEFINE freed == [mem EXCEPT ![b] = [is_free |-> TRUE, size |-> size]]
<1>1. /\ mem \in [Addr -> Header \cup {NoHdr}] /\ b \in Addr /\ b \in Nat
      /\ size \in Nat /\ Meta \in Nat
  BY BlockFacts, AboveMerged DEF HeapInv, TypeOK, Addr
<1>2. [is_free |-> TRUE, size |-> size] \in Header
  BY <1>1 DEF Header
<1>3. /\ freed \in [Addr -> Header \cup {NoHdr}]
      /\ freed[b] = [is_free |-> TRUE, size |-> size]
      /\ \A a \in Addr : a # b => freed[a] = mem[a]
  BY <1>1, <1>2
<1>4. CASE TouchesPrev(b)
  <2>1. g \in FreeBlocks /\ g < b /\ g \in Addr /\ g + Meta + mem[g].size = b
    BY <1>4, BelowMerged
  <2>2. mem[g] \in Header /\ mem[g].is_free /\ mem[g].size \in Nat /\ g # b /\ g \in Nat
    BY <1>1, <2>1, BlockFacts DEF Addr
  <2> DEFINE h == [is_free |-> freed[g].is_free, size |-> freed[g].size + Meta + size]
  <2>3. g = free_list[InsertPos(b) - 1]
    BY <1>4 DEF MergedInto
  <2>4. mem' = [freed EXCEPT ![g] = h]
    BY <1>4, <2>3 DEF Insert
  <2> HIDE DEF freed
  <2>5. freed[g] = mem[g]
    BY <1>3, <2>1, <2>2
  <2>6. mem[g].size + Meta + size \in Nat
    BY <1>1, <2>2
  <2>7. mem[g].is_free \in BOOLEAN
    BY <2>1, BlockFacts
  <2>8. h = [is_free |-> mem[g].is_free, size |-> mem[g].size + Meta + size]
    BY <2>5
  <2>9. h \in Header
    BY <2>6, <2>7, <2>8 DEF Header
  <2>10. h # NoHdr
    BY <2>9, HeaderIsNotNoHdr
  <2>11. h.is_free
    BY <2>2, <2>8
  <2>12. h.size = mem[g].size + Meta + size
    BY <2>8
  <2> HIDE DEF h
  <2>13. /\ mem' \in [Addr -> Header \cup {NoHdr}] /\ mem'[g] = h
         /\ \A a \in Addr : a # g => mem'[a] = freed[a]
    BY <1>3, <2>1, <2>4, <2>9
  <2>14. mem'[b].is_free
    <3>1. mem'[b] = [is_free |-> TRUE, size |-> size]
      BY <1>1, <1>3, <2>2, <2>13
    <3> QED BY <3>1
  <2>15. g + Meta + h.size = b + Meta + size
    <3>1. PICK y \in Nat : y = mem[g].size
      BY <2>2
    <3>2. g + Meta + y = b /\ h.size = y + Meta + size
      BY <2>1, <2>12, <3>1
    <3> QED BY <1>1, <2>2, <3>2
  <2> QED BY <1>3, <2>6, <2>10, <2>11, <2>12, <2>13, <2>14, <2>15
<1>5. CASE ~TouchesPrev(b)
  <2>1. g = b
    BY <1>5 DEF MergedInto
  <2>2. mem' = freed
    BY <1>5 DEF Insert
  <2>3. freed[b].is_free /\ freed[b].size = size /\ freed[b] # NoHdr
    <3>1. freed[b].is_free
      BY <1>3
    <3>2. freed[b].size = size
      BY <1>3
    <3> HIDE DEF freed
    <3>3. freed[b] # NoHdr
      BY <1>2, <1>3, HeaderIsNotNoHdr
    <3> QED BY <3>1, <3>2, <3>3
  <2> QED BY <1>1, <1>3, <2>1, <2>2, <2>3
<1> QED BY <1>4, <1>5

\* mm_free, whatever it merges: one block less is used, the others are untouched.
LEMMA FreeBlockPreserves ==
    ASSUME HeapInv, NEW p \in Meta .. MaxHeap - 1, FreeBlock(p)
    PROVE  /\ HeapInv'
           /\ p - Meta \in UsedBlocks /\ UsedBlocks' = UsedBlocks \ {p - Meta}
           /\ \A c \in UsedBlocks' : mem'[c] = mem[c]
<1>1. PICK b \in Int : b = p - Meta
  BY BlockFacts
<1>2. /\ mapped /\ LooksAllocated(p) /\ Insert(b)
      /\ asked' = [asked EXCEPT ![p] = 0]
      /\ UNCHANGED <<mapped, heap_size, libc>>
      /\ current_allocated' = current_allocated - mem[b].size
  BY <1>1 DEF FreeBlock
<1>3. p \in Nat /\ p \in Addr /\ Meta \in Nat /\ Meta > 0 /\ heap_size \in Nat /\ p = b + Meta
  BY <1>1, BlockFacts DEF HeapInv, TypeOK, Addr
<1>4. b \in UsedBlocks
  <2>1. b \in Addr
    BY <1>1, <1>3, BlockFacts DEF Addr
  <2> QED BY <1>1, <1>2, <2>1 DEF LooksAllocated, HeapInv, AllocatedMeansHeld
<1>5. b \in Nat /\ b \in Addr /\ mem[b].size \in Nat
  BY <1>4, BlockFacts DEF Addr
<1>6. PICK g : g = MergedInto(b)
  OBVIOUS
<1>7. /\ g \in Addr /\ g <= b
      /\ TouchesPrev(b) => g \in FreeBlocks /\ g < b
      /\ ~TouchesPrev(b) => g = b
      /\ \A c \in FreeBlocks \cup UsedBlocks :
           c < b /\ c # g => c < g /\ c + Meta + mem[c].size <= g
      /\ \A c \in FreeBlocks : c < b /\ c # g => c + Meta + mem[c].size # g
  BY <1>4, <1>6, BelowMerged
<1>8. PICK size \in Nat : size = SizeWithNext(b)
  BY <1>4, AboveMerged
<1>9. PICK e \in Nat : e = b + Meta + size
  BY <1>3, <1>5
<1>10. /\ e <= heap_size
       /\ \A c \in FreeBlocks \cup UsedBlocks :
            c > b /\ (TouchesNext(b) => c # free_list[InsertPos(b)]) => c >= e
       /\ \A c \in FreeBlocks :
            c > b /\ (TouchesNext(b) => c # free_list[InsertPos(b)]) => c # e
  BY <1>4, <1>8, <1>9, AboveMerged
<1>11. /\ mem' \in [Addr -> Header \cup {NoHdr}]
       /\ mem'[g] # NoHdr /\ mem'[g].is_free /\ mem'[b].is_free
       /\ mem'[g].size \in Nat /\ g + Meta + mem'[g].size = e
       /\ \A a \in Addr : a # b /\ a # g => mem'[a] = mem[a]
  BY <1>2, <1>4, <1>6, <1>8, <1>9, InsertMem
<1>12. /\ free_list' \in Seq(Addr)
       /\ \A i, j \in DOMAIN free_list' : i < j => free_list'[i] < free_list'[j]
       /\ \A c \in FreeBlocks' :
            \/ c \in FreeBlocks /\ c < b
            \/ c = b /\ ~TouchesPrev(b)
            \/ /\ c \in FreeBlocks /\ c > b
               /\ TouchesNext(b) => c > free_list[InsertPos(b)]
  BY <1>2, <1>4, InsertList
<1>13. \A q \in Held : q \in Addr /\ q \in Nat /\ q - Meta \in UsedBlocks
  BY DEF Held, UsedBlocks, Addr
<1>14. /\ asked' \in [Addr -> Nat] /\ asked'[p] = 0
       /\ \A q \in Addr : q # p => asked'[q] = asked[q]
  BY <1>2, <1>3 DEF HeapInv, TypeOK
<1>15. /\ Held' = Held \ {p}
       /\ \A q \in Held : q - Meta = b => q = p
  <2>1. Held' = Held \ {p}
    BY <1>14 DEF Held
  <2>2. \A q \in Held : q - Meta = b => q = p
    BY <1>3, <1>13
  <2> QED BY <2>1, <2>2
<1>16. UsedBlocks' = UsedBlocks \ {b}
  BY <1>1, <1>15 DEF UsedBlocks
<1>17. \A c \in FreeBlocks \cup UsedBlocks :
         c \in Nat /\ c \in Addr /\ mem[c] # NoHdr /\ mem[c].size \in Nat
  BY BlockFacts DEF Addr
<1>18. b \notin FreeBlocks /\ g \notin UsedBlocks'
  <2>1. \A c \in FreeBlocks : c \notin UsedBlocks
    BY BlockFacts
  <2> QED BY <1>4, <1>7, <1>16, <2>1
\* Every block but the merged one was a block before, is not b, has its header
\* untouched, and lies on one side of the merged one.
<1>19. ASSUME NEW c \in FreeBlocks' \cup UsedBlocks', c # g
       PROVE  /\ c \in FreeBlocks \cup UsedBlocks /\ c # b /\ mem'[c] = mem[c]
              /\ (c < g /\ c + Meta + mem[c].size <= g) \/ (c > g /\ c >= e)
  <2>1. c \in FreeBlocks \cup UsedBlocks /\ c # b
    BY <1>7, <1>12, <1>16, <1>18, <1>19
  <2>2. c \in Nat /\ mem'[c] = mem[c]
    BY <1>11, <1>17, <1>19, <2>1
  <2>3. CASE c < b
    <3>1. c < g /\ c + Meta + mem[c].size <= g
      BY <1>7, <1>19, <2>1, <2>3
    <3> QED BY <2>1, <2>2, <3>1
  <2>4. CASE c > b
    <3>1. TouchesNext(b) => c # free_list[InsertPos(b)]
      <4>1. CASE c \in FreeBlocks'
        <5>1. TouchesNext(b) => c > free_list[InsertPos(b)]
          BY <1>5, <1>12, <2>2, <2>4, <4>1
        <5>2. TouchesNext(b) => free_list[InsertPos(b)] \in Nat
          <6>1. TouchesNext(b) => free_list[InsertPos(b)] = b + Meta + mem[b].size
            BY DEF TouchesNext, EndOf
          <6> QED BY <1>3, <1>5, <6>1
        <5> QED BY <2>2, <5>1, <5>2
      <4>2. CASE c \in UsedBlocks'
        <5>1. c \notin FreeBlocks
          BY <1>16, <4>2, BlockFacts
        <5>2. TouchesNext(b) => free_list[InsertPos(b)] \in FreeBlocks
          <6>1. free_list \in Seq(Addr)
            BY DEF HeapInv, TypeOK
          <6>2. InsertPos(b) \in 1 .. Len(free_list) + 1
            BY <1>5, <6>1, InsertPosFacts
          <6>3. TouchesNext(b) => InsertPos(b) \in DOMAIN free_list
            BY <6>1, <6>2 DEF TouchesNext
          <6> QED BY <6>3 DEF FreeBlocks
        <5> QED BY <5>1, <5>2
      <4> QED BY <4>1, <4>2
    <3>2. c >= e
      BY <1>10, <2>1, <2>4, <3>1
    <3>3. c > g
      BY <1>5, <1>7, <2>2, <2>4 DEF Addr
    <3> QED BY <2>1, <2>2, <3>2, <3>3
  <2>5. c < b \/ c > b
    BY <1>5, <2>1, <2>2
  <2> QED BY <2>1, <2>2, <2>3, <2>4, <2>5
<1>20. TypeOK'
  <2>1. current_allocated' \in Int
    BY <1>2, <1>5 DEF HeapInv, TypeOK
  <2> QED BY <1>2, <1>11, <1>12, <1>14, <2>1 DEF HeapInv, TypeOK
<1>21. Shape'
  BY <1>2, <1>15 DEF HeapInv, Shape
<1>22. FreeListSorted'
  <2>1. ASSUME NEW c \in FreeBlocks' PROVE mem'[c] # NoHdr /\ mem'[c].is_free
    <3>1. CASE c = g
      BY <1>11, <3>1
    <3>2. CASE c # g
      <4>1. c \in FreeBlocks /\ mem'[c] = mem[c]
        BY <1>7, <1>12, <1>19, <3>2
      <4> QED BY <4>1, BlockFacts
    <3> QED BY <3>1, <3>2
  <2> QED BY <1>12, <2>1 DEF FreeListSorted, IsHeader
<1>23. BlocksDisjoint'
  <2> SUFFICES ASSUME NEW a \in FreeBlocks' \cup UsedBlocks', NEW c \in FreeBlocks' \cup UsedBlocks'
               PROVE  /\ mem'[a] # NoHdr
                      /\ a + Meta + mem'[a].size <= heap_size
                      /\ a < c => a + Meta + mem'[a].size <= c
    BY <1>2 DEF BlocksDisjoint, IsHeader, EndOf
  <2>1. g \in Nat
    BY <1>7 DEF Addr
  <2>2. CASE a = g
    <3>1. mem'[a] # NoHdr /\ a + Meta + mem'[a].size = e
      BY <1>11, <2>2
    <3>2. a < c => c >= e
      BY <1>17, <1>19, <2>1, <2>2
    <3> QED BY <1>10, <3>1, <3>2
  <2>3. CASE a # g
    <3>1. /\ a \in FreeBlocks \cup UsedBlocks /\ mem'[a] = mem[a]
          /\ (a < g /\ a + Meta + mem[a].size <= g) \/ (a > g /\ a >= e)
      BY <1>19, <2>3
    <3>2. mem'[a] # NoHdr /\ a + Meta + mem'[a].size <= heap_size
      BY <1>17, <3>1, BlocksApart
    <3>3. CASE c = g
      BY <1>17, <2>1, <3>1, <3>2, <3>3
    <3>4. CASE c # g
      <4>1. c \in FreeBlocks \cup UsedBlocks
        BY <1>19, <3>4
      <4>2. a < c => a + Meta + mem[a].size <= c
        BY <3>1, <4>1, BlocksApart
      <4> QED BY <3>1, <3>2, <4>2
    <3> QED BY <3>3, <3>4
  <2> QED BY <2>2, <2>3
<1>24. Coalesced'
  <2> SUFFICES ASSUME NEW a \in FreeBlocks', NEW c \in FreeBlocks'
               PROVE  a + Meta + mem'[a].size # c
    BY DEF Coalesced, EndOf
  <2>1. g \in Nat
    BY <1>7 DEF Addr
  <2>2. \A x \in FreeBlocks' : x # g => /\ x \in FreeBlocks /\ x # b /\ mem'[x] = mem[x]
    BY <1>7, <1>12, <1>19
  <2>3. CASE a # g /\ c # g
    <3>1. \A x \in FreeBlocks, y \in FreeBlocks : x + Meta + mem[x].size # y
      BY DEF HeapInv, Coalesced, EndOf
    <3> QED BY <2>2, <2>3, <3>1
  <2>4. CASE a # g /\ c = g
    <3>1. a \in FreeBlocks /\ a # b /\ mem'[a] = mem[a] /\ a \in Nat /\ mem[a].size \in Nat
      BY <1>17, <2>2, <2>4
    <3>2. CASE a < b
      BY <1>7, <2>4, <3>1, <3>2
    <3>3. CASE ~(a < b)
      BY <1>3, <1>5, <1>7, <2>1, <2>4, <3>1, <3>3
    <3> QED BY <3>2, <3>3
  <2>5. CASE a = g
    <3>1. a + Meta + mem'[a].size = e
      BY <1>11, <2>5
    <3>2. CASE c = g
      BY <1>3, <1>5, <1>7, <1>9, <2>1, <3>1, <3>2
    <3>3. CASE c # g
      <4>1. c \in FreeBlocks /\ c # b /\ c \in Nat
        BY <1>17, <2>2, <3>3
      <4>2. CASE c < b
        BY <1>3, <1>5, <1>9, <3>1, <4>1, <4>2
      <4>3. CASE c > b
        <5>1. TouchesNext(b) => c > free_list[InsertPos(b)]
          BY <1>5, <1>12, <4>1, <4>3
        <5>2. TouchesNext(b) => free_list[InsertPos(b)] \in Nat
          <6>1. TouchesNext(b) => free_list[InsertPos(b)] = b + Meta + mem[b].size
            BY DEF TouchesNext, EndOf
          <6> QED BY <1>3, <1>5, <6>1
        <5>3. TouchesNext(b) => c # free_list[InsertPos(b)]
          BY <4>1, <5>1, <5>2
        <5> QED BY <1>10, <3>1, <4>1, <4>3, <5>3
      <4> QED BY <1>5, <4>1, <4>2, <4>3
    <3> QED BY <3>2, <3>3
  <2> QED BY <2>3, <2>4, <2>5
<1>25. AllocatedMeansHeld'
  <2>1. ASSUME NEW a \in Addr, mem'[a] # NoHdr, ~mem'[a].is_free
        PROVE  a \in UsedBlocks'
    <3>1. a # b /\ a # g
      BY <1>11, <2>1
    <3>2. mem'[a] = mem[a]
      BY <1>11, <3>1
    <3> QED BY <1>16, <2>1, <3>1, <3>2 DEF HeapInv, AllocatedMeansHeld, IsHeader
  <2>2. ASSUME NEW a \in UsedBlocks' PROVE mem'[a] # NoHdr /\ ~mem'[a].is_free
    <3>1. a # g /\ a \in UsedBlocks
      BY <1>16, <1>18
    <3>2. mem'[a] = mem[a]
      BY <1>19, <3>1
    <3> QED BY <3>1, <3>2, BlockFacts
  <2> QED BY <2>1, <2>2 DEF AllocatedMeansHeld, IsHeader
<1>26. RequestServed'
  <2> SUFFICES ASSUME NEW q \in Held' PROVE mem'[q - Meta].size >= asked'[q]
    BY DEF RequestServed
  <2>1. q \in Held /\ q # p /\ asked'[q] = asked[q]
    BY <1>13, <1>14, <1>15
  <2>2. q - Meta \in UsedBlocks'
    BY <1>13, <1>15, <1>16, <2>1
  <2>3. mem'[q - Meta] = mem[q - Meta]
    BY <1>18, <1>19, <2>2
  <2> QED BY <2>1, <2>3 DEF HeapInv, RequestServed
<1>27. HeapInv'
  BY <1>20, <1>21, <1>22, <1>23, <1>24, <1>25, <1>26 DEF HeapInv
<1>28. \A c \in UsedBlocks' : mem'[c] = mem[c]
  BY <1>18, <1>19
<1> QED BY <1>1, <1>4, <1>16, <1>27, <1>28
-----------------------------------------------------------------------------
(* The theorems. *)

\* Every step keeps the heap sound.
LEMMA NextPreserves ==
    ASSUME NoWrap, HeapInv, [Next]_vars
    PROVE  HeapInv'
<1>1. current_allocated \in Int /\ libc \in Nat
  BY DEF HeapInv, TypeOK
<1>2. CASE UNCHANGED vars
  BY <1>1, <1>2, BlocksUnchanged DEF vars
<1>3. CASE mm_init
  <2>1. ASSUME NEW n \in HeapSizes, MapHeap(n) PROVE HeapInv'
    BY <2>1, MapHeapPreserves
  <2>2. CASE RefuseInit
    BY <1>2, <2>2 DEF RefuseInit
  <2> QED BY <1>3, <2>1, <2>2 DEF mm_init
<1>4. ASSUME NEW n \in Requests, mm_alloc(n) PROVE HeapInv'
  <2>1. CASE AllocBlock(n)
    BY <2>1, AllocBlockPreserves
  <2>2. CASE AllocLibc(n)
    BY <1>1, <2>2, BlocksUnchanged DEF AllocLibc
  <2>3. CASE AllocNull(n)
    BY <1>2, <2>3 DEF AllocNull
  <2> QED BY <1>4, <2>1, <2>2, <2>3 DEF mm_alloc
<1>5. CASE mm_free
  <2>1. ASSUME NEW p \in Meta .. MaxHeap - 1, FreeBlock(p) PROVE HeapInv'
    BY <2>1, FreeBlockPreserves
  <2>2. ASSUME NEW p \in Meta .. MaxHeap - 1, FreeIgnored(p) PROVE HeapInv'
    BY <1>2, <2>2 DEF FreeIgnored
  <2>3. CASE FreeLibc
    <3>1. libc' \in Nat
      BY <1>1, <2>3 DEF FreeLibc
    <3> QED BY <1>1, <2>3, <3>1, BlocksUnchanged DEF FreeLibc
  <2> QED BY <1>5, <2>1, <2>2, <2>3 DEF mm_free
<1>6. CASE mm_destroy
  BY <1>6, DestroyPreserves
<1>7. ASSUME NEW p \in Addr, ClientWrite(p) PROVE HeapInv'
  BY <1>7, ClientWritePreserves
<1> QED BY <1>2, <1>3, <1>4, <1>5, <1>6, <1>7 DEF Next

\* Through every sequence of initialising, allocating, freeing (of any pointer
\* into the heap), writing and destroying, the blocks stay disjoint, the list
\* ascending and coalesced, and the check in mm_free trustworthy.
THEOREM HeapAlwaysSound ==
    ASSUME NoWrap PROVE Spec => []HeapInv
<1>1. Init => HeapInv
  BY InitEstablishes
<1>2. HeapInv /\ [Next]_vars => HeapInv'
  BY NextPreserves
<1> QED BY <1>1, <1>2, PTL DEF Spec

\* Types (mm.c 44-51).
THEOREM TypesHold == ASSUME NoWrap PROVE Spec => []TypeOK
<1>1. HeapInv => TypeOK
  BY DEF HeapInv
<1> QED BY <1>1, HeapAlwaysSound, PTL

\* No two blocks overlap, no block leaves the heap (mm_alloc 207-241, mm_free 281-312).
THEOREM BlocksAlwaysDisjoint == ASSUME NoWrap PROVE Spec => []BlocksDisjoint
<1>1. HeapInv => BlocksDisjoint
  BY DEF HeapInv
<1> QED BY <1>1, HeapAlwaysSound, PTL

\* The free list stays in ascending order, so it is acyclic (mm_free 284-298).
THEOREM FreeListAlwaysSorted == ASSUME NoWrap PROVE Spec => []FreeListSorted
<1>1. HeapInv => FreeListSorted
  BY DEF HeapInv
<1> QED BY <1>1, HeapAlwaysSound, PTL

\* Touching free blocks are merged, always (mm_free 300-312).
THEOREM AlwaysCoalesced == ASSUME NoWrap PROVE Spec => []Coalesced
<1>1. HeapInv => Coalesced
  BY DEF HeapInv
<1> QED BY <1>1, HeapAlwaysSound, PTL

\* A header that passes mm_free's check belongs to an object in use (mm_free 268-274).
THEOREM FreeCheckIsExact == ASSUME NoWrap PROVE Spec => []AllocatedMeansHeld
<1>1. HeapInv => AllocatedMeansHeld
  BY DEF HeapInv
<1> QED BY <1>1, HeapAlwaysSound, PTL

\* A client gets at least what it asked for (mm_alloc 189-241); without NoWrap
\* it does not.
THEOREM RequestsAlwaysServed == ASSUME NoWrap PROVE Spec => []RequestServed
<1>1. HeapInv => RequestServed
  BY DEF HeapInv
<1> QED BY <1>1, HeapAlwaysSound, PTL
-----------------------------------------------------------------------------
(* The counter: an allocation adds the size of one block to the sum, a free   *)
(* takes that of one away.                                                    *)

sizes == [b \in UsedBlocks |-> mem[b].size]

\* The sum over the blocks in use, and what one block contributes to it.
LEMMA SumOfBlocks ==
    ASSUME HeapInv, NEW f, DOMAIN f = UsedBlocks, \A b \in UsedBlocks : f[b] \in Int
    PROVE  /\ IsFiniteSet(UsedBlocks)
           /\ SumFunction(f) = SumFunctionOnSet(f, UsedBlocks)
           /\ SumFunctionOnSet(f, UsedBlocks) \in Int
           /\ \A b \in UsedBlocks :
                SumFunctionOnSet(f, UsedBlocks)
                  = f[b] + SumFunctionOnSet(f, UsedBlocks \ {b})
<1>1. UsedBlocks \subseteq Addr
  BY BlockFacts
<1>2. IsFiniteSet(Addr)
  BY BlockFacts, FS_Interval DEF Addr
<1>3. IsFiniteSet(UsedBlocks)
  BY <1>1, <1>2, FS_Subset
<1>4. SumFunction(f) = SumFunctionOnSet(f, UsedBlocks)
  BY DEF SumFunction
<1> QED BY <1>3, <1>4, SumOne

\* Without blocks in use the sum is 0.
LEMMA NoSizes ==
    ASSUME UsedBlocks = {} PROVE SumFunction(sizes) = 0
<1>1. SumFunction(sizes) = SumFunctionOnSet(sizes, {})
  BY DEF SumFunction, sizes
<1>2. SumFunctionOnSet(sizes, {}) = 0
  BY FS_EmptySet, SumOne
<1> QED BY <1>1, <1>2

\* The sum depends on the sizes of the blocks in use only.
LEMMA SameSizes ==
    ASSUME UsedBlocks' = UsedBlocks, \A b \in UsedBlocks : mem'[b].size = mem[b].size
    PROVE  SumFunction(sizes)' = SumFunction(sizes)
<1>1. sizes' = sizes
  BY DEF sizes
<1> QED BY <1>1

\* An allocation adds the size of its block to the sum of the used ones.
LEMMA AllocCounted ==
    ASSUME HeapInv, HeapInv', Accounting, NEW b, NEW size \in Nat,
           b \notin UsedBlocks, UsedBlocks' = UsedBlocks \cup {b}, mem'[b].size = size,
           \A c \in UsedBlocks : mem'[c] = mem[c],
           current_allocated' = current_allocated + size
    PROVE  Accounting'
<1>1. PICK old : old = sizes
  OBVIOUS
<1>2. PICK new : new = sizes'
  OBVIOUS
<1>3. DOMAIN old = UsedBlocks /\ \A c \in UsedBlocks : old[c] = mem[c].size /\ old[c] \in Int
  BY <1>1, BlockFacts DEF sizes
<1>4. DOMAIN new = UsedBlocks' /\ \A c \in UsedBlocks' : new[c] = mem'[c].size
  BY <1>2 DEF sizes
<1>5. \A c \in UsedBlocks : new[c] = old[c]
  BY <1>3, <1>4
<1>6. new[b] = size
  BY <1>4
<1>7. IsFiniteSet(UsedBlocks) /\ IsFiniteSet(UsedBlocks')
  BY <1>3, SumOfBlocks, FS_AddElement
<1>8. \A c \in UsedBlocks' : new[c] \in Int
  BY <1>3, <1>5, <1>6
<1>9. SumFunctionOnSet(new, UsedBlocks') = new[b] + SumFunctionOnSet(new, UsedBlocks' \ {b})
  BY <1>7, <1>8, SumOne, ZenonT(60)
<1>10. UsedBlocks' \ {b} = UsedBlocks
  OBVIOUS
<1>11. SumFunctionOnSet(new, UsedBlocks) = SumFunctionOnSet(old, UsedBlocks)
  BY <1>5, <1>7, SumSame
<1>12. current_allocated = SumFunctionOnSet(old, UsedBlocks)
  BY <1>1, <1>3 DEF Accounting, sizes, SumFunction
<1>13. current_allocated \in Int
  BY DEF HeapInv, TypeOK
<1>14. current_allocated' = SumFunctionOnSet(new, UsedBlocks')
  <2>1. SumFunctionOnSet(new, UsedBlocks') = size + current_allocated
    BY <1>6, <1>9, <1>10, <1>11, <1>12, Zenon
  <2> QED BY <1>13, <2>1
<1> QED BY <1>2, <1>4, <1>14 DEF Accounting, sizes, SumFunction

\* A release takes the size of its block away from it.
LEMMA FreeCounted ==
    ASSUME HeapInv, Accounting, NEW b \in UsedBlocks,
           UsedBlocks' = UsedBlocks \ {b}, \A c \in UsedBlocks' : mem'[c] = mem[c],
           current_allocated' = current_allocated - mem[b].size
    PROVE  Accounting'
<1>1. PICK old : old = sizes
  OBVIOUS
<1>2. PICK new : new = sizes'
  OBVIOUS
<1>3. DOMAIN old = UsedBlocks /\ \A c \in UsedBlocks : old[c] = mem[c].size /\ old[c] \in Int
  BY <1>1, BlockFacts DEF sizes
<1>4. DOMAIN new = UsedBlocks' /\ \A c \in UsedBlocks' : new[c] = old[c]
  BY <1>2, <1>3 DEF sizes
<1>5. IsFiniteSet(UsedBlocks) /\ IsFiniteSet(UsedBlocks')
  BY <1>3, SumOfBlocks, FS_Subset
<1>6. SumFunctionOnSet(old, UsedBlocks) = old[b] + SumFunctionOnSet(old, UsedBlocks')
  BY <1>3, <1>5, SumOne
<1>7. SumFunctionOnSet(new, UsedBlocks') = SumFunctionOnSet(old, UsedBlocks')
  BY <1>4, <1>5, SumSame
<1>8. SumFunctionOnSet(old, UsedBlocks') \in Int
  BY <1>3, <1>5, SumOne
<1>9. current_allocated = SumFunctionOnSet(old, UsedBlocks)
  BY <1>1, <1>3 DEF Accounting, sizes, SumFunction
<1>10. current_allocated' = SumFunctionOnSet(new, UsedBlocks')
  BY <1>3, <1>6, <1>7, <1>8, <1>9
<1> QED BY <1>2, <1>4, <1>10 DEF Accounting, sizes, SumFunction

\* Every step changes the counter by what that sum changes by.
LEMMA NextCounts ==
    ASSUME NoWrap, HeapInv, Accounting, [Next]_vars
    PROVE  Accounting'
<1>1. ASSUME UNCHANGED <<current_allocated, mem, asked>> PROVE Accounting'
  BY <1>1 DEF Accounting, UsedBlocks, Held
<1>2. CASE UNCHANGED vars
  BY <1>1, <1>2 DEF vars
<1>3. CASE mm_init
  <2>1. ASSUME NEW n \in HeapSizes, MapHeap(n) PROVE Accounting'
    <3>1. UsedBlocks = {} /\ UsedBlocks' = {} /\ current_allocated' = current_allocated
      BY <2>1 DEF MapHeap, HeapInv, Shape, UsedBlocks, Held
    <3>2. SumFunction(sizes)' = SumFunction(sizes)
      BY <3>1, SameSizes
    <3> QED BY <3>1, <3>2 DEF Accounting, sizes
  <2>2. CASE RefuseInit
    BY <1>2, <2>2 DEF RefuseInit
  <2> QED BY <1>3, <2>1, <2>2 DEF mm_init
<1>4. ASSUME NEW n \in Requests, mm_alloc(n) PROVE Accounting'
  <2>1. CASE AllocBlock(n)
    <3>1. PICK b : /\ b \notin UsedBlocks /\ UsedBlocks' = UsedBlocks \cup {b}
                   /\ mem'[b].size = align_up(n, Align)
                   /\ \A c \in UsedBlocks : mem'[c] = mem[c]
      BY <2>1, AllocBlockPreserves
    <3>2. HeapInv'
      BY <2>1, AllocBlockPreserves
    <3>3. current_allocated' = current_allocated + align_up(n, Align)
      BY <2>1 DEF AllocBlock
    <3>4. align_up(n, Align) \in Nat
      BY ConstantsAssumption, AlignUpType
    <3> QED BY <3>1, <3>2, <3>3, <3>4, AllocCounted
  <2>2. CASE AllocLibc(n)
    BY <1>1, <2>2 DEF AllocLibc
  <2>3. CASE AllocNull(n)
    BY <1>2, <2>3 DEF AllocNull
  <2> QED BY <1>4, <2>1, <2>2, <2>3 DEF mm_alloc
<1>5. CASE mm_free
  <2>1. ASSUME NEW p \in Meta .. MaxHeap - 1, FreeBlock(p) PROVE Accounting'
    <3>1. /\ p - Meta \in UsedBlocks /\ UsedBlocks' = UsedBlocks \ {p - Meta}
          /\ \A c \in UsedBlocks' : mem'[c] = mem[c]
      BY <2>1, FreeBlockPreserves
    <3>2. current_allocated' = current_allocated - mem[p - Meta].size
      BY <2>1 DEF FreeBlock
    <3> QED BY <3>1, <3>2, FreeCounted
  <2>2. ASSUME NEW p \in Meta .. MaxHeap - 1, FreeIgnored(p) PROVE Accounting'
    BY <1>2, <2>2 DEF FreeIgnored
  <2>3. CASE FreeLibc
    BY <1>1, <2>3 DEF FreeLibc
  <2> QED BY <1>5, <2>1, <2>2, <2>3 DEF mm_free
<1>6. CASE mm_destroy
  <2>1. UsedBlocks' = {} /\ current_allocated' = 0
    BY <1>6 DEF mm_destroy, UsedBlocks, Held
  <2>2. SumFunction(sizes)' = 0
    <3>1. SumFunctionOnSet(sizes', {}) = 0
      BY FS_EmptySet, SumOne
    <3> QED BY <2>1, <3>1 DEF SumFunction, sizes
  <2> QED BY <2>1, <2>2 DEF Accounting, sizes
<1>7. ASSUME NEW p \in Addr, ClientWrite(p) PROVE Accounting'
  <2>1. UsedBlocks' = UsedBlocks /\ \A c \in UsedBlocks : mem'[c] = mem[c]
    BY <1>7, ClientWritePreserves
  <2>2. current_allocated' = current_allocated
    BY <1>7 DEF ClientWrite
  <2>3. SumFunction(sizes)' = SumFunction(sizes)
    BY <2>1, SameSizes
  <2> QED BY <2>2, <2>3 DEF Accounting, sizes
<1> QED BY <1>2, <1>3, <1>4, <1>5, <1>6, <1>7 DEF Next

\* The counter is always the sum of the sizes of the blocks in use, whatever was
\* split, given up and merged in between (mm_alloc 236, mm_free 278).
THEOREM AccountsBalance ==
    ASSUME NoWrap PROVE Spec => []Accounting
<1>1. Init => Accounting
  <2> SUFFICES ASSUME Init PROVE Accounting
    OBVIOUS
  <2>1. UsedBlocks = {} /\ current_allocated = 0
    BY DEF Init, UsedBlocks, Held
  <2> QED BY <2>1, NoSizes DEF Accounting, sizes
<1>2. HeapInv /\ Accounting /\ [Next]_vars => Accounting'
  BY NextCounts
<1> QED BY <1>1, <1>2, HeapAlwaysSound, PTL DEF Spec
-----------------------------------------------------------------------------
(* The manager implements Allocator. *)

extent == IF mapped THEN heap_size ELSE 0

\* An allocation is one of Allocator: the extent is free before it.
LEMMA AllocateRefined ==
    ASSUME HeapInv, NoWrap, NEW n \in Requests, AllocBlock(n)
    PROVE  \E p \in Addr : A!Allocate(p, n)
<1> DEFINE size == align_up(n, Align)
<1>1. n \in Nat /\ n > 0 /\ size \in Nat /\ size >= n /\ size > 0 /\ mapped
  <2>1. n \in Nat /\ Align \in Nat \ {0} /\ n # 0 /\ mapped
    BY ConstantsAssumption DEF AllocBlock
  <2>2. size \in Nat /\ size >= n
    BY <2>1, AlignUpType, AlignUpCovers DEF NoWrap
  <2> QED BY <2>1, <2>2
<1>2. PICK i \in Fits(size) : asked' = [asked EXCEPT ![free_list[i] + Meta] = n]
  BY DEF AllocBlock
<1>3. UNCHANGED <<mapped, heap_size>>
  BY DEF AllocBlock
<1> HIDE DEF size
<1>4. PICK b \in Nat, z \in Nat : b = free_list[i] /\ z = mem[free_list[i]].size
  BY <1>1, <1>2, FoundBlock
<1>5. /\ b \in FreeBlocks /\ b \notin UsedBlocks /\ b + Meta \in Addr /\ z >= size
      /\ b + Meta + z <= heap_size
      /\ \A c \in FreeBlocks \cup UsedBlocks :
           /\ c < b => c + Meta + mem[c].size <= b
           /\ c > b => c >= b + Meta + z
  BY <1>1, <1>2, <1>4, FoundBlock
<1>6. Meta \in Nat /\ heap_size \in Nat
  BY BlockFacts DEF HeapInv, TypeOK
<1>7. \A q \in Held : /\ q \in Nat /\ q - Meta \in UsedBlocks /\ q - Meta # b
                      /\ asked[q] \in Nat /\ mem[q - Meta].size \in Nat
                      /\ mem[q - Meta].size >= asked[q]
  <2>1. \A q \in Held : q \in Addr /\ q \in Nat /\ q - Meta \in UsedBlocks
    BY DEF Held, UsedBlocks, Addr
  <2>2. \A q \in Held : asked[q] \in Nat /\ mem[q - Meta].size >= asked[q]
    BY <2>1 DEF HeapInv, TypeOK, RequestServed
  <2> QED BY <1>5, <2>1, <2>2, BlockFacts
<1>8. asked[b + Meta] = 0
  <2>1. (b + Meta) - Meta = b
    BY <1>6
  <2> QED BY <1>5, <1>7, <2>1 DEF Held
<1>9. b + Meta + n <= extent
  BY <1>1, <1>4, <1>5, <1>6 DEF extent
<1>10. ASSUME NEW q \in Addr, asked[q] # 0
       PROVE  ((b + Meta) .. (b + Meta + n - 1)) \cap (q .. (q + asked[q] - 1)) = {}
  <2>1. PICK x \in Nat, y \in Nat : x = asked[q] /\ y = mem[q - Meta].size
    BY <1>7, <1>10 DEF Held
  <2>2. q \in Nat /\ x <= y /\ q - Meta # b /\ q - Meta \in Int
    BY <1>6, <1>7, <1>10, <2>1 DEF Held
  <2>3. /\ q - Meta < b => (q - Meta) + Meta + y <= b
        /\ q - Meta > b => q - Meta >= b + Meta + z
    BY <1>5, <1>7, <1>10, <2>1 DEF Held
  <2>4. q + x <= b + Meta \/ b + Meta + n <= q
    BY <1>1, <1>4, <1>5, <1>6, <2>2, <2>3
  <2> QED BY <1>1, <1>6, <2>1, <2>2, <2>4
<1>11. asked' = [asked EXCEPT ![b + Meta] = n]
  BY <1>2, <1>4
<1>12. UNCHANGED extent
  BY <1>3 DEF extent
<1>13. A!Allocate(b + Meta, n)
  BY <1>1, <1>8, <1>9, <1>10, <1>11, <1>12 DEF A!Allocate, A!Region, extent
<1> QED BY <1>5, <1>13

\* A release is one of Allocator: the extent was handed out.
LEMMA ReleaseRefined ==
    ASSUME HeapInv, NEW p \in Meta .. MaxHeap - 1, FreeBlock(p)
    PROVE  \E q \in Addr : A!Release(q)
<1>1. p \in Addr /\ p \in Nat /\ p - Meta \in Addr /\ Meta \in Nat
  BY BlockFacts DEF Addr
<1>2. p - Meta \in UsedBlocks
  BY <1>1 DEF FreeBlock, LooksAllocated, HeapInv, AllocatedMeansHeld
<1>3. PICK q \in Held : p - Meta = q - Meta
  BY <1>2 DEF UsedBlocks
<1>4. q = p
  BY <1>1, <1>3 DEF Held, Addr
<1>5. asked[p] # 0
  BY <1>3, <1>4 DEF Held
<1>6. asked' = [asked EXCEPT ![p] = 0] /\ UNCHANGED <<mapped, heap_size>>
  BY DEF FreeBlock
<1>7. A!Release(p)
  BY <1>5, <1>6 DEF A!Release, extent
<1> QED BY <1>1, <1>7

\* Every step is a step of Allocator or none.
LEMMA NextRefined ==
    ASSUME HeapInv, NoWrap, [Next]_vars
    PROVE  A!Next \/ UNCHANGED <<extent, asked>>
<1>1. CASE UNCHANGED <<mapped, heap_size, asked>>
  BY <1>1 DEF extent
<1>2. CASE UNCHANGED vars
  BY <1>1, <1>2 DEF vars
<1>3. CASE mm_init
  <2>1. ASSUME NEW n \in HeapSizes, MapHeap(n) PROVE A!Map \/ UNCHANGED <<extent, asked>>
    <3>1. /\ ~mapped /\ UNCHANGED asked /\ extent = 0
      BY <2>1 DEF MapHeap, extent
    <3>2. CASE UNCHANGED mapped
      BY <3>1, <3>2 DEF extent
    <3>3. CASE /\ align_up(n, PageSize) > 0 /\ mapped' = TRUE
               /\ heap_size' = align_up(n, PageSize)
      <4>1. align_up(n, PageSize) \in Nat
        BY ConstantsAssumption, AlignUpType
      <4>2. extent' \in Nat \ {0}
        BY <3>3, <4>1 DEF extent
      <4> QED BY <3>1, <4>2 DEF A!Map, extent
    <3> QED BY <2>1, <3>2, <3>3 DEF MapHeap
  <2>2. CASE RefuseInit
    BY <1>2, <2>2 DEF RefuseInit
  <2> QED BY <1>3, <2>1, <2>2 DEF mm_init, A!Next
<1>4. ASSUME NEW n \in Requests, mm_alloc(n) PROVE A!Next \/ UNCHANGED <<extent, asked>>
  <2>1. CASE AllocBlock(n)
    BY <2>1, AllocateRefined DEF A!Next
  <2>2. CASE AllocLibc(n)
    BY <1>1, <2>2 DEF AllocLibc
  <2>3. CASE AllocNull(n)
    BY <1>2, <2>3 DEF AllocNull
  <2> QED BY <1>4, <2>1, <2>2, <2>3 DEF mm_alloc
<1>5. CASE mm_free
  <2>1. ASSUME NEW p \in Meta .. MaxHeap - 1, FreeBlock(p) PROVE A!Next
    BY <2>1, ReleaseRefined DEF A!Next
  <2>2. ASSUME NEW p \in Meta .. MaxHeap - 1, FreeIgnored(p) PROVE UNCHANGED vars
    BY <2>2 DEF FreeIgnored
  <2>3. CASE FreeLibc
    BY <1>1, <2>3 DEF FreeLibc
  <2> QED BY <1>2, <1>5, <2>1, <2>2, <2>3 DEF mm_free
<1>6. CASE mm_destroy
  <2>1. extent # 0
    BY <1>6 DEF mm_destroy, extent, HeapInv, Shape, TypeOK
  <2>2. extent' = 0 /\ asked' = [p \in Addr |-> 0]
    BY <1>6 DEF mm_destroy, extent
  <2> QED BY <2>1, <2>2 DEF A!Next, A!Unmap, extent
<1>7. ASSUME NEW p \in Addr, ClientWrite(p) PROVE UNCHANGED <<mapped, heap_size, asked>>
  BY <1>7 DEF ClientWrite
<1> QED BY <1>1, <1>2, <1>3, <1>4, <1>5, <1>6, <1>7 DEF Next

\* The header-and-free-list manager implements the abstract allocator: every
\* request is served from bytes no one holds, and a free gives back one object.
THEOREM AllocatorImplemented ==
    ASSUME NoWrap PROVE Spec => ImplementsAllocator
<1>1. Init => A!Init
  BY DEF Init, A!Init
<1>2. HeapInv /\ [Next]_vars => [A!Next]_<<extent, asked>>
  BY NextRefined
<1>3. HeapInv /\ [Next]_vars => [A!Next]_A!vars
  BY <1>2 DEF A!vars, extent
<1>4. Spec => []HeapInv
  BY HeapAlwaysSound
<1> QED BY <1>1, <1>3, <1>4, PTL DEF Spec, ImplementsAllocator, A!Spec
---------------------------------------------------------------------------
(* The pool.                                                               *)

\* The slots in use.
Used == {i \in Slots : allocated[i]}

PoolTypes ==
    /\ objects \in [Slots -> PoolObjects \cup {NoObject}]
    /\ allocated \in [Slots -> BOOLEAN]
    /\ count \in Int
    /\ handle \in [Clients -> Handle \cup {NoObject}]
    /\ returned \in [Clients -> SUBSET Slots]
    /\ careless \in BOOLEAN

\* A client that holds a slot holds it alone, and the slot is in use with its object.
HoldersApart ==
    /\ \A c \in Clients : handle[c] # NoObject =>
          allocated[handle[c].id] /\ objects[handle[c].id] = handle[c].obj
    /\ \A c, d \in Clients :
          c # d /\ handle[c] # NoObject /\ handle[d] # NoObject => handle[c].id # handle[d].id

\* The inductive invariant.
PoolInv ==
    /\ PoolTypes
    /\ count = Cardinality(Used)
    /\ ~careless => HoldersApart

\* There are finitely many slots, all natural numbers (object_pool.c:24).
LEMMA SlotsFinite == IsFiniteSet(Slots) /\ Slots \subseteq Nat
<1>1. POOL_CAPACITY - 1 \in Int
  BY PoolAssumption
<1> QED BY <1>1, FS_Interval DEF Slots

\* The search from the front ends at a free slot if there is one (object_pool.c:45).
LEMMA FirstFreeIsFree ==
    ASSUME FreeSlots # {}
    PROVE  FirstFree \in Slots /\ ~allocated[FirstFree]
<1>1. FreeSlots \subseteq Nat
  BY SlotsFinite DEF FreeSlots
<1>2. PICK i \in FreeSlots : \A j \in FreeSlots : i <= j
  BY <1>1, HasLeast
<1>3. FirstFree \in FreeSlots
  BY <1>2 DEF FirstFree
<1> QED BY <1>3 DEF FreeSlots

\* Taking a free slot adds one to the slots in use (object_pool.c:48).
LEMMA TakingCounts ==
    ASSUME PoolTypes, NEW i \in Slots, ~allocated[i],
           allocated' = [allocated EXCEPT ![i] = TRUE]
    PROVE  Cardinality(Used') = Cardinality(Used) + 1
<1>1. Used' = Used \cup {i} /\ i \notin Used
  BY DEF Used, PoolTypes, Slots
<1>2. IsFiniteSet(Used)
  BY SlotsFinite, FS_Subset DEF Used
<1> QED BY <1>1, <1>2, FS_AddElement

\* Releasing a slot in use takes one away, releasing another changes nothing
\* (object_pool.c:67).
LEMMA ReleaseCounts ==
    ASSUME PoolTypes, NEW i \in Slots, count = Cardinality(Used), Released(i)
    PROVE  /\ count' = Cardinality(Used')
           /\ objects' \in [Slots -> PoolObjects \cup {NoObject}]
           /\ allocated' \in [Slots -> BOOLEAN]
           /\ count' \in Int
<1>1. CASE allocated[i]
  <2>1. Used' = Used \ {i} /\ i \in Used
    BY <1>1 DEF Used, PoolTypes, Slots, Released
  <2>2. IsFiniteSet(Used)
    BY SlotsFinite, FS_Subset DEF Used
  <2>3. Cardinality(Used') = Cardinality(Used) - 1
    BY <2>1, <2>2, FS_RemoveElement
  <2>4. /\ objects' = [objects EXCEPT ![i] = NoObject]
        /\ allocated' = [allocated EXCEPT ![i] = FALSE]
        /\ count' = count - 1
    BY <1>1 DEF Released
  <2>5. /\ objects' \in [Slots -> PoolObjects \cup {NoObject}]
        /\ allocated' \in [Slots -> BOOLEAN]
        /\ count' \in Int
    BY <2>4 DEF PoolTypes
  <2> QED BY <2>3, <2>4, <2>5
<1>2. CASE ~allocated[i]
  BY <1>2 DEF Released, PoolTypes, pool, Used, Slots
<1> QED BY <1>1, <1>2

\* The empty pool is sound (pool_new).
LEMMA PoolStartsSound == PoolInit => PoolInv
<1>1. SUFFICES ASSUME PoolInit PROVE PoolInv
  OBVIOUS
<1>2. Used = {}
  BY <1>1 DEF PoolInit, Used, Slots
<1>3. Cardinality(Used) = 0
  BY <1>2, FS_EmptySet
<1>4. PoolTypes
  <2>1. objects \in [Slots -> PoolObjects \cup {NoObject}]
    BY <1>1 DEF PoolInit
  <2>2. allocated \in [Slots -> BOOLEAN]
    BY <1>1, Zenon DEF PoolInit
  <2>3. handle \in [Clients -> Handle \cup {NoObject}]
    BY <1>1 DEF PoolInit
  <2>4. returned \in [Clients -> SUBSET Slots]
    BY <1>1, Zenon DEF PoolInit
  <2>5. count = 0 /\ careless = FALSE
    BY <1>1, Zenon DEF PoolInit
  <2>6. count \in Int
    BY <2>5
  <2>7. careless \in BOOLEAN
    BY <2>5, Zenon
  <2> QED BY <2>1, <2>2, <2>3, <2>4, <2>6, <2>7, Zenon DEF PoolTypes
<1>5. \A c \in Clients : handle[c] = NoObject
  BY <1>1 DEF PoolInit
<1>6. HoldersApart
  BY <1>5 DEF HoldersApart
<1> QED BY <1>1, <1>3, <1>4, <1>6 DEF PoolInit, PoolInv

\* pool_allocate: the slot was nobody's, since the slots of holders are in use.
LEMMA AllocateKeeps ==
    ASSUME PoolInv, NEW c \in Clients, NEW obj \in PoolObjects, pool_allocate(c, obj)
    PROVE  PoolInv'
<1> DEFINE i == FirstFree
<1>1. i \in Slots /\ ~allocated[i]
  BY FirstFreeIsFree DEF pool_allocate
<1> HIDE DEF i
<1>2. /\ objects' = [objects EXCEPT ![i] = obj]
      /\ allocated' = [allocated EXCEPT ![i] = TRUE]
      /\ count' = count + 1
      /\ handle' = [handle EXCEPT ![c] = [id |-> i, obj |-> obj]]
      /\ returned' = returned /\ careless' = careless
  BY DEF pool_allocate, i
<1>3. [id |-> i, obj |-> obj] \in Handle
  BY <1>1 DEF Handle
<1>4. PoolTypes'
  BY <1>1, <1>2, <1>3 DEF PoolInv, PoolTypes
<1>5. (count = Cardinality(Used))'
  BY <1>1, <1>2, TakingCounts DEF PoolInv
<1>6. ASSUME ~careless' PROVE HoldersApart'
  <2>1. HoldersApart
    BY <1>2, <1>6 DEF PoolInv
  <2>2. \A d \in Clients : d # c /\ handle[d] # NoObject =>
            handle[d].id \in Slots /\ handle[d].id # i /\ handle'[d] = handle[d]
    BY <1>1, <1>2, <2>1 DEF HoldersApart, PoolInv, PoolTypes, Handle
  <2>3. handle'[c].id = i /\ handle'[c].obj = obj
    BY <1>2 DEF PoolInv, PoolTypes
  <2>4. \A d \in Clients : d # c => handle'[d] = handle[d]
    BY <1>2 DEF PoolInv, PoolTypes
  <2>5. ASSUME NEW d \in Clients, handle'[d] # NoObject
        PROVE  allocated'[handle'[d].id] /\ objects'[handle'[d].id] = handle'[d].obj
    <3>1. CASE d = c
      BY <1>1, <1>2, <2>3, <3>1 DEF PoolInv, PoolTypes
    <3>2. CASE d # c
      BY <1>1, <1>2, <2>1, <2>2, <2>4, <2>5, <3>2 DEF PoolInv, PoolTypes, HoldersApart
    <3> QED BY <3>1, <3>2
  <2>6. ASSUME NEW d \in Clients, NEW e \in Clients, d # e,
               handle'[d] # NoObject, handle'[e] # NoObject
        PROVE  handle'[d].id # handle'[e].id
    BY <2>1, <2>2, <2>3, <2>4, <2>6 DEF HoldersApart
  <2> QED BY <2>5, <2>6 DEF HoldersApart
<1> QED BY <1>4, <1>5, <1>6 DEF PoolInv

\* pool_release: nobody else held the slot.
LEMMA ReleaseKeeps ==
    ASSUME PoolInv, NEW c \in Clients, pool_release(c)
    PROVE  PoolInv'
<1>1. handle[c] \in Handle /\ handle[c].id \in Slots
  BY DEF pool_release, PoolInv, PoolTypes, Handle
<1> DEFINE i == handle[c].id
<1>2. /\ Released(i)
      /\ handle' = [handle EXCEPT ![c] = NoObject]
      /\ returned' = [returned EXCEPT ![c] = @ \cup {i}]
      /\ careless' = careless
  BY DEF pool_release
<1>3. (count = Cardinality(Used))' /\ PoolTypes'
  BY <1>1, <1>2, ReleaseCounts DEF PoolInv, PoolTypes
<1>4. ASSUME ~careless' PROVE HoldersApart'
  <2>1. HoldersApart
    BY <1>2, <1>4 DEF PoolInv
  <2>2. handle'[c] = NoObject /\ \A d \in Clients : d # c => handle'[d] = handle[d]
    BY <1>2 DEF PoolInv, PoolTypes
  <2>3. ASSUME NEW d \in Clients, handle'[d] # NoObject
        PROVE  allocated'[handle'[d].id] /\ objects'[handle'[d].id] = handle'[d].obj
    <3>1. d # c /\ handle[d] # NoObject /\ handle'[d] = handle[d]
      BY <2>2, <2>3
    <3>2. handle[d].id \in Slots /\ handle[d].id # i
      BY <2>1, <3>1 DEF HoldersApart, PoolInv, PoolTypes, Handle, pool_release
    <3>3. allocated'[handle[d].id] = allocated[handle[d].id]
          /\ objects'[handle[d].id] = objects[handle[d].id]
      BY <1>1, <1>2, <3>2 DEF Released, PoolInv, PoolTypes, pool
    <3> QED BY <2>1, <3>1, <3>3 DEF HoldersApart
  <2> QED BY <2>1, <2>2, <2>3 DEF HoldersApart
<1> QED BY <1>3, <1>4 DEF PoolInv

\* A slot released again is free and is left alone, or its client was careless.
LEMMA ReleaseAgainKeeps ==
    ASSUME PoolInv, NEW c \in Clients, NEW i \in Slots, ReleaseAgain(c, i)
    PROVE  PoolInv'
<1>1. (count = Cardinality(Used))' /\ PoolTypes'
  BY ReleaseCounts DEF ReleaseAgain, PoolInv, PoolTypes
<1>2. ASSUME ~careless' PROVE HoldersApart'
  BY <1>2 DEF ReleaseAgain, Released, pool, PoolInv, HoldersApart
<1> QED BY <1>1, <1>2 DEF PoolInv

\* The pool is sound in every reachable state (object_pool.c).
THEOREM PoolAlwaysSound == PoolSpec => []PoolInv
<1>1. ASSUME PoolInv, [PoolNext]_pool_vars PROVE PoolInv'
  <2>1. CASE UNCHANGED pool_vars
    BY <1>1, <2>1 DEF pool_vars, pool, PoolInv, PoolTypes, HoldersApart, Used
  <2>2. CASE PoolNext
    BY <1>1, <2>2, AllocateKeeps, ReleaseKeeps, ReleaseAgainKeeps DEF PoolNext
  <2> QED BY <1>1, <2>1, <2>2
<1> QED BY PoolStartsSound, <1>1, PTL DEF PoolSpec

\* The invariant the run app_store checks: the count is exact, and handles stand while
\* no slot is released that was handed on (object_pool.c:46, 67).
THEOREM HandlesAlwaysStand == PoolSpec => []HandlesStand
<1>1. PoolInv => HandlesStand
  BY DEF PoolInv, HandlesStand, HoldersApart, Used, pool_get
<1> QED BY <1>1, PoolAlwaysSound, PTL

-----------------------------------------------------------------------------
(* The string: numbers, their low bits, and their digits. *)

\* Quotient and remainder.
LEMMA ModIs ==
    ASSUME NEW m \in Nat \ {0}, NEW x \in Int
    PROVE  x % m \in 0 .. m - 1 /\ x = m * (x \div m) + (x % m) /\ x \div m \in Int
OBVIOUS

\* A multiple that lies strictly between -m and m.
LEMMA TooFar ==
    ASSUME NEW m \in Nat \ {0}, NEW q \in Int, q * m < m, -m < q * m
    PROVE  q = 0
<1>1. CASE q >= 1
  <2>1. q - 1 \in Nat /\ (q - 1) * m \in Nat
    BY <1>1
  <2>2. q * m = (q - 1) * m + m
    OBVIOUS
  <2> QED BY <2>1, <2>2
<1>2. CASE q <= -1
  <2>1. -q - 1 \in Nat /\ (-q - 1) * m \in Nat
    BY <1>2
  <2>2. q * m = -((-q - 1) * m) - m
    OBVIOUS
  <2> QED BY <2>1, <2>2
<1> QED BY <1>1, <1>2

\* Adding a multiple of the divisor leaves the remainder.
LEMMA ModOnly ==
    ASSUME NEW m \in Nat \ {0}, NEW x \in Int, NEW q \in Int
    PROVE  (x + q * m) % m = x % m
<1> DEFINE y == x + q * m
           p == y \div m - x \div m - q
<1>1. y \in Int
  OBVIOUS
<1>2. x % m \in 0 .. m - 1 /\ x = m * (x \div m) + (x % m) /\ x \div m \in Int
  BY ModIs
<1>3. y % m \in 0 .. m - 1 /\ y = m * (y \div m) + (y % m) /\ y \div m \in Int
  <2> HIDE DEF y
  <2> QED BY <1>1, ModIs
<1>4. p \in Int /\ p * m = (x % m) - (y % m)
  <2> DEFINE a == x \div m
             b == y \div m
             u == x % m
             v == y % m
  <2>1. a \in Int /\ b \in Int /\ u \in Int /\ v \in Int /\ x = m * a + u /\ y = m * b + v
    BY <1>2, <1>3
  <2>2. (b - a - q) * m = m * b - m * a - q * m
    <3> HIDE DEF a, b
    <3> QED BY <2>1
  <2>3. y = x + q * m
    OBVIOUS
  <2> HIDE DEF a, b, u, v, y
  <2>4. (b - a - q) * m = u - v /\ b - a - q \in Int
    BY <2>1, <2>2, <2>3
  <2> QED BY <2>4 DEF a, b, u, v
<1>5. p * m < m /\ -m < p * m
  <2> DEFINE u == x % m
             v == y % m
  <2>1. u \in 0 .. m - 1 /\ v \in 0 .. m - 1 /\ p * m = u - v
    BY <1>2, <1>3, <1>4
  <2> HIDE DEF p, u, v
  <2> QED BY <2>1
<1>6. p = 0
  <2> HIDE DEF p
  <2> QED BY <1>4, <1>5, TooFar
<1>7. x % m = y % m
  <2> HIDE DEF p, y
  <2> QED BY <1>2, <1>3, <1>4, <1>6
<1> QED BY <1>7

\* The low bits of a number: a signed number of the width, a multiple of the range away,
\* and the number itself when it fits.
LEMMA LowIs ==
    ASSUME NEW max \in Nat, NEW v \in Int
    PROVE  /\ Low(v, max) \in Signed(max)
           /\ \E q \in Int : Low(v, max) = v + q * (2 * max + 2)
           /\ v \in Signed(max) => Low(v, max) = v
<1> DEFINE m == 2 * max + 2
           u == v + max + 1
           q == u \div m
<1>1. m \in Nat \ {0} /\ u \in Int
  OBVIOUS
<1>2. u % m \in 0 .. m - 1 /\ u = m * q + (u % m) /\ q \in Int
  <2> HIDE DEF m, u
  <2> QED BY <1>1, ModIs
<1>3. Low(v, max) = (u % m) - max - 1
  BY DEF Low
<1>4. Low(v, max) \in Signed(max)
  <2> DEFINE r == u % m
  <2> HIDE DEF r
  <2> QED BY <1>2, <1>3 DEF Signed
<1>5. Low(v, max) = v + (-q) * m
  <2> DEFINE r == u % m
  <2> HIDE DEF q
  <2>1. (-q) * m = -(m * q)
    BY <1>1, <1>2
  <2>2. r \in Int /\ m * q \in Int /\ u = m * q + r /\ Low(v, max) = r - max - 1
    <3> HIDE DEF m, u
    <3> QED BY <1>1, <1>2, <1>3
  <2> HIDE DEF r, m
  <2> QED BY <2>1, <2>2
<1>6. ASSUME v \in Signed(max) PROVE Low(v, max) = v
  <2>1. Low(v, max) - v \in Int /\ Low(v, max) - v < m /\ -m < Low(v, max) - v
    BY <1>4, <1>6 DEF Signed
  <2>2. -q \in Int /\ (-q) * m = Low(v, max) - v /\ v \in Int
    <3> HIDE DEF q, m, u
    <3> QED BY <1>1, <1>2, <1>4, <1>5 DEF Signed
  <2>3. -q = 0
    <3> HIDE DEF q, m, u
    <3> QED BY <1>1, <2>1, <2>2, TooFar
  <2> HIDE DEF q, m, u
  <2> QED BY <1>1, <1>5, <2>3
<1>7. -q \in Int
  BY <1>2
<1> HIDE DEF q, u
<1> QED BY <1>4, <1>5, <1>6, <1>7

\* The low bits are those of any number the range of an int away.
LEMMA LowSame ==
    ASSUME NEW max \in Nat, NEW v \in Int, NEW q \in Int
    PROVE  Low(v + q * (2 * max + 2), max) = Low(v, max)
<1> DEFINE m == 2 * max + 2
           u == v + max + 1
           w == v + q * m + max + 1
<1>1. m \in Nat \ {0} /\ u \in Int /\ w = u + q * m
  OBVIOUS
<1>2. w % m = u % m
  <2> HIDE DEF m, u, w
  <2> QED BY <1>1, ModOnly
<1>3. Low(v, max) = (u % m) - max - 1
  BY DEF Low
<1>4. Low(v + q * m, max) = (w % m) - max - 1
  BY DEF Low
<1> HIDE DEF u, w
<1> QED BY <1>2, <1>3, <1>4

\* The low bits can be taken before another digit is put behind, or after.
LEMMA LowDigit ==
    ASSUME NEW max \in Nat, NEW v \in Int, NEW d \in Int
    PROVE  Low(Low(v, max) * 10 + d, max) = Low(v * 10 + d, max)
<1> DEFINE m == 2 * max + 2
<1>1. PICK q \in Int : Low(v, max) = v + q * m
  BY LowIs
<1>2. Low(v, max) * 10 + d = (v * 10 + d) + (10 * q) * m
  <2>1. q * m \in Int /\ (10 * q) * m = 10 * (q * m) /\ m \in Int
    BY <1>1
  <2> DEFINE p == q * m
  <2> HIDE DEF m
  <2>2. p \in Int /\ Low(v, max) = v + p /\ (10 * q) * m = 10 * p
    BY <1>1, <2>1
  <2> HIDE DEF p
  <2> QED BY <2>2
<1>3. 10 * q \in Int /\ v * 10 + d \in Int
  OBVIOUS
<1> HIDE DEF m
<1> QED BY <1>2, <1>3, LowSame, ZenonT(60) DEF m

\* The low bits of the opposite.
LEMMA LowOpposite ==
    ASSUME NEW max \in Nat, NEW v \in Int
    PROVE  Low(-Low(v, max), max) = Low(-v, max)
<1> DEFINE m == 2 * max + 2
<1>1. PICK q \in Int : Low(v, max) = v + q * m
  BY LowIs
<1>2. -Low(v, max) = -v + (-q) * m
  <2>1. q * m \in Int /\ (-q) * m = -(q * m) /\ m \in Int
    BY <1>1
  <2> DEFINE p == q * m
  <2> HIDE DEF m
  <2>2. p \in Int /\ Low(v, max) = v + p /\ (-q) * m = -p
    BY <1>1, <2>1
  <2> HIDE DEF p
  <2> QED BY <2>2
<1>3. -q \in Int /\ -v \in Int
  OBVIOUS
<1> HIDE DEF m
<1> QED BY <1>2, <1>3, LowSame, ZenonT(60) DEF m

\* The digits of every number there is, made from those of its tenth.
LEMMA DigitsAre ==
    /\ Digits \in [Nat -> Seq(0 .. 9)]
    /\ \A v \in Nat : Digits[v] = IF v = 0 THEN <<>> ELSE Append(Digits[v \div 10], v % 10)
<1> DEFINE S == Seq(0 .. 9)
           next(f, v) == IF v = 0 THEN <<>> ELSE Append(f[v \div 10], v % 10)
           step == [v \in Nat |-> [f \in [Nat -> S] |-> next(f, v)]]
<1>1. \A v \in Nat : v \div 10 \in Nat /\ v % 10 \in 0 .. 9 /\ (v # 0 => v \div 10 < v)
  OBVIOUS
<1>2. ASSUME NEW v \in Nat, NEW f \in [Nat -> S] PROVE next(f, v) \in S
  <2>1. CASE v = 0
    BY <2>1
  <2>2. CASE v # 0
    <3>1. f[v \div 10] \in Seq(0 .. 9) /\ v % 10 \in 0 .. 9
      BY <1>1
    <3>2. Append(f[v \div 10], v % 10) \in Seq(0 .. 9)
      BY <3>1, AppendProperties
    <3> QED BY <2>2, <3>2
  <2> QED BY <2>1, <2>2
<1>3. ASSUME NEW v \in Nat, NEW f \in [Nat -> S], NEW g \in [Nat -> S],
             \A j \in Nat : j < v => f[j] = g[j]
      PROVE  next(f, v) = next(g, v)
  BY <1>1, <1>3
<1> HIDE DEF next
<1>4. \A v \in Nat : \A f \in [Nat -> S] : step[v][f] = next(f, v)
  OBVIOUS
<1>5. Founded(Nat, S, step)
  <2>1. step \in [Nat -> [[Nat -> S] -> S]]
    BY <1>2
  <2> HIDE DEF step, S
  <2>2. ASSUME NEW i \in Nat, NEW f \in [Nat -> S], NEW g \in [Nat -> S],
               \A j \in Nat : j < i => f[j] = g[j]
        PROVE  step[i][f] = step[i][g]
    <3>1. next(f, i) = next(g, i)
      BY <1>3, <2>2
    <3>2. step[i][f] = next(f, i) /\ step[i][g] = next(g, i)
      BY <1>4
    <3> QED BY <3>1, <3>2
  <2> QED BY <2>1, <2>2 DEF Founded
<1>6. S # {}
  <2>1. <<>> \in S
    OBVIOUS
  <2> QED BY <2>1, Zenon
<1>7. PICK f \in [Nat -> S] : \A v \in Nat : f[v] = step[v][f]
  <2> HIDE DEF S, step
  <2> DEFINE D == Nat
  <2>1. Founded(D, S, step)
    BY <1>5
  <2> HIDE DEF D
  <2>2. \E f \in [D -> S] : \A v \in D : f[v] = step[v][f]
    BY <1>6, <2>1, Recursion
  <2> QED BY <2>2 DEF D
<1>8. f = [v \in Nat |-> next(f, v)]
  <2> HIDE DEF S, step
  <2> QED BY <1>4, <1>7
<1>9. Digits = [v \in Nat |-> next(Digits, v)]
  <2>1. \E g : g = [v \in Nat |-> IF v = 0 THEN <<>> ELSE Append(g[v \div 10], v % 10)]
    BY <1>8, Zenon DEF next
  <2> QED BY <2>1, Zenon DEF Digits, next
<1>10. Digits \in [Nat -> S]
  <2> DEFINE Bad == {v \in Nat : Digits[v] \notin S}
  <2>1. Bad = {}
    <3> SUFFICES ASSUME Bad # {} PROVE FALSE
      OBVIOUS
    <3>1. PICK v \in Bad : \A j \in Bad : v <= j
      BY HasLeast
    <3>2. v \in Nat /\ Digits[v] \notin S /\ Digits[v] = next(Digits, v)
      <4>1. v \in Nat /\ Digits[v] \notin S
        BY <3>1
      <4> HIDE DEF Bad
      <4> QED BY <1>9, <4>1, Zenon
    <3>3. v # 0
      BY <3>2 DEF next
    <3>4. v \div 10 \in Nat /\ ~(v <= v \div 10) /\ v % 10 \in 0 .. 9
      BY <1>1, <3>2, <3>3
    <3>5. v \div 10 \notin Bad
      <4> HIDE DEF Bad
      <4> QED BY <3>1, <3>4
    <3>6. Digits[v \div 10] \in S
      BY <3>4, <3>5
    <3> QED BY <3>2, <3>3, <3>4, <3>6 DEF next
  <2>2. \A v \in Nat : Digits[v] \in S
    BY <2>1
  <2> HIDE DEF S
  <2> QED BY <1>9, <2>2
<1>11. ASSUME NEW v \in Nat
       PROVE  Digits[v] = IF v = 0 THEN <<>> ELSE Append(Digits[v \div 10], v % 10)
  <2>1. Digits[v] = next(Digits, v)
    BY <1>9, Zenon
  <2> QED BY <2>1 DEF next
<1> QED BY <1>10, <1>11

\* What parse_int has counted after each digit.
Reads(s, r) ==
    /\ r \in [0 .. Len(s) -> Int] /\ r[0] = 0
    /\ \A i \in 1 .. Len(s) : r[i] = Low(r[i - 1] * 10 + s[i], INT_MAX)

\* ReadDigits gives the last of such results.
LEMMA ReadsAre ==
    ASSUME NEW s \in Seq(Int)
    PROVE  \E r : Reads(s, r) /\ ReadDigits(s) = r[Len(s)]
<1> DEFINE n == Len(s)
           D == 0 .. n
           next(f, i) == IF i = 0 THEN 0 ELSE Low(f[i - 1] * 10 + s[i], INT_MAX)
           step == [i \in D |-> [f \in [D -> Int] |-> next(f, i)]]
<1>1. n \in Nat /\ D \subseteq Nat /\ INT_MAX \in Nat
  BY LenProperties, SizesAssumption
<1>2. ASSUME NEW i \in D, NEW f \in [D -> Int] PROVE next(f, i) \in Int
  <2>1. CASE i = 0
    BY <2>1
  <2>2. CASE i # 0
    <3>1. i - 1 \in D /\ i \in 1 .. n
      BY <1>1, <2>2
    <3>2. f[i - 1] * 10 + s[i] \in Int
      <4>1. f[i - 1] \in Int /\ s[i] \in Int
        BY <3>1
      <4> QED BY <4>1
    <3>3. Low(f[i - 1] * 10 + s[i], INT_MAX) \in Int
      BY <1>1, <3>2, LowIs DEF Signed
    <3> QED BY <2>2, <3>3
  <2> QED BY <2>1, <2>2
<1>3. ASSUME NEW i \in D, NEW f \in [D -> Int], NEW g \in [D -> Int],
             \A j \in D : j < i => f[j] = g[j]
      PROVE  next(f, i) = next(g, i)
  <2>1. i # 0 => i - 1 \in D /\ i - 1 < i
    BY <1>1
  <2>2. i # 0 => f[i - 1] = g[i - 1]
    BY <1>3, <2>1
  <2> QED BY <2>2
<1> HIDE DEF next, D
<1>4. \A i \in D : \A f \in [D -> Int] : step[i][f] = next(f, i)
  OBVIOUS
<1>5. Founded(D, Int, step)
  <2>1. step \in [D -> [[D -> Int] -> Int]]
    BY <1>2
  <2> HIDE DEF step
  <2>2. ASSUME NEW i \in D, NEW f \in [D -> Int], NEW g \in [D -> Int],
               \A j \in D : j < i => f[j] = g[j]
        PROVE  step[i][f] = step[i][g]
    <3>1. next(f, i) = next(g, i)
      BY <1>3, <2>2
    <3>2. step[i][f] = next(f, i) /\ step[i][g] = next(g, i)
      BY <1>4
    <3> QED BY <3>1, <3>2
  <2> QED BY <1>1, <2>1, <2>2 DEF Founded
<1>7. PICK f \in [D -> Int] : \A i \in D : f[i] = step[i][f]
  <2>1. Int # {}
    OBVIOUS
  <2> HIDE DEF step
  <2> QED BY <1>5, <2>1, Recursion
<1>8. f = [i \in D |-> next(f, i)]
  <2> HIDE DEF step
  <2> QED BY <1>4, <1>7
<1> DEFINE r == CHOOSE g : g = [i \in 0 .. Len(s) |->
                      IF i = 0 THEN 0 ELSE Low(g[i - 1] * 10 + s[i], INT_MAX)]
<1>9. r = [i \in D |-> next(r, i)]
  <2>1. \E g : g = [i \in 0 .. Len(s) |->
                      IF i = 0 THEN 0 ELSE Low(g[i - 1] * 10 + s[i], INT_MAX)]
    BY <1>8, Zenon DEF next, D
  <2> QED BY <2>1, Zenon DEF next, D
<1>10. ReadDigits(s) = r[n]
  BY Zenon DEF ReadDigits
<1> HIDE DEF r
<1>11. ASSUME NEW i \in D
       PROVE  r[i] = IF i = 0 THEN 0 ELSE Low(r[i - 1] * 10 + s[i], INT_MAX)
  <2>1. r[i] = next(r, i)
    BY <1>9, Zenon
  <2> QED BY <2>1, Zenon DEF next
<1>12. \A i \in D : r[i] \in Int
  <2> DEFINE Bad == {i \in Nat : i \in D /\ r[i] \notin Int}
  <2> SUFFICES ASSUME Bad # {} PROVE FALSE
    BY <1>1
  <2>1. PICK i \in Bad : \A j \in Bad : i <= j
    BY HasLeast
  <2>2. i \in D /\ r[i] \notin Int
    BY <2>1
  <2>3. i # 0
    BY <1>11, <2>2
  <2>4. i - 1 \in D /\ ~(i <= i - 1) /\ i \in 1 .. n /\ i - 1 \in Nat
    BY <1>1, <2>2, <2>3 DEF D
  <2>5. r[i - 1] \in Int /\ s[i] \in Int
    BY <2>1, <2>4
  <2>6. r[i - 1] * 10 + s[i] \in Int /\ r[i] = Low(r[i - 1] * 10 + s[i], INT_MAX)
    BY <1>11, <2>2, <2>3, <2>5, SMTT(20)
  <2>7. r[i] \in Int
    BY <1>1, <2>6, LowIs DEF Signed
  <2> QED BY <2>2, <2>7
<1>13. r \in [D -> Int]
  BY <1>9, <1>12
<1>14. Reads(s, r)
  <2>1. \A i \in 1 .. Len(s) : i \in D /\ i # 0 /\ 0 \in D
    BY <1>1 DEF D
  <2>2. 0 \in D
    BY <1>1 DEF D
  <2> QED BY <1>11, <1>13, <2>1, <2>2 DEF Reads, D
<1> QED BY <1>10, <1>14

\* One digit more.
LEMMA ReadsOneMore ==
    ASSUME NEW s \in Seq(Int), NEW d \in Int
    PROVE  /\ ReadDigits(s) \in Int
           /\ ReadDigits(Append(s, d)) = Low(ReadDigits(s) * 10 + d, INT_MAX)
<1> DEFINE n == Len(s)
           t == Append(s, d)
<1>1. /\ t \in Seq(Int) /\ Len(t) = n + 1 /\ t[n + 1] = d /\ n \in Nat
      /\ \A i \in 1 .. n : t[i] = s[i]
  BY AppendProperties, LenProperties
<1>2. PICK r : Reads(s, r) /\ ReadDigits(s) = r[n]
  BY ReadsAre
<1>3. PICK q : Reads(t, q) /\ ReadDigits(t) = q[n + 1]
  <2> HIDE DEF t
  <2>1. \E q : Reads(t, q) /\ ReadDigits(t) = q[Len(t)]
    BY <1>1, ReadsAre
  <2> QED BY <1>1, <2>1
<1> HIDE DEF t
<1>4. /\ r[0] = 0 /\ \A i \in 1 .. n : r[i] = Low(r[i - 1] * 10 + s[i], INT_MAX)
      /\ q[0] = 0 /\ \A i \in 1 .. n + 1 : q[i] = Low(q[i - 1] * 10 + t[i], INT_MAX)
      /\ r \in [0 .. n -> Int]
  BY <1>1, <1>2, <1>3 DEF Reads
<1> DEFINE Bad == {i \in Nat : i \in 0 .. n /\ q[i] # r[i]}
<1>5. Bad = {}
  <2> SUFFICES ASSUME Bad # {} PROVE FALSE
    OBVIOUS
  <2>1. PICK i \in Bad : \A j \in Bad : i <= j
    BY HasLeast
  <2>2. i \in 0 .. n /\ q[i] # r[i]
    BY <2>1
  <2>3. i # 0
    BY <1>4, <2>2
  <2>4. i \in 1 .. n /\ i \in 1 .. n + 1 /\ i - 1 \in Nat /\ i - 1 \in 0 .. n /\ ~(i <= i - 1)
    BY <1>1, <2>2, <2>3
  <2>5. q[i - 1] = r[i - 1]
    BY <2>1, <2>4
  <2>6. q[i] = Low(q[i - 1] * 10 + t[i], INT_MAX) /\ r[i] = Low(r[i - 1] * 10 + s[i], INT_MAX)
    BY <1>4, <2>4
  <2>7. t[i] = s[i]
    BY <1>1, <2>4
  <2> QED BY <2>2, <2>5, <2>6, <2>7
<1>6. q[n] = r[n] /\ r[n] \in Int
  <2>1. n \in 0 .. n
    BY <1>1
  <2> QED BY <1>1, <1>4, <1>5, <2>1
<1>7. q[n + 1] = Low(q[n] * 10 + d, INT_MAX)
  <2>1. n + 1 \in 1 .. n + 1 /\ n + 1 - 1 = n
    BY <1>1
  <2>2. q[n + 1] = Low(q[n + 1 - 1] * 10 + t[n + 1], INT_MAX)
    BY <1>4, <2>1
  <2> QED BY <1>1, <2>1, <2>2
<1> QED BY <1>2, <1>3, <1>6, <1>7 DEF t

\* No digits read are the number zero.
LEMMA NothingRead == ReadDigits(<<>>) = 0
<1>1. <<>> \in Seq(Int) /\ Len(<<>>) = 0
  OBVIOUS
<1>2. PICK r : Reads(<<>>, r) /\ ReadDigits(<<>>) = r[Len(<<>>)]
  BY <1>1, ReadsAre
<1> QED BY <1>1, <1>2 DEF Reads

\* The digits of a number, read, are its low bits.
LEMMA DigitsRead == \A v \in Nat : ReadDigits(Digits[v]) = Low(v, INT_MAX)
<1> DEFINE Bad == {v \in Nat : ReadDigits(Digits[v]) # Low(v, INT_MAX)}
<1> SUFFICES ASSUME Bad # {} PROVE FALSE
  OBVIOUS
<1>1. PICK v \in Bad : \A j \in Bad : v <= j
  BY HasLeast
<1>2. v \in Nat /\ ReadDigits(Digits[v]) # Low(v, INT_MAX) /\ INT_MAX \in Nat
  BY <1>1, SizesAssumption
<1>3. v # 0
  <2>1. Digits[0] = <<>>
    BY DigitsAre
  <2>2. Low(0, INT_MAX) = 0
    BY <1>2, LowIs DEF Signed
  <2> QED BY <1>2, <2>1, <2>2, NothingRead
<1> DEFINE w == v \div 10
           d == v % 10
<1>4. w \in Nat /\ d \in 0 .. 9 /\ ~(v <= w) /\ v = w * 10 + d
  BY <1>2, <1>3
<1>5. Digits[v] = Append(Digits[w], d)
  BY <1>2, <1>3, DigitsAre
<1> HIDE DEF w, d
<1>6. Digits[w] \in Seq(Int) /\ d \in Int /\ w \in Int
  <2>1. Digits[w] \in Seq(0 .. 9) /\ 0 .. 9 \subseteq Int
    BY <1>4, DigitsAre
  <2> QED BY <1>4, <2>1
<1>7. ReadDigits(Digits[w]) = Low(w, INT_MAX)
  BY <1>1, <1>4
<1>8. ReadDigits(Digits[v]) = Low(Low(w, INT_MAX) * 10 + d, INT_MAX)
  BY <1>5, <1>6, <1>7, ReadsOneMore
<1>9. Low(Low(w, INT_MAX) * 10 + d, INT_MAX) = Low(w * 10 + d, INT_MAX)
  BY <1>2, <1>6, LowDigit
<1> QED BY <1>2, <1>4, <1>8, <1>9

\* The digits a number that is no negative one is written with.
Figures(v) == IF v = 0 THEN <<0>> ELSE Digits[v]

\* The figures of a number are digits, at least one, and read as its low bits.
LEMMA FiguresRead ==
    ASSUME NEW v \in Nat
    PROVE  /\ Figures(v) \in Seq(0 .. 9) /\ Figures(v) # <<>>
           /\ ReadDigits(Figures(v)) = Low(v, INT_MAX)
<1>1. CASE v = 0
  <2>1. Figures(v) = Append(<<>>, 0)
    BY <1>1 DEF Figures
  <2>2. <<>> \in Seq(Int) /\ 0 \in Int
    OBVIOUS
  <2>3. ReadDigits(Figures(v)) = Low(0 * 10 + 0, INT_MAX)
    BY <2>1, <2>2, NothingRead, ReadsOneMore
  <2> QED BY <1>1, <2>3 DEF Figures
<1>2. CASE v # 0
  <2>1. Figures(v) = Digits[v] /\ Digits[v] = Append(Digits[v \div 10], v % 10)
    BY <1>2, DigitsAre DEF Figures
  <2>2. Digits[v] \in Seq(0 .. 9) /\ Digits[v \div 10] \in Seq(0 .. 9)
    BY DigitsAre
  <2>3. Len(Digits[v]) = Len(Digits[v \div 10]) + 1
    BY <2>1, <2>2, AppendProperties
  <2>4. Digits[v] # <<>>
    BY <2>2, <2>3, EmptySeq, LenProperties
  <2> QED BY <2>1, <2>2, <2>4, DigitsRead
<1> QED BY <1>1, <1>2

\* A long is written with its digits, and the smallest with none.
LEMMA WrittenAs ==
    ASSUME NEW v \in Signed(LONG_MAX)
    PROVE  string_from_long(v) =
              IF v = -LONG_MAX - 1 THEN <<Minus>>
              ELSE IF v < 0 THEN <<Minus>> \o Figures(-v) ELSE Figures(v)
<1>1. v \in Int /\ LONG_MAX \in Nat /\ -LONG_MAX - 1 <= v /\ v <= LONG_MAX /\ -v \in Int
  BY SizesAssumption DEF Signed
<1> DEFINE positive == IF v < 0 THEN Low(-v, LONG_MAX) ELSE v
           figures == IF positive = 0 THEN <<0>> ELSE IF positive < 0 THEN <<>> ELSE Digits[positive]
<1>2. string_from_long(v) = (IF v < 0 THEN <<Minus>> ELSE <<>>) \o figures
  BY Zenon DEF string_from_long
<1>3. CASE v = -LONG_MAX - 1
  <2>1. -v = v + 1 * (2 * LONG_MAX + 2)
    BY <1>1, <1>3
  <2>2. Low(-v, LONG_MAX) = Low(v, LONG_MAX)
    <3>1. 1 \in Int
      OBVIOUS
    <3>2. Low(v + 1 * (2 * LONG_MAX + 2), LONG_MAX) = Low(v, LONG_MAX)
      BY <1>1, <3>1, LowSame, Zenon
    <3> QED BY <2>1, <3>2, Zenon
  <2>3. Low(v, LONG_MAX) = v
    BY <1>1, LowIs
  <2>4. v < 0 /\ positive = v
    BY <1>1, <1>3, <2>2, <2>3
  <2>5. figures = <<>>
    BY <1>1, <2>4
  <2>6. string_from_long(v) = <<Minus>> \o <<>>
    BY <1>2, <2>4, <2>5
  <2> QED BY <1>3, <2>6
<1>4. CASE v # -LONG_MAX - 1 /\ v < 0
  <2>1. -v \in Signed(LONG_MAX) /\ -v > 0
    BY <1>1, <1>4 DEF Signed
  <2>2. Low(-v, LONG_MAX) = -v
    BY <1>1, <2>1, LowIs
  <2>3. figures = Figures(-v)
    BY <1>1, <1>4, <2>1, <2>2 DEF Figures
  <2> HIDE DEF figures
  <2> QED BY <1>2, <1>4, <2>3
<1>5. CASE ~(v < 0)
  <2>1. figures = Figures(v) /\ v \in Nat
    BY <1>1, <1>5 DEF Figures
  <2>2. Figures(v) \in Seq(0 .. 9)
    BY <2>1, FiguresRead
  <2>3. <<>> \o Figures(v) = Figures(v)
    BY <2>2
  <2>4. string_from_long(v) = <<>> \o figures
    BY <1>2, <1>5
  <2>5. v # -LONG_MAX - 1
    BY <1>1, <1>5
  <2> HIDE DEF figures
  <2> QED BY <1>5, <2>1, <2>3, <2>4, <2>5
<1> QED BY <1>1, <1>3, <1>4, <1>5

\* What comes back of a long.
ComesBack(v, t) ==
    string_to_long(t) =
        IF v = -LONG_MAX - 1 THEN [ok |-> FALSE]
        ELSE [ok |-> TRUE, value |-> Low(v, INT_MAX)]

\* Every long, written by string_from_long, is read that way by string_to_long.
LEMMA LongComesBack ==
    ASSUME NEW v \in Signed(LONG_MAX)
    PROVE  ComesBack(v, string_from_long(v))
<1>1. v \in Int /\ LONG_MAX \in Nat /\ -LONG_MAX - 1 <= v /\ v <= LONG_MAX /\ INT_MAX \in Nat
  BY SizesAssumption DEF Signed
<1> DEFINE t == string_from_long(v)
<1>2. CASE v = -LONG_MAX - 1
  <2>1. t = <<Minus>>
    BY <1>2, WrittenAs
  <2>2. Numeral(<<Minus>>) = <<>>
    BY DEF Numeral
  <2>3. string_to_long(<<Minus>>) = [ok |-> FALSE]
    BY <2>2 DEF string_to_long
  <2> QED BY <1>2, <2>1, <2>3 DEF ComesBack
<1>3. CASE v # -LONG_MAX - 1 /\ v < 0
  <2> DEFINE f == Figures(-v)
             u == <<Minus>> \o f
  <2>1. t = u /\ -v \in Nat
    BY <1>1, <1>3, WrittenAs
  <2>2. f \in Seq(0 .. 9) /\ f # <<>> /\ ReadDigits(f) = Low(-v, INT_MAX)
    BY <2>1, FiguresRead
  <2> HIDE DEF f
  <2>3. Len(u) = Len(f) + 1 /\ u[1] = Minus /\ Len(f) \in Nat /\ u # <<>>
        /\ \A i \in 1 .. Len(f) : u[i + 1] = f[i]
    <3>1. f \in Seq(Int) /\ <<Minus>> \in Seq(Int) /\ Len(<<Minus>>) = 1 /\ <<Minus>>[1] = Minus
      BY <2>2 DEF Minus
    <3>2. /\ Len(u) = 1 + Len(f)
          /\ \A i \in 1 .. 1 + Len(f) : u[i] = IF i <= 1 THEN Minus ELSE f[i - 1]
      BY <3>1, ConcatProperties
    <3>3. Len(f) \in Nat
      BY <2>2, LenProperties
    <3> HIDE DEF u
    <3>4. u[1] = Minus /\ \A i \in 1 .. Len(f) : u[i + 1] = f[i]
      BY <3>2, <3>3
    <3>5. u # <<>>
      BY <3>2, <3>3
    <3> QED BY <3>2, <3>3, <3>4, <3>5
  <2>4. Tail(u) = f
    <3>1. <<Minus>> \in Seq(Int) /\ f \in Seq(Int)
      BY <2>2 DEF Minus
    <3>2. u \in Seq(Int) /\ u # <<>>
      BY <2>3, <3>1, ConcatProperties
    <3> HIDE DEF u
    <3>3. /\ Tail(u) \in Seq(Int) /\ Len(Tail(u)) = Len(f)
          /\ \A i \in 1 .. Len(f) : Tail(u)[i] = f[i]
      BY <2>3, <3>2, HeadTailProperties
    <3> QED BY <3>1, <3>3, SeqEqual
  <2>5. Numeral(u) = f
    BY <2>3, <2>4 DEF Numeral
  <2>6. string_to_long(u) = [ok |-> TRUE, value |-> Low(-Low(-v, INT_MAX), INT_MAX)]
    <3> HIDE DEF u
    <3> QED BY <2>2, <2>3, <2>5 DEF string_to_long
  <2>7. Low(-Low(-v, INT_MAX), INT_MAX) = Low(v, INT_MAX)
    <3>1. -v \in Int /\ -(-v) = v
      BY <1>1
    <3>2. Low(-Low(-v, INT_MAX), INT_MAX) = Low(-(-v), INT_MAX)
      BY <1>1, <3>1, LowOpposite, Zenon
    <3> QED BY <3>1, <3>2, Zenon
  <2> HIDE DEF u
  <2> QED BY <1>3, <2>1, <2>6, <2>7 DEF ComesBack
<1>4. CASE ~(v < 0)
  <2> DEFINE f == Figures(v)
  <2>1. t = f /\ v \in Nat /\ v # -LONG_MAX - 1
    BY <1>1, <1>4, WrittenAs
  <2>2. f \in Seq(0 .. 9) /\ f # <<>> /\ ReadDigits(f) = Low(v, INT_MAX)
    BY <2>1, FiguresRead
  <2>3. f[1] # Minus /\ f[1] # Plus
    <3>1. Len(f) >= 1
      BY <2>2, EmptySeq, LenProperties
    <3>2. f[1] \in 0 .. 9
      <4> HIDE DEF f
      <4> QED BY <2>2, <3>1
    <3> QED BY <3>2 DEF Minus, Plus
  <2>4. Numeral(f) = f
    BY <2>3 DEF Numeral
  <2>5. string_to_long(f) = [ok |-> TRUE, value |-> Low(v, INT_MAX)]
    <3> HIDE DEF f
    <3> QED BY <2>2, <2>3, <2>4 DEF string_to_long
  <2> QED BY <2>1, <2>5 DEF ComesBack
<1> QED BY <1>1, <1>2, <1>3, <1>4

-----------------------------------------------------------------------------
(* The string: replacing. *)

\* A text stands at a place when its characters stand there one by one.
LEMMA AtIs ==
    ASSUME NEW S, NEW t \in Seq(S), NEW d \in Seq(S), NEW p \in Nat
    PROVE  At(t, p, d) <=> p + Len(d) <= Len(t) /\ \A i \in 1 .. Len(d) : t[p + i] = d[i]
<1>1. Len(t) \in Nat /\ Len(d) \in Nat
  BY LenProperties
<1>2. CASE ~(p + Len(d) <= Len(t))
  BY <1>2 DEF At
<1>3. CASE p + Len(d) <= Len(t)
  <2> DEFINE a == p + 1
             b == p + Len(d)
             u == SubSeq(t, a, b)
  <2>1. u \in Seq(S) /\ Len(u) = Len(d) /\ \A i \in 1 .. Len(d) : u[i] = t[p + i]
    <3>1. /\ a \in Nat \ {0} /\ b \in Nat /\ a <= b + 1 /\ b <= Len(t) /\ b - a + 1 = Len(d)
          /\ \A i \in 1 .. Len(d) : a + i - 1 = p + i
      BY <1>1, <1>3
    <3> HIDE DEF a, b
    <3>2. /\ u \in Seq(S) /\ Len(u) = b - a + 1
          /\ \A i \in 1 .. b - a + 1 : u[i] = t[a + i - 1]
      BY <3>1, Part
    <3> HIDE DEF u
    <3>3. Len(u) = Len(d) /\ \A i \in 1 .. Len(d) : u[i] = t[a + i - 1]
      BY <3>1, <3>2, Zenon
    <3>4. \A i \in 1 .. Len(d) : u[i] = t[p + i]
      BY <3>1, <3>3, Zenon
    <3> QED BY <3>2, <3>3, <3>4, Zenon
  <2>2. At(t, p, d) <=> u = d
    BY <1>3 DEF At
  <2> HIDE DEF u
  <2>3. u = d <=> \A i \in 1 .. Len(d) : u[i] = d[i]
    BY <2>1, SeqEqual
  <2> QED BY <1>3, <2>1, <2>2, <2>3
<1> QED BY <1>2, <1>3

\* The last j characters.
Rest(t, j) == SubSeq(t, Len(t) - j + 1, Len(t))

\* The last characters: their number, each of them, and one more in front.
LEMMA RestIs ==
    ASSUME NEW S, NEW t \in Seq(S), NEW j \in 0 .. Len(t)
    PROVE  /\ Rest(t, j) \in Seq(S) /\ Len(Rest(t, j)) = j
           /\ \A i \in 1 .. j : Rest(t, j)[i] = t[Len(t) - j + i]
           /\ Rest(t, Len(t)) = t /\ Rest(t, 0) = <<>>
           /\ j # 0 => t[Len(t) - j + 1] \in S /\ Rest(t, j) = <<t[Len(t) - j + 1]>> \o Rest(t, j - 1)
<1>1. Len(t) \in Nat /\ j \in Nat
  BY LenProperties
<1>2. /\ Rest(t, j) \in Seq(S) /\ Len(Rest(t, j)) = j
      /\ \A i \in 1 .. j : Rest(t, j)[i] = t[Len(t) - j + i]
  <2> DEFINE m == Len(t) - j + 1
  <2>1. m \in Nat \ {0} /\ m <= Len(t) + 1 /\ Len(t) - m + 1 = j /\ Len(t) <= Len(t)
        /\ \A i \in 1 .. j : m + i - 1 = Len(t) - j + i
    BY <1>1
  <2>2. /\ SubSeq(t, m, Len(t)) \in Seq(S) /\ Len(SubSeq(t, m, Len(t))) = Len(t) - m + 1
        /\ \A i \in 1 .. Len(t) - m + 1 : SubSeq(t, m, Len(t))[i] = t[m + i - 1]
    <3> HIDE DEF m
    <3> QED BY <1>1, <2>1, Part
  <2>3. Rest(t, j) = SubSeq(t, m, Len(t))
    BY DEF Rest
  <2> HIDE DEF m
  <2> QED BY <2>1, <2>2, <2>3
<1>3. Rest(t, Len(t)) = t
  <2>1. Len(t) - Len(t) + 1 = 1
    BY <1>1
  <2> QED BY <2>1, SubSeqFull DEF Rest
<1>4. Rest(t, 0) = <<>>
  <2>1. Len(t) - 0 + 1 \in Int /\ Len(t) \in Int /\ Len(t) < Len(t) - 0 + 1
    BY <1>1
  <2> QED BY <2>1, SubSeqEmpty, Zenon DEF Rest
<1>5. ASSUME j # 0
      PROVE t[Len(t) - j + 1] \in S /\ Rest(t, j) = <<t[Len(t) - j + 1]>> \o Rest(t, j - 1)
  <2> DEFINE m == Len(t) - j + 1
  <2>1. m \in 1 .. Len(t) /\ Len(t) \in m .. Len(t) /\ Len(t) - (j - 1) + 1 = m + 1
    BY <1>1, <1>5
  <2>2. SubSeq(t, m, Len(t)) = <<t[m]>> \o SubSeq(t, m + 1, Len(t))
    <3> HIDE DEF m
    <3> QED BY <2>1, SubSeqRecursiveFirst
  <2>3. t[m] \in S
    BY <2>1, ElementOfSeq
  <2> QED BY <2>1, <2>2, <2>3 DEF Rest
<1> QED BY <1>2, <1>3, <1>4, <1>5

\* What stands behind the part of the text that is done.
LEMMA AtBehind ==
    ASSUME NEW S, NEW t \in Seq(S), NEW out \in Seq(S), NEW d \in Seq(S), NEW j \in 0 .. Len(t)
    PROVE  /\ Len(out \o Rest(t, j)) = Len(out) + j
           /\ At(out \o Rest(t, j), Len(out), d) <=> At(t, Len(t) - j, d)
<1> DEFINE x == Rest(t, j)
           u == out \o x
<1>1. x \in Seq(S) /\ Len(x) = j /\ \A i \in 1 .. j : x[i] = t[Len(t) - j + i]
  BY RestIs, ZenonT(60)
<1>2. Len(t) \in Nat /\ j \in Nat /\ Len(out) \in Nat /\ Len(d) \in Nat
  BY LenProperties
<1> HIDE DEF x
<1>3. u \in Seq(S) /\ Len(u) = Len(out) + j
      /\ \A i \in 1 .. Len(out) + j : u[i] = IF i <= Len(out) THEN out[i] ELSE x[i - Len(out)]
  BY <1>1, ConcatProperties
<1> HIDE DEF u
<1>4. ASSUME NEW i \in 1 .. j PROVE u[Len(out) + i] = t[Len(t) - j + i]
  <2>1. Len(out) + i \in 1 .. Len(out) + j /\ ~(Len(out) + i <= Len(out)) /\ Len(out) + i - Len(out) = i
    BY <1>2
  <2>2. u[Len(out) + i] = x[Len(out) + i - Len(out)]
    BY <1>3, <2>1
  <2>3. x[i] = t[Len(t) - j + i]
    BY <1>1
  <2> QED BY <2>1, <2>2, <2>3
<1>5. At(u, Len(out), d) <=>
        Len(out) + Len(d) <= Len(u) /\ \A i \in 1 .. Len(d) : u[Len(out) + i] = d[i]
  <2>1. u \in Seq(S) /\ Len(out) \in Nat
    BY <1>2, <1>3
  <2> QED BY <2>1, AtIs, ZenonT(60)
<1>6. Len(t) - j \in Nat
  BY <1>2
<1>7. At(t, Len(t) - j, d) <=>
        Len(t) - j + Len(d) <= Len(t) /\ \A i \in 1 .. Len(d) : t[Len(t) - j + i] = d[i]
  <2> DEFINE k == Len(t) - j
  <2>1. k \in Nat
    BY <1>6
  <2> HIDE DEF k
  <2>2. At(t, k, d) <=> k + Len(d) <= Len(t) /\ \A i \in 1 .. Len(d) : t[k + i] = d[i]
    BY <2>1, AtIs, ZenonT(60)
  <2> QED BY <2>2 DEF k
<1>8. (Len(out) + Len(d) <= Len(u) <=> Len(d) <= j) /\ (Len(t) - j + Len(d) <= Len(t) <=> Len(d) <= j)
  BY <1>2, <1>3
<1>9. Len(d) <= j => \A i \in 1 .. Len(d) : u[Len(out) + i] = t[Len(t) - j + i]
  <2> SUFFICES ASSUME Len(d) <= j, NEW i \in 1 .. Len(d)
               PROVE  u[Len(out) + i] = t[Len(t) - j + i]
    OBVIOUS
  <2>1. i \in 1 .. j
    BY <1>2
  <2> QED BY <1>4, <2>1
<1>10. At(u, Len(out), d) <=> At(t, Len(t) - j, d)
  BY <1>5, <1>7, <1>8, <1>9
<1> QED BY <1>3, <1>10 DEF u, x

\* y is u with what `from` takes at p replaced.
TakesOut(u, p, from, to, y) == Replaced(u, p, from, to) = y

\* One replacement where the text that is done ends.
LEMMA ReplacedIs ==
    ASSUME NEW S, NEW t \in Seq(S), NEW out \in Seq(S), NEW from \in Seq(S), NEW to \in Seq(S),
           NEW j \in 0 .. Len(t), Len(from) <= j
    PROVE  TakesOut(out \o Rest(t, j), Len(out), from, to, (out \o to) \o Rest(t, j - Len(from)))
<1> DEFINE x == Rest(t, j)
           u == out \o x
           k == j - Len(from)
<1>1. x \in Seq(S) /\ Len(x) = j /\ \A i \in 1 .. j : x[i] = t[Len(t) - j + i]
  BY RestIs, ZenonT(60)
<1>2. Len(t) \in Nat /\ j \in Nat /\ Len(out) \in Nat /\ Len(from) \in Nat /\ k \in 0 .. Len(t)
  BY LenProperties
<1> HIDE DEF x
<1>3. u \in Seq(S) /\ Len(u) = Len(out) + j
      /\ \A i \in 1 .. Len(out) + j : u[i] = IF i <= Len(out) THEN out[i] ELSE x[i - Len(out)]
  BY <1>1, ConcatProperties
<1> HIDE DEF u
<1>4. SubSeq(u, 1, Len(out)) = out
  <2>1. Len(out) <= Len(u) /\ \A i \in 1 .. Len(out) : u[i] = out[i]
    BY <1>2, <1>3
  <2>2. /\ SubSeq(u, 1, Len(out)) \in Seq(S) /\ Len(SubSeq(u, 1, Len(out))) = Len(out)
        /\ \A i \in 1 .. Len(out) : SubSeq(u, 1, Len(out))[i] = u[i]
    BY <1>2, <1>3, <2>1, Beginning
  <2> QED BY <2>1, <2>2, SeqEqual
<1>5. SubSeq(u, Len(out) + Len(from) + 1, Len(u)) = Rest(t, k)
  <2> DEFINE m == Len(out) + Len(from) + 1
             v == SubSeq(u, m, Len(u))
  <2>1. m \in Nat \ {0} /\ Len(u) \in Nat /\ m <= Len(u) + 1 /\ Len(u) - m + 1 = k
    BY <1>2, <1>3
  <2>2. v \in Seq(S) /\ Len(v) = k /\ \A i \in 1 .. k : v[i] = u[m + i - 1]
    <3>1. /\ v \in Seq(S) /\ Len(v) = Len(u) - m + 1
          /\ \A i \in 1 .. Len(u) - m + 1 : v[i] = u[m + i - 1]
      <4> HIDE DEF m, k
      <4>1. u \in Seq(S) /\ Len(u) <= Len(u)
        BY <1>3, <2>1
      <4> QED BY <2>1, <4>1, Part
    <3> HIDE DEF m, v, k
    <3> QED BY <2>1, <3>1
  <2>3. Rest(t, k) \in Seq(S) /\ Len(Rest(t, k)) = k /\ \A i \in 1 .. k : Rest(t, k)[i] = t[Len(t) - k + i]
    <3> HIDE DEF k
    <3> QED BY <1>2, RestIs, ZenonT(60)
  <2>4. ASSUME NEW i \in 1 .. k PROVE u[m + i - 1] = t[Len(t) - k + i]
    <3>1. /\ m + i - 1 \in 1 .. Len(out) + j /\ ~(m + i - 1 <= Len(out))
          /\ m + i - 1 - Len(out) = Len(from) + i /\ Len(from) + i \in 1 .. j
          /\ Len(t) - j + (Len(from) + i) = Len(t) - k + i
      BY <1>2
    <3> HIDE DEF m, k
    <3>2. u[m + i - 1] = x[Len(from) + i]
      <4> DEFINE p == m + i - 1
      <4>1. p \in 1 .. Len(out) + j /\ ~(p <= Len(out)) /\ p - Len(out) = Len(from) + i
        BY <1>2 DEF m, k
      <4> HIDE DEF p
      <4>2. u[p] = x[p - Len(out)]
        BY <1>3, <4>1
      <4> QED BY <4>1, <4>2 DEF p
    <3>3. x[Len(from) + i] = t[Len(t) - j + (Len(from) + i)]
      BY <1>1, <3>1
    <3> QED BY <3>1, <3>2, <3>3
  <2> HIDE DEF m, k, v
  <2>5. \A i \in 1 .. k : v[i] = Rest(t, k)[i]
    BY <2>2, <2>3, <2>4
  <2>6. v = Rest(t, k)
    BY <2>2, <2>3, <2>5, SeqEqual
  <2> QED BY <2>6 DEF v, m
<1> QED BY <1>4, <1>5 DEF TakesOut, Replaced, u, x

\* How the text that should come of a replacement is made from the end: w[j][m] is for
\* the last j characters and m replacements.
WantedBy(S, t, from, to, w) ==
    LET all == 0 .. Len(t)
    IN  /\ w \in [all -> [all -> Seq(S)]]
        /\ \A j \in all : w[j][0] = Rest(t, j)
        /\ \A m \in all : w[0][m] = <<>>
        /\ \A j \in 1 .. Len(t), m \in 1 .. Len(t) :
              At(t, Len(t) - j, from) => w[j][m] = to \o w[j - Len(from)][m - 1]
        /\ \A j \in 1 .. Len(t), m \in 1 .. Len(t) :
              ~At(t, Len(t) - j, from) => w[j][m] = <<t[Len(t) - j + 1]>> \o w[j - 1][m]

\* WantedReplace is made that way.
LEMMA WantedIs ==
    ASSUME NEW S, NEW t \in Seq(S), NEW from \in Seq(S), NEW to \in Seq(S), from # <<>>
    PROVE  \E w : WantedBy(S, t, from, to, w) /\ WantedReplace(t, from, to) = w[Len(t)]
<1> DEFINE n == Len(t)
           D == 0 .. n
           V == [D -> Seq(S)]
           value(f, k, most) ==
              IF k = 0 \/ most = 0 THEN SubSeq(t, n - k + 1, n)
              ELSE IF At(t, n - k, from) THEN to \o f[k - Len(from)][most - 1]
              ELSE <<t[n - k + 1]>> \o f[k - 1][most]
           next(f, k) == [most \in D |-> value(f, k, most)]
           step == [k \in D |-> [f \in [D -> V] |-> next(f, k)]]
<1>1. n \in Nat /\ Len(from) \in Nat \ {0}
  BY LenProperties, EmptySeq
<1>2. ASSUME NEW k \in D, k # 0
      PROVE  /\ k - 1 \in D /\ k - 1 < k /\ t[n - k + 1] \in S
             /\ At(t, n - k, from) => k - Len(from) \in D /\ k - Len(from) < k
  <2>1. n - k \in Nat /\ n - k + 1 \in 1 .. n
    BY <1>1, <1>2
  <2>2. At(t, n - k, from) => n - k + Len(from) <= n
    BY DEF At
  <2> QED BY <1>1, <1>2, <2>1, <2>2
<1>3. ASSUME NEW k \in D, NEW f \in [D -> V], NEW most \in D PROVE value(f, k, most) \in Seq(S)
  <2>1. CASE k = 0 \/ most = 0
    <3>1. Rest(t, k) \in Seq(S)
      BY RestIs, ZenonT(60)
    <3> QED BY <2>1, <3>1 DEF Rest
  <2>2. CASE k # 0 /\ most # 0 /\ At(t, n - k, from)
    <3>1. k - Len(from) \in D /\ most - 1 \in D
      BY <1>1, <1>2, <2>2
    <3>2. f[k - Len(from)][most - 1] \in Seq(S)
      <4> HIDE DEF D
      <4> QED BY <3>1
    <3>3. to \o f[k - Len(from)][most - 1] \in Seq(S)
      BY <3>2, ConcatProperties
    <3> QED BY <2>2, <3>3
  <2>3. CASE k # 0 /\ most # 0 /\ ~At(t, n - k, from)
    <3>1. k - 1 \in D /\ t[n - k + 1] \in S
      BY <1>2, <2>3
    <3>2. f[k - 1][most] \in Seq(S) /\ <<t[n - k + 1]>> \in Seq(S)
      <4> HIDE DEF D
      <4> QED BY <3>1
    <3>3. <<t[n - k + 1]>> \o f[k - 1][most] \in Seq(S)
      BY <3>2, ConcatProperties
    <3> QED BY <2>3, <3>3
  <2> QED BY <2>1, <2>2, <2>3
<1>4. ASSUME NEW k \in D, NEW f \in [D -> V], NEW g \in [D -> V],
             \A j \in D : j < k => f[j] = g[j]
      PROVE  next(f, k) = next(g, k)
  <2> SUFFICES ASSUME NEW most \in D PROVE value(f, k, most) = value(g, k, most)
    OBVIOUS
  <2>1. CASE k = 0 \/ most = 0
    BY <2>1
  <2>2. CASE k # 0 /\ most # 0
    <3>1. f[k - 1] = g[k - 1]
      <4>1. k - 1 \in D /\ k - 1 < k
        BY <1>2, <2>2
      <4> HIDE DEF D
      <4> QED BY <1>4, <4>1
    <3>2. At(t, n - k, from) => f[k - Len(from)] = g[k - Len(from)]
      <4>1. At(t, n - k, from) => k - Len(from) \in D /\ k - Len(from) < k
        BY <1>2, <2>2
      <4> HIDE DEF D
      <4> QED BY <1>4, <4>1
    <3> QED BY <2>2, <3>1, <3>2
  <2> QED BY <2>1, <2>2
<1>5. D \subseteq Nat /\ V # {}
  <2>1. [i \in D |-> <<>>] \in V
    OBVIOUS
  <2>2. D \subseteq Nat
    BY <1>1
  <2> HIDE DEF V, D
  <2> QED BY <2>1, <2>2
<1>6. ASSUME NEW k \in D, NEW f \in [D -> V] PROVE next(f, k) \in V
  <2> HIDE DEF value
  <2> QED BY <1>3
<1> HIDE DEF D, V, value
<1>7. ASSUME NEW k \in D, NEW f \in [D -> V] PROVE step[k][f] = next(f, k)
  OBVIOUS
<1> DEFINE E == [D -> V]
<1>8. Founded(D, V, step)
  <2>1. step \in [D -> [E -> V]]
    BY <1>6
  <2> HIDE DEF step, next
  <2>2. ASSUME NEW i \in D, NEW f \in [D -> V], NEW g \in [D -> V],
               \A j \in D : j < i => f[j] = g[j]
        PROVE  step[i][f] = step[i][g]
    <3>1. next(f, i) = next(g, i)
      BY <1>4, <2>2
    <3>2. step[i][f] = next(f, i) /\ step[i][g] = next(g, i)
      BY <1>7
    <3> QED BY <3>1, <3>2
  <2> QED BY <1>5, <2>1, <2>2 DEF Founded
<1>9. PICK f \in [D -> V] : \A k \in D : f[k] = step[k][f]
  <2> HIDE DEF step
  <2> QED BY <1>5, <1>8, Recursion
<1>10. f = [k \in D |-> next(f, k)]
  <2> HIDE DEF step, next
  <2> QED BY <1>7, <1>9
<1> DEFINE All(g) == g = [k \in 0 .. Len(t) |->
              [most \in 0 .. Len(t) |->
                IF k = 0 \/ most = 0 THEN SubSeq(t, Len(t) - k + 1, Len(t))
                ELSE IF At(t, Len(t) - k, from) THEN to \o g[k - Len(from)][most - 1]
                ELSE <<t[Len(t) - k + 1]>> \o g[k - 1][most]]]
           w == CHOOSE g : All(g)
<1>11. All(w)
  <2>1. All(f)
    BY <1>10, Zenon DEF value, D
  <2> QED BY <2>1, Zenon
<1>12. WantedReplace(t, from, to) = w[n]
  BY Zenon DEF WantedReplace
<1> HIDE DEF w
<1>13. w = [k \in D |-> next(w, k)]
  BY <1>11, Zenon DEF value, D
<1>14. \A k \in D : w[k] = next(w, k)
  BY <1>13
<1>15. w \in [D -> V]
  <2> SUFFICES \A k \in D : w[k] \in V
    BY <1>13
  <2> DEFINE Bad == {k \in Nat : k \in D /\ w[k] \notin V}
  <2> SUFFICES ASSUME Bad # {} PROVE FALSE
    BY <1>5
  <2>1. PICK k \in Bad : \A j \in Bad : k <= j
    BY HasLeast
  <2>2. k \in D /\ w[k] \notin V /\ k \in Nat
    BY <2>1
  <2> DEFINE none == [i \in D |-> <<>>]
             g == [j \in D |-> IF j < k THEN w[j] ELSE none]
  <2>3. g \in [D -> V]
    <3> SUFFICES ASSUME NEW j \in D PROVE (IF j < k THEN w[j] ELSE none) \in V
      OBVIOUS
    <3>1. none \in V
      BY DEF V
    <3>2. j < k => w[j] \in V
      <4>1. j \in Nat /\ (j < k => ~(k <= j))
        BY <1>5, <2>2
      <4> QED BY <2>1, <4>1
    <3> HIDE DEF none
    <3> QED BY <3>1, <3>2
  <2>4. \A j \in D : j < k => g[j] = w[j]
    OBVIOUS
  <2> HIDE DEF g
  <2>5. next(w, k) = next(g, k)
    <3> SUFFICES ASSUME NEW most \in D PROVE value(w, k, most) = value(g, k, most)
      OBVIOUS
    <3>1. CASE k = 0 \/ most = 0
      BY <3>1 DEF value
    <3>2. CASE k # 0 /\ most # 0
      <4>1. w[k - 1] = g[k - 1]
        BY <1>2, <2>2, <2>4, <3>2
      <4>2. At(t, n - k, from) => w[k - Len(from)] = g[k - Len(from)]
        BY <1>2, <2>2, <2>4, <3>2
      <4> QED BY <3>2, <4>1, <4>2 DEF value
    <3> QED BY <3>1, <3>2
  <2>6. next(g, k) \in V
    <3> HIDE DEF next
    <3> QED BY <1>6, <2>2, <2>3
  <2> HIDE DEF next
  <2> QED BY <1>14, <2>2, <2>5, <2>6
<1>16. ASSUME NEW k \in D, NEW most \in D PROVE w[k][most] = value(w, k, most)
  <2>1. w[k] = [m \in D |-> value(w, k, m)]
    BY <1>14
  <2> QED BY <2>1
<1>17. 0 \in D /\ \A k \in 1 .. n : k \in D /\ k # 0
  BY <1>1 DEF D
<1>18. \A j \in D : w[j][0] = Rest(t, j)
  BY <1>16, <1>17 DEF value, Rest
<1>19. \A m \in D : w[0][m] = <<>>
  <2>1. Rest(t, 0) = <<>>
    BY <1>1, RestIs, <1>17, ZenonT(60) DEF D
  <2> QED BY <1>16, <1>17, <2>1 DEF value, Rest
<1>20. ASSUME NEW j \in 1 .. n, NEW m \in 1 .. n
       PROVE  w[j][m] = IF At(t, n - j, from) THEN to \o w[j - Len(from)][m - 1]
                        ELSE <<t[n - j + 1]>> \o w[j - 1][m]
  <2>1. j \in D /\ j # 0 /\ m \in D /\ m # 0
    BY <1>17
  <2>2. w[j][m] = value(w, j, m)
    BY <1>16, <2>1
  <2> QED BY <2>1, <2>2 DEF value
<1>21. WantedBy(S, t, from, to, w)
  BY <1>15, <1>18, <1>19, <1>20, Zenon DEF WantedBy, D, V
<1> QED BY <1>12, <1>21

\* A character where nothing is found stays.
LEMMA WantedStays ==
    ASSUME NEW S, NEW t \in Seq(S), NEW from \in Seq(S), NEW to \in Seq(S), NEW w,
           WantedBy(S, t, from, to, w), NEW j \in 1 .. Len(t), NEW m \in 0 .. Len(t),
           ~At(t, Len(t) - j, from)
    PROVE  w[j][m] = <<t[Len(t) - j + 1]>> \o w[j - 1][m]
<1>1. Len(t) \in Nat /\ j \in 0 .. Len(t) /\ j - 1 \in 0 .. Len(t) /\ j # 0
  BY LenProperties
<1>2. CASE m = 0
  <2>1. w[j][0] = Rest(t, j) /\ w[j - 1][0] = Rest(t, j - 1)
    BY <1>1, Zenon DEF WantedBy
  <2>2. Rest(t, j) = <<t[Len(t) - j + 1]>> \o Rest(t, j - 1)
    BY <1>1, RestIs, ZenonT(60)
  <2> QED BY <1>2, <2>1, <2>2
<1>3. CASE m # 0
  <2>1. m \in 1 .. Len(t)
    BY <1>1, <1>3
  <2> QED BY <2>1, Zenon DEF WantedBy
<1> QED BY <1>2, <1>3

\* Where too little is left nothing is found.
LEMMA WantedShort ==
    ASSUME NEW S, NEW t \in Seq(S), NEW from \in Seq(S), NEW to \in Seq(S), NEW w,
           WantedBy(S, t, from, to, w), NEW m \in 0 .. Len(t)
    PROVE  \A j \in 0 .. Len(t) : j < Len(from) => w[j][m] = Rest(t, j)
<1> DEFINE Good == {j \in Nat : j \in 0 .. Len(t) /\ (j < Len(from) => w[j][m] = Rest(t, j))}
<1>1. Len(t) \in Nat /\ Len(from) \in Nat
  BY LenProperties
<1>2. 0 \in Good
  <2>1. 0 \in 0 .. Len(t)
    BY <1>1
  <2>2. w[0][m] = <<>>
    BY Zenon DEF WantedBy
  <2>3. Rest(t, 0) = <<>>
    BY <2>1, RestIs, ZenonT(60)
  <2> QED BY <2>1, <2>2, <2>3
<1>3. ASSUME NEW j \in 1 .. Len(t), j - 1 \in Good PROVE j \in Good
  <2>1. j \in 0 .. Len(t) /\ j \in Nat /\ j # 0
    BY <1>1
  <2>2. ASSUME j < Len(from) PROVE w[j][m] = Rest(t, j)
    <3>1. ~At(t, Len(t) - j, from)
      BY <1>1, <2>1, <2>2 DEF At
    <3>2. w[j][m] = <<t[Len(t) - j + 1]>> \o w[j - 1][m]
      BY <3>1, WantedStays
    <3>3. w[j - 1][m] = Rest(t, j - 1)
      BY <1>1, <1>3, <2>1, <2>2
    <3>4. Rest(t, j) = <<t[Len(t) - j + 1]>> \o Rest(t, j - 1)
      BY <2>1, RestIs, ZenonT(60)
    <3> QED BY <3>2, <3>3, <3>4
  <2> QED BY <2>1, <2>2
<1> HIDE DEF Good
<1>4. \A j \in 0 .. Len(t) : j \in Good
  BY <1>1, <1>2, <1>3, Upward
<1> QED BY <1>4 DEF Good

\* What is put in is no shorter than what is taken out: the text does not shrink.
LEMMA WantedLong ==
    ASSUME NEW S, NEW t \in Seq(S), NEW from \in Seq(S), NEW to \in Seq(S), NEW w,
           from # <<>>, WantedBy(S, t, from, to, w), Len(to) >= Len(from)
    PROVE  \A j \in 0 .. Len(t) : \A m \in 0 .. Len(t) : Len(w[j][m]) >= j
<1> DEFINE n == Len(t)
           Bad == {j \in Nat : j \in 0 .. n /\ \E m \in 0 .. n : ~(Len(w[j][m]) >= j)}
<1>1. n \in Nat /\ Len(from) \in Nat \ {0} /\ Len(to) \in Nat
  BY LenProperties, EmptySeq
<1>2. Bad = {}
  <2> SUFFICES ASSUME Bad # {} PROVE FALSE
    OBVIOUS
  <2>1. PICK j \in Bad : \A k \in Bad : j <= k
    BY HasLeast
  <2>2. j \in 0 .. n /\ j \in Nat
    BY <2>1
  <2>3. PICK m \in 0 .. n : ~(Len(w[j][m]) >= j)
    BY <2>1
  <2>4. \A k \in 0 .. n : k < j => \A i \in 0 .. n : Len(w[k][i]) >= k
    <3> SUFFICES ASSUME NEW k \in 0 .. n, k < j PROVE \A i \in 0 .. n : Len(w[k][i]) >= k
      OBVIOUS
    <3>1. k \in Nat /\ ~(j <= k)
      BY <1>1, <2>2
    <3>2. k \notin Bad
      <4> HIDE DEF Bad
      <4> QED BY <2>1, <3>1
    <3> QED BY <3>1, <3>2
  <2> HIDE DEF Bad
  <2>5. \A k \in 0 .. n : \A i \in 0 .. n : w[k][i] \in Seq(S)
    <3>1. w \in [0 .. n -> [0 .. n -> Seq(S)]]
      BY Zenon DEF WantedBy
    <3> QED BY <3>1
  <2>6. CASE j = 0
    <3>1. Len(w[j][m]) \in Nat
      BY <2>2, <2>5, LenProperties
    <3> QED BY <2>3, <2>6, <3>1
  <2>7. CASE j # 0 /\ m = 0
    <3>1. w[j][0] = Rest(t, j)
      BY <2>2, Zenon DEF WantedBy
    <3>2. Len(Rest(t, j)) = j
      BY <2>2, RestIs, ZenonT(60)
    <3> QED BY <2>2, <2>3, <2>7, <3>1, <3>2
  <2>8. CASE j # 0 /\ m # 0 /\ At(t, n - j, from)
    <3>1. n - j + Len(from) <= n
      BY <2>8 DEF At
    <3>2. j - Len(from) \in 0 .. n /\ j - Len(from) < j /\ m - 1 \in 0 .. n /\ j \in 1 .. n /\ m \in 1 .. n
      BY <1>1, <2>2, <2>8, <3>1
    <3> DEFINE v == w[j - Len(from)][m - 1]
    <3>3. w[j][m] = to \o v
      BY <2>8, <3>2, Zenon DEF WantedBy
    <3>4. Len(v) >= j - Len(from) /\ v \in Seq(S)
      BY <2>4, <2>5, <3>2
    <3> HIDE DEF v
    <3>5. Len(to \o v) = Len(to) + Len(v) /\ Len(v) \in Nat
      BY <3>4, ConcatProperties, LenProperties
    <3> QED BY <1>1, <2>2, <2>3, <3>3, <3>4, <3>5
  <2>9. CASE j # 0 /\ m # 0 /\ ~At(t, n - j, from)
    <3>1. j \in 1 .. n /\ j - 1 \in 0 .. n /\ j - 1 < j /\ n - j + 1 \in 1 .. n
      BY <1>1, <2>2, <2>9
    <3> DEFINE v == w[j - 1][m]
               c == <<t[n - j + 1]>>
    <3>2. w[j][m] = c \o v
      BY <2>9, <3>1, WantedStays
    <3>3. Len(v) >= j - 1 /\ v \in Seq(S)
      BY <2>4, <2>5, <3>1
    <3>4. c \in Seq(S) /\ Len(c) = 1
      BY <3>1, ElementOfSeq
    <3> HIDE DEF v, c
    <3>5. Len(c \o v) = 1 + Len(v) /\ Len(v) \in Nat
      BY <3>3, <3>4, ConcatProperties, LenProperties, ZenonT(60)
    <3> QED BY <1>1, <2>2, <2>3, <3>2, <3>3, <3>5
  <2> QED BY <2>6, <2>7, <2>8, <2>9
<1>3. ASSUME NEW j \in 0 .. n, NEW m \in 0 .. n PROVE Len(w[j][m]) >= j
  <2>1. j \in Nat /\ j \notin Bad
    <3> HIDE DEF Bad
    <3> QED BY <1>1, <1>2
  <2> QED BY <2>1
<1> QED BY <1>3

\* The states of the replacing loop, and the one it begins in.
ReplaceStates(S) == [text : Seq(S), pos : Nat, n : Nat, ends : {"", "inside", "outside"}]

FirstTurn(t) == [text |-> t, pos |-> 0, n |-> 0, ends |-> ""]

\* A turn of the replacing loop leaves a state of the loop.
LEMMA ReplaceTurnIs ==
    ASSUME NEW S, NEW from \in Seq(S), NEW to \in Seq(S), NEW room, NEW s \in ReplaceStates(S)
    PROVE  ReplaceTurn(s, from, to, room) \in ReplaceStates(S)
<1> DEFINE x == s.text
           p == s.pos
           c == s.n
<1>1. x \in Seq(S) /\ p \in Nat /\ c \in Nat
  BY DEF ReplaceStates
<1> HIDE DEF x, p, c
<1>2. Len(x) \in Nat /\ Len(from) \in Nat /\ Len(to) \in Nat
  BY <1>1, LenProperties
<1>3. /\ [s EXCEPT !.ends = "outside"] \in ReplaceStates(S)
      /\ [s EXCEPT !.ends = "inside"] \in ReplaceStates(S)
  BY DEF ReplaceStates
<1>4. [s EXCEPT !.pos = p + 1] \in ReplaceStates(S)
  <2>1. p + 1 \in Nat
    BY <1>1
  <2> QED BY <2>1 DEF ReplaceStates
<1>5. ASSUME At(x, p, from)
      PROVE  Replaced(x, p, from, to) \in Seq(S)
  <2>1. p + Len(from) <= Len(x)
    BY <1>5 DEF At
  <2> DEFINE a == SubSeq(x, 1, p)
             b == SubSeq(x, p + Len(from) + 1, Len(x))
  <2>2. a \in Seq(S)
    <3>1. p <= Len(x)
      BY <1>1, <1>2, <2>1
    <3> QED BY <1>1, <3>1, Beginning
  <2>3. b \in Seq(S)
    <3> DEFINE m == p + Len(from) + 1
    <3>1. m \in Nat \ {0} /\ m <= Len(x) + 1 /\ Len(x) <= Len(x)
      BY <1>1, <1>2, <2>1
    <3> HIDE DEF m
    <3>2. SubSeq(x, m, Len(x)) \in Seq(S)
      BY <1>1, <1>2, <3>1, Part
    <3> QED BY <3>2 DEF m
  <2>4. Replaced(x, p, from, to) = a \o to \o b
    BY DEF Replaced
  <2> HIDE DEF a, b
  <2> QED BY <2>2, <2>3, <2>4, ConcatProperties
<1>6. ASSUME At(x, p, from)
      PROVE  [text |-> Replaced(x, p, from, to),
              pos |-> p + Len(to), n |-> c + 1, ends |-> ""] \in ReplaceStates(S)
  <2>1. p + Len(to) \in Nat /\ c + 1 \in Nat
    BY <1>1, <1>2
  <2> QED BY <1>5, <1>6, <2>1 DEF ReplaceStates
<1> QED BY <1>3, <1>4, <1>6 DEF ReplaceTurn, x, p, c

\* The turns string_replace makes.
TurnsBy(t, from, to, room, r) ==
    /\ r[0] = FirstTurn(t)
    /\ \A k \in 1 .. Len(t) + 1 : r[k] = ReplaceTurn(r[k - 1], from, to, room)

\* ReplaceLoop is the last of such turns.
LEMMA ReplaceTurns ==
    ASSUME NEW S, NEW t \in Seq(S), NEW from \in Seq(S), NEW to \in Seq(S), NEW room
    PROVE  \E r : TurnsBy(t, from, to, room, r) /\ ReplaceLoop(t, from, to, room) = r[Len(t) + 1]
<1> DEFINE n == Len(t) + 1
           R == ReplaceStates(S)
           step == [s \in R |-> ReplaceTurn(s, from, to, room)]
           value(g, k) == IF k = 0 THEN FirstTurn(t) ELSE ReplaceTurn(g[k - 1], from, to, room)
           All(g) == g = [k \in 0 .. Len(t) + 1 |->
                            IF k = 0 THEN [text |-> t, pos |-> 0, n |-> 0, ends |-> ""]
                            ELSE ReplaceTurn(g[k - 1], from, to, room)]
           r == CHOOSE g : All(g)
<1>1. n \in Nat
  BY LenProperties
<1>2. FirstTurn(t) \in R
  BY DEF FirstTurn, ReplaceStates
<1>3. step \in [R -> R]
  BY ReplaceTurnIs
<1>4. \A s \in R : step[s] = ReplaceTurn(s, from, to, room)
  OBVIOUS
<1>5. PICK f \in [0 .. n -> R] : f[0] = FirstTurn(t) /\ \A i \in 1 .. n : f[i] = step[f[i - 1]]
  <2> DEFINE a == FirstTurn(t)
  <2>1. a \in R
    BY <1>2
  <2> HIDE DEF R, step, n, a
  <2>2. \E f \in [0 .. n -> R] : Looped(f, a, step, n)
    BY <1>1, <1>3, <2>1, TurnsFollow, Zenon
  <2> QED BY <2>2 DEF Looped, a
<1>6. ASSUME NEW k \in 0 .. n PROVE f[k] = value(f, k)
  <2>1. CASE k = 0
    BY <1>5, <2>1
  <2>2. CASE k # 0
    <3>1. k \in 1 .. n /\ k - 1 \in 0 .. n
      BY <1>1, <2>2
    <3>2. f[k - 1] \in R
      BY <1>5, <3>1
    <3> HIDE DEF step, R
    <3> QED BY <1>4, <1>5, <2>2, <3>1, <3>2
  <2> QED BY <2>1, <2>2
<1>7. f = [k \in 0 .. n |-> value(f, k)]
  <2> HIDE DEF value, R
  <2> QED BY <1>5, <1>6
<1>8. All(f)
  BY <1>7, Zenon DEF FirstTurn
<1>9. All(r)
  BY <1>8, Zenon
<1>10. ReplaceLoop(t, from, to, room) = r[Len(t) + 1]
  BY Zenon DEF ReplaceLoop
<1> HIDE DEF r
<1>11. \A k \in 0 .. n : r[k] = value(r, k)
  BY <1>9, Zenon DEF FirstTurn
<1>12. TurnsBy(t, from, to, room, r)
  <2>1. r[0] = FirstTurn(t)
    BY <1>1, <1>11
  <2>2. \A k \in 1 .. n : k \in 0 .. n /\ k # 0
    BY <1>1
  <2>3. \A k \in 1 .. n : r[k] = ReplaceTurn(r[k - 1], from, to, room)
    <3> HIDE DEF n
    <3> QED BY <1>11, <2>2
  <2> QED BY <2>1, <2>3 DEF TurnsBy
<1> QED BY <1>10, <1>12

\* Where the loop stands after some turns: out is done, the last j characters of the text
\* are still to be looked at, and what should come of the whole is out and what should
\* come of those.
Halfway(S, t, from, to, room, w, s, out, j) ==
    LET n == Len(t)
        size == Len(out) + j
    IN  /\ out \in Seq(S) /\ j \in 0 .. n
        /\ s.text = out \o Rest(t, j) /\ s.pos = Len(out)
        /\ s.n \in 0 .. n /\ s.n + j <= n
        /\ \A m \in 0 .. n : s.n <= m => w[n][m] = out \o w[j][m - s.n]
        /\ s.ends \in {"", "inside", "outside"}
        /\ s.ends = "outside" => size < Len(from)
        /\ s.ends = "inside" =>
              /\ Len(from) <= size
              /\ \/ j < Len(from)
                 \/ /\ At(t, n - j, from) /\ Len(to) > Len(from)
                    /\ size + Len(to) - Len(from) > room

\* A state of the replacing loop, by its fields.
State(x, p, c, e) == [text |-> x, pos |-> p, n |-> c, ends |-> e]

\* One turn more leaves less of the text behind pos, or is the end.
GoesOn(S, t, from, to, room, w, x, p, c, e, j) ==
    \E o, i :
        /\ Halfway(S, t, from, to, room, w, ReplaceTurn(State(x, p, c, e), from, to, room), o, i)
        /\ ReplaceTurn(State(x, p, c, e), from, to, room).ends = "" => i < j /\ e = ""

\* Halfway, after one turn more.
LEMMA HalfwayTurn ==
    ASSUME NEW S, NEW t \in Seq(S), NEW from \in Seq(S), NEW to \in Seq(S), from # <<>>,
           NEW room \in Int, NEW w, WantedBy(S, t, from, to, w),
           NEW x, NEW p, NEW c, NEW e, NEW out, NEW j,
           Halfway(S, t, from, to, room, w, State(x, p, c, e), out, j)
    PROVE  GoesOn(S, t, from, to, room, w, x, p, c, e, j)
<1> SUFFICES \E o, i :
              /\ Halfway(S, t, from, to, room, w, ReplaceTurn(State(x, p, c, e), from, to, room), o, i)
              /\ ReplaceTurn(State(x, p, c, e), from, to, room).ends = "" => i < j /\ e = ""
  BY DEF GoesOn
<1> DEFINE n == Len(t)
           size == Len(out) + j
           next == ReplaceTurn(State(x, p, c, e), from, to, room)
           Half(s, o, i) == Halfway(S, t, from, to, room, w, s, o, i)
           Stop(f) == f = "inside" =>
              /\ Len(from) <= size
              /\ \/ j < Len(from)
                 \/ /\ At(t, n - j, from) /\ Len(to) > Len(from)
                    /\ size + Len(to) - Len(from) > room
           Before(k, i, o) == \A m \in 0 .. n : k <= m => w[n][m] = o \o w[i][m - k]
<1>1. out \in Seq(S) /\ j \in 0 .. n /\ p = Len(out) /\ c \in 0 .. n /\ c + j <= n
  BY DEF Halfway, State
<1>0. x = out \o Rest(t, j) /\ e \in {"", "inside", "outside"}
  BY DEF Halfway, State
<1>2. Before(c, j, out) /\ Stop(e) /\ (e = "outside" => size < Len(from))
  BY DEF Halfway, State
<1>3. n \in Nat /\ Len(out) \in Nat /\ j \in Nat /\ Len(to) \in Nat /\ size \in Nat
  <2>1. Len(out) \in Nat /\ n \in Nat /\ Len(to) \in Nat
    BY <1>1, LenProperties
  <2> QED BY <1>1, <2>1
<1>4. Len(from) \in Nat \ {0}
  BY EmptySeq
<1>5. Len(x) = size /\ (At(x, p, from) <=> At(t, n - j, from))
  BY <1>0, <1>1, AtBehind
<1> HIDE DEF size, Before, Stop, n
<1>6. ASSUME e # "" PROVE next = State(x, p, c, e)
  BY <1>6 DEF ReplaceTurn, State
<1>7. CASE e = "" /\ size < Len(from)
  <2>1. next = State(x, p, c, "outside")
    BY <1>5, <1>7 DEF ReplaceTurn, State
  <2>2. Half(State(x, p, c, "outside"), out, j)
    BY <1>0, <1>1, <1>2, <1>7 DEF Halfway, State, Before, Stop, size, n
  <2>3. next.ends = "outside"
    BY <2>1 DEF State
  <2> QED BY <2>1, <2>2, <2>3
<1>8. CASE e = "" /\ ~(size < Len(from)) /\ p > size - Len(from)
  <2>1. next = State(x, p, c, "inside")
    BY <1>5, <1>8 DEF ReplaceTurn, State
  <2>2. Stop("inside")
    <3>1. p > size - Len(from) /\ ~(size < Len(from))
      BY <1>8
    <3>2. j < Len(from) /\ Len(from) <= size
      BY <1>1, <1>3, <1>4, <3>1 DEF size
    <3> QED BY <3>2 DEF Stop
  <2>3. Half(State(x, p, c, "inside"), out, j)
    BY <1>0, <1>1, <1>2, <1>8, <2>2 DEF Halfway, State, Before, Stop, size, n
  <2>4. next.ends = "inside"
    BY <2>1 DEF State
  <2> QED BY <2>1, <2>3, <2>4
<1>9. ASSUME ~(size < Len(from)), ~(p > size - Len(from)) PROVE Len(from) <= j /\ j >= 1
  BY <1>1, <1>3, <1>4, <1>9 DEF size
<1>10. CASE /\ e = "" /\ ~(size < Len(from)) /\ ~(p > size - Len(from))
            /\ ~At(x, p, from)
  <2> DEFINE d == t[n - j + 1]
             o == out \o <<d>>
  <2>1. next = State(x, p + 1, c, "")
    BY <1>5, <1>10 DEF ReplaceTurn, State
  <2>2. /\ Len(from) <= j /\ j \in 1 .. n /\ j - 1 \in 0 .. n /\ j # 0 /\ j - 1 < j
        /\ c + (j - 1) <= n
    <3>1. Len(from) <= j /\ j >= 1
      BY <1>9, <1>10
    <3> QED BY <1>1, <1>3, <3>1
  <2>3. d \in S /\ Rest(t, j) = <<d>> \o Rest(t, j - 1) /\ Rest(t, j - 1) \in Seq(S)
    BY <1>1, <2>2, RestIs, ZenonT(60) DEF n
  <2> HIDE DEF d
  <2>4. <<d>> \in Seq(S) /\ o \in Seq(S) /\ Len(o) = Len(out) + 1
    <3>1. <<d>> \in Seq(S) /\ Len(<<d>>) = 1
      BY <2>3
    <3> QED BY <1>1, <3>1, ConcatProperties
  <2>5. x = o \o Rest(t, j - 1)
    <3>1. out \in Seq(S) /\ x = out \o (<<d>> \o Rest(t, j - 1))
      BY <1>0, <1>1, <2>3
    <3> DEFINE v == Rest(t, j - 1)
               u == <<d>>
    <3>2. u \in Seq(S) /\ v \in Seq(S)
      BY <2>3, <2>4
    <3> HIDE DEF u, v
    <3>3. Regroups(out, u, v)
      BY <3>1, <3>2, Regroup
    <3>4. x = (out \o u) \o v
      BY <3>1, <3>3, Zenon DEF Regroups, u, v
    <3> QED BY <3>4, Zenon DEF u, v
  <2>6. Before(c, j - 1, o)
    <3> SUFFICES ASSUME NEW m \in 0 .. n, c <= m PROVE w[n][m] = o \o w[j - 1][m - c]
      BY DEF Before
    <3>1. m - c \in 0 .. n
      BY <1>1, <1>3
    <3>2. w[n][m] = out \o w[j][m - c]
      BY <1>2 DEF Before
    <3>3. w[j][m - c] = <<d>> \o w[j - 1][m - c]
      <4>1. ~At(t, n - j, from)
        BY <1>5, <1>10
      <4> DEFINE q == m - c
      <4>2. q \in 0 .. Len(t) /\ j \in 1 .. Len(t) /\ ~At(t, Len(t) - j, from)
        BY <2>2, <3>1, <4>1 DEF n
      <4> HIDE DEF q
      <4>3. w[j][q] = <<t[Len(t) - j + 1]>> \o w[j - 1][q]
        BY <4>2, WantedStays
      <4> QED BY <4>3 DEF n, d, q
    <3>4. w[j - 1][m - c] \in Seq(S)
      <4>1. w \in [0 .. n -> [0 .. n -> Seq(S)]]
        BY Zenon DEF WantedBy, n
      <4> QED BY <2>2, <3>1, <4>1
    <3> DEFINE v == w[j - 1][m - c]
               u == <<d>>
    <3>5. w[n][m] = out \o (u \o v) /\ v \in Seq(S) /\ out \in Seq(S)
      BY <1>1, <3>2, <3>3, <3>4
    <3>6. u \in Seq(S)
      BY <2>4
    <3> HIDE DEF u, v
    <3>7. Regroups(out, u, v)
      BY <3>5, <3>6, Regroup
    <3>8. w[n][m] = (out \o u) \o v
      BY <3>5, <3>7, Zenon DEF Regroups
    <3> QED BY <3>8, Zenon DEF u, v
  <2>7. Half(State(x, p + 1, c, ""), o, j - 1)
    <3> HIDE DEF o
    <3> QED BY <1>0, <1>1, <2>2, <2>4, <2>5, <2>6 DEF Halfway, State, Before, n
  <2> QED BY <1>10, <2>1, <2>2, <2>7
<1>11. CASE /\ e = "" /\ ~(size < Len(from)) /\ ~(p > size - Len(from)) /\ At(x, p, from)
            /\ Len(to) > Len(from) /\ size + Len(to) - Len(from) > room
  <2>1. next = State(x, p, c, "inside")
    BY <1>5, <1>11 DEF ReplaceTurn, State
  <2>2. Stop("inside")
    <3>1. ~(size < Len(from)) /\ At(t, n - j, from) /\ Len(to) > Len(from)
          /\ size + Len(to) - Len(from) > room
      BY <1>5, <1>11
    <3>2. Len(from) <= size
      BY <1>3, <1>4, <3>1
    <3> QED BY <3>1, <3>2 DEF Stop
  <2>3. Half(State(x, p, c, "inside"), out, j)
    BY <1>0, <1>1, <1>2, <1>11, <2>2 DEF Halfway, State, Before, Stop, size, n
  <2>4. next.ends = "inside"
    BY <2>1 DEF State
  <2> QED BY <2>1, <2>3, <2>4
<1>12. CASE /\ e = "" /\ ~(size < Len(from)) /\ ~(p > size - Len(from)) /\ At(x, p, from)
            /\ ~(Len(to) > Len(from) /\ size + Len(to) - Len(from) > room)
  <2> DEFINE y == Replaced(x, p, from, to)
             i == j - Len(from)
             o == out \o to
  <2>1. next = State(y, p + Len(to), c + 1, "")
    BY <1>5, <1>12 DEF ReplaceTurn, State
  <2>2. /\ Len(from) <= j /\ j \in 1 .. n /\ i \in 0 .. n /\ i < j /\ c + 1 \in 0 .. n
        /\ c + 1 + i <= n
    <3>1. Len(from) <= j /\ j >= 1
      BY <1>9, <1>12
    <3> QED BY <1>1, <1>3, <1>4, <3>1
  <2>3. y = o \o Rest(t, i)
    <3>1. out \in Seq(S) /\ j \in 0 .. Len(t) /\ Len(from) <= j
      BY <1>1, <2>2 DEF n
    <3>2. TakesOut(out \o Rest(t, j), Len(out), from, to, (out \o to) \o Rest(t, j - Len(from)))
      BY <3>1, ReplacedIs
    <3>3. Replaced(out \o Rest(t, j), Len(out), from, to) = (out \o to) \o Rest(t, j - Len(from))
      BY <3>2, Zenon DEF TakesOut
    <3> QED BY <1>0, <1>1, <3>3, Zenon
  <2>4. o \in Seq(S) /\ Len(o) = Len(out) + Len(to)
    BY <1>1, ConcatProperties
  <2>5. Before(c + 1, i, o)
    <3> SUFFICES ASSUME NEW m \in 0 .. n, c + 1 <= m PROVE w[n][m] = o \o w[i][m - (c + 1)]
      BY DEF Before
    <3>1. c <= m /\ m - c \in 1 .. n /\ m - (c + 1) \in 0 .. n /\ m - (c + 1) = m - c - 1
      BY <1>1, <1>3
    <3>2. w[n][m] = out \o w[j][m - c]
      BY <1>2, <3>1 DEF Before
    <3>3. w[j][m - c] = to \o w[i][m - c - 1]
      BY <1>5, <1>12, <2>2, <3>1, Zenon DEF WantedBy, n
    <3>4. w[i][m - (c + 1)] \in Seq(S)
      <4>1. w \in [0 .. n -> [0 .. n -> Seq(S)]]
        BY Zenon DEF WantedBy, n
      <4> QED BY <2>2, <3>1, <4>1
    <3> DEFINE v == w[i][m - (c + 1)]
    <3>5. w[n][m] = out \o (to \o v) /\ v \in Seq(S) /\ out \in Seq(S)
      BY <1>1, <3>1, <3>2, <3>3, <3>4
    <3> HIDE DEF v
    <3>6. Regroups(out, to, v)
      BY <3>5, Regroup
    <3>7. w[n][m] = (out \o to) \o v
      BY <3>5, <3>6, Zenon DEF Regroups
    <3> QED BY <3>7, Zenon DEF v
  <2>6. Half(State(y, p + Len(to), c + 1, ""), o, i)
    <3> HIDE DEF o, i, y
    <3> QED BY <1>0, <1>1, <2>2, <2>3, <2>4, <2>5 DEF Halfway, State, Before, n
  <2> HIDE DEF i, o, y
  <2> QED BY <1>12, <2>1, <2>2, <2>6
<1>13. CASE e # ""
  <2>1. next = State(x, p, c, e)
    BY <1>6, <1>13
  <2>2. next.ends # ""
    <3> HIDE DEF next
    <3> QED BY <1>13, <2>1 DEF State
  <2>3. Half(next, out, j)
    BY <2>1
  <2> QED BY <1>13, <2>2, <2>3
<1> QED BY <1>0, <1>7, <1>8, <1>10, <1>11, <1>12, <1>13

\* Nothing in front of a sequence.
LEMMA EmptyJoin ==
    ASSUME NEW S, NEW a \in Seq(S)
    PROVE  <<>> \o a = a
BY ConcatEmptySeq

\* Halfway before the first turn: nothing is done and all of the text is left.
LEMMA HalfwayFirst ==
    ASSUME NEW S, NEW t \in Seq(S), NEW from \in Seq(S), NEW to \in Seq(S), NEW room, NEW w,
           WantedBy(S, t, from, to, w)
    PROVE  Halfway(S, t, from, to, room, w, FirstTurn(t), <<>>, Len(t))
<1> DEFINE n == Len(t)
           s == FirstTurn(t)
           none == <<>>
<1>1. n \in Nat /\ n \in 0 .. n /\ 0 \in 0 .. n /\ 0 + n <= n
  BY LenProperties
<1>2. none \in Seq(S) /\ Len(none) = 0
  OBVIOUS
<1>3. Rest(t, n) = t
  BY <1>1, RestIs, ZenonT(60)
<1>4. none \o t = t
  BY EmptyJoin
<1>5. s.text = t /\ s.pos = 0 /\ s.n = 0 /\ s.ends = ""
  BY DEF FirstTurn
<1> HIDE DEF s, none
<1>6. ASSUME NEW m \in 0 .. n PROVE w[n][m] = none \o w[n][m - 0]
  <2>1. m - 0 = m
    BY <1>1
  <2>2. w \in [0 .. n -> [0 .. n -> Seq(S)]]
    BY Zenon DEF WantedBy
  <2>3. w[n][m] \in Seq(S)
    <3> HIDE DEF n
    <3> QED BY <1>1, <2>2
  <2> DEFINE a == w[n][m]
  <2>4. none \o a = a
    <3> HIDE DEF a
    <3>1. a \in Seq(S)
      BY <2>3 DEF a
    <3> QED BY <3>1, EmptyJoin DEF none
  <2> QED BY <2>1, <2>4
<1>7. s.text = none \o Rest(t, n)
  BY <1>3, <1>4, <1>5
<1>8. Halfway(S, t, from, to, room, w, s, none, n)
  <2>1. \A m \in 0 .. n : s.n <= m => w[n][m] = none \o w[n][m - s.n]
    BY <1>5, <1>6, Zenon
  <2> QED BY <1>1, <1>2, <1>5, <1>7, <2>1, Zenon DEF Halfway
<1> QED BY <1>8 DEF s, none

\* A loop that has ended: what is in the buffer is the text with as many replacements as
\* were counted, with all of them where the room was enough, and it has left the buffer
\* exactly when less is there than what it looks for.
ReplaceEnded(S, t, from, room, w, s) ==
    /\ s.text \in Seq(S) /\ s.n \in 0 .. Len(t)
    /\ w[Len(t)][s.n] = s.text
    /\ Len(w[Len(t)][Len(t)]) <= room => w[Len(t)][Len(t)] = s.text
    /\ s.ends \in {"inside", "outside"}
    /\ s.ends = "outside" <=> Len(s.text) < Len(from)

Ended(s) == s.ends # ""

\* Halfway where the loop has ended, as ReplaceEnded says.
LEMMA HalfwayEnds ==
    ASSUME NEW S, NEW t \in Seq(S), NEW from \in Seq(S), NEW to \in Seq(S), from # <<>>,
           NEW room \in Int, NEW w, WantedBy(S, t, from, to, w), NEW s, NEW out, NEW j,
           Halfway(S, t, from, to, room, w, s, out, j), Ended(s)
    PROVE  ReplaceEnded(S, t, from, room, w, s)
<1> DEFINE n == Len(t)
           c == s.n
           size == Len(out) + j
           done == n - c
<1>1. out \in Seq(S) /\ j \in 0 .. n /\ c \in 0 .. n /\ c + j <= n
  BY DEF Halfway
<1>2. s.text = out \o Rest(t, j) /\ s.ends \in {"inside", "outside"}
  BY DEF Halfway, Ended
<1>3. \A m \in 0 .. n : c <= m => w[n][m] = out \o w[j][m - c]
  BY DEF Halfway
<1>4. /\ s.ends = "outside" => size < Len(from)
      /\ s.ends = "inside" =>
              /\ Len(from) <= size
              /\ \/ j < Len(from)
                 \/ /\ At(t, n - j, from) /\ Len(to) > Len(from)
                    /\ size + Len(to) - Len(from) > room
  BY DEF Halfway
<1>5. n \in Nat /\ Len(out) \in Nat /\ Len(to) \in Nat /\ Len(from) \in Nat \ {0}
  BY <1>1, LenProperties, EmptySeq
<1>6. Rest(t, j) \in Seq(S) /\ Len(Rest(t, j)) = j
  BY <1>1, RestIs, ZenonT(60)
<1>7. s.text \in Seq(S) /\ Len(s.text) = size
  <2> DEFINE x == Rest(t, j)
  <2>1. x \in Seq(S) /\ Len(x) = j /\ s.text = out \o x
    BY <1>2, <1>6
  <2> HIDE DEF x
  <2>2. out \o x \in Seq(S) /\ Len(out \o x) = Len(out) + Len(x)
    BY <1>1, <2>1, ConcatProperties
  <2> QED BY <2>1, <2>2
<1>8. w \in [0 .. n -> [0 .. n -> Seq(S)]]
  BY Zenon DEF WantedBy
<1>0. j \in Nat /\ c \in Nat /\ j <= n /\ c <= n /\ c + j <= n
  BY <1>1, <1>5
<1> HIDE DEF c, n
<1>9. w[n][c] = s.text
  <2>1. c <= c /\ c - c = 0
    BY <1>0
  <2>2. w[n][c] = out \o w[j][c - c]
    BY <1>1, <1>3, <2>1
  <2>3. w[j][0] = Rest(t, j)
    BY <1>1, Zenon DEF WantedBy, n
  <2> QED BY <1>2, <2>1, <2>2, <2>3, Zenon
<1>10. n \in 0 .. n /\ done \in 0 .. n /\ c <= n
  BY <1>0, <1>5
<1>11. w[n][n] = out \o w[j][done]
  BY <1>3, <1>10
<1>12. w[j][done] \in Seq(S)
  BY <1>1, <1>8, <1>10
<1>13. ASSUME j < Len(from) PROVE w[n][n] = s.text
  <2>1. w[j][done] = Rest(t, j)
    <3> HIDE DEF done
    <3> QED BY <1>1, <1>10, <1>13, WantedShort DEF n
  <2> QED BY <1>2, <1>11, <2>1, Zenon
<1>14. ASSUME At(t, n - j, from), Len(to) > Len(from), size + Len(to) - Len(from) > room
       PROVE  ~(Len(w[n][n]) <= room)
  <2>1. n - j + Len(from) <= n
    BY <1>14 DEF At, n
  <2>2. j \in 1 .. n /\ done \in 1 .. n /\ j - Len(from) \in 0 .. n /\ done - 1 \in 0 .. n
    BY <1>0, <1>5, <2>1
  <2> DEFINE v == w[j - Len(from)][done - 1]
  <2>3. w[j][done] = to \o v
    BY <1>14, <2>2, Zenon DEF WantedBy, n
  <2>4. v \in Seq(S)
    BY <1>8, <2>2
  <2>5. Len(v) >= j - Len(from)
    <3> DEFINE i == j - Len(from)
               m == done - 1
    <3>1. i \in 0 .. n /\ m \in 0 .. n /\ Len(to) >= Len(from)
      <4>1. Len(to) > Len(from)
        BY <1>14
      <4>2. Len(to) >= Len(from)
        BY <1>5, <4>1
      <4> QED BY <2>2, <4>2
    <3> HIDE DEF i, m, done
    <3>2. Len(w[i][m]) >= i
      BY <3>1, WantedLong DEF n
    <3> QED BY <3>2 DEF i, m
  <2> HIDE DEF v, done
  <2>6. to \o v \in Seq(S) /\ Len(to \o v) = Len(to) + Len(v) /\ Len(v) \in Nat
    BY <2>4, ConcatProperties, LenProperties
  <2> DEFINE u == to \o v
  <2>7. u \in Seq(S)
    BY <2>6
  <2>8. Len(u) = Len(to) + Len(v)
    BY <2>6
  <2> HIDE DEF u
  <2>9. Len(out \o u) = Len(out) + Len(u)
    BY <1>1, <2>7, ConcatProperties
  <2>10. w[n][n] = out \o u
    BY <1>11, <2>3, Zenon DEF u
  <2>11. Len(w[n][n]) = Len(out) + (Len(to) + Len(v))
    BY <2>8, <2>9, <2>10, Zenon
  <2>12. size + Len(to) - Len(from) > room
    BY <1>14
  <2>13. Len(v) \in Nat
    BY <2>6
  <2> QED BY <1>0, <1>5, <2>5, <2>11, <2>12, <2>13
<1>15. Len(w[n][n]) <= room => w[n][n] = s.text
  <2>1. size < Len(from) => j < Len(from)
    BY <1>0, <1>5
  <2> QED BY <1>2, <1>4, <1>13, <1>14, <2>1
<1>16. s.ends = "outside" <=> Len(s.text) < Len(from)
  <2>1. Len(from) <= size => ~(size < Len(from))
    BY <1>0, <1>5
  <2> HIDE DEF size
  <2> QED BY <1>2, <1>4, <1>7, <2>1
<1>17. c \in 0 .. n
  BY <1>1
<1> QED BY <1>2, <1>7, <1>9, <1>15, <1>16, <1>17, Zenon DEF ReplaceEnded, c, n

\* A whole run of the loop.
LEMMA ReplaceEnds ==
    ASSUME NEW S, NEW t \in Seq(S), NEW from \in Seq(S), NEW to \in Seq(S), from # <<>>,
           NEW room \in Int, NEW w, WantedBy(S, t, from, to, w)
    PROVE  ReplaceEnded(S, t, from, room, w, ReplaceLoop(t, from, to, room))
<1> DEFINE n == Len(t)
           Half(s, o, i) == Halfway(S, t, from, to, room, w, s, o, i)
<1>1. n \in Nat /\ n + 1 \in Nat
  BY LenProperties
<1>2. \E r : TurnsBy(t, from, to, room, r) /\ ReplaceLoop(t, from, to, room) = r[n + 1]
  BY ReplaceTurns
<1>3. PICK r : TurnsBy(t, from, to, room, r) /\ ReplaceLoop(t, from, to, room) = r[n + 1]
  BY <1>2
<1> DEFINE R == ReplaceStates(S)
           Placed(k, o, i) == Half(r[k], o, i) /\ (~Ended(r[k]) => i + k <= n)
           Good == {k \in Nat : r[k] \in R /\ \E o, i : Placed(k, o, i)}
<1>4. 0 \in Good
  <2> DEFINE s == r[0]
  <2>1. s = FirstTurn(t)
    BY <1>3 DEF TurnsBy
  <2>2. s \in R
    <3>1. FirstTurn(t) \in R
      BY DEF FirstTurn, ReplaceStates
    <3> QED BY <2>1, <3>1
  <2>3. Half(s, <<>>, n)
    BY <2>1, HalfwayFirst
  <2>4. n + 0 <= n
    BY <1>1
  <2>5. Placed(0, <<>>, n)
    <3> HIDE DEF n, Half, s
    <3> QED BY <2>3, <2>4 DEF s
  <2> HIDE DEF n, Half, R, Placed
  <2>6. \E o, i : Placed(0, o, i)
    BY <2>5
  <2> QED BY <2>2, <2>6
<1>5. ASSUME NEW k \in 1 .. n + 1, k - 1 \in Good PROVE k \in Good
  <2> DEFINE s == r[k - 1]
             next == r[k]
             x == s.text
             p == s.pos
             c == s.n
             e == s.ends
  <2>1. s \in R /\ \E o, i : Placed(k - 1, o, i)
    BY <1>5
  <2>2. PICK o, i : Placed(k - 1, o, i)
    BY <2>1
  <2>3. next = ReplaceTurn(s, from, to, room)
    BY <1>3 DEF TurnsBy
  <2> HIDE DEF s, next
  <2>4. s = State(x, p, c, e)
    BY <2>1 DEF State, ReplaceStates
  <2>5. next \in R
    BY <2>1, <2>3, ReplaceTurnIs
  <2>6. Half(s, o, i) /\ (e = "" => i + (k - 1) <= n)
    BY <2>2 DEF s, Ended
  <2>7. \E b, h : /\ Half(next, b, h)
                  /\ next.ends = "" => h < i /\ e = ""
    <3> HIDE DEF x, p, c, e
    <3>1. Halfway(S, t, from, to, room, w, State(x, p, c, e), o, i)
      BY <2>4, <2>6
    <3>2. GoesOn(S, t, from, to, room, w, x, p, c, e, i)
      BY <3>1, HalfwayTurn
    <3> QED BY <2>3, <2>4, <3>2, Zenon DEF GoesOn
  <2>8. PICK b, h : Half(next, b, h) /\ (next.ends = "" => h < i /\ e = "")
    BY <2>7, Zenon
  <2>9. i \in 0 .. n /\ h \in 0 .. n /\ k \in Nat
    <3>1. i \in 0 .. n
      BY <2>6 DEF Halfway
    <3>2. h \in 0 .. n
      BY <2>8 DEF Halfway
    <3>3. k \in Nat
      BY <1>1
    <3> QED BY <3>1, <3>2, <3>3
  <2>10. ASSUME ~Ended(next) PROVE h + k <= n
    <3>1. h < i /\ i + (k - 1) <= n
      BY <2>6, <2>8, <2>10 DEF Ended
    <3> HIDE DEF e
    <3> QED BY <1>1, <2>9, <3>1
  <2>11. Placed(k, b, h)
    BY <2>8, <2>10, Zenon DEF next
  <2> HIDE DEF Placed, R
  <2>12. \E b1, h1 : Placed(k, b1, h1)
    BY <2>11
  <2> QED BY <2>5, <2>9, <2>12 DEF next
<1> HIDE DEF Good
<1>6. \A k \in 0 .. n + 1 : k \in Good
  <2> DEFINE m == n + 1
  <2>1. \A k \in 1 .. m : k - 1 \in Good => k \in Good
    BY <1>5
  <2> HIDE DEF m
  <2> QED BY <1>1, <1>4, <2>1, Upward DEF m
<1>7. n + 1 \in Good
  BY <1>1, <1>6
<1> DEFINE s == r[n + 1]
<1>8. PICK o, i : Placed(n + 1, o, i)
  BY <1>7 DEF Good
<1>9. Ended(s)
  <2>1. i \in 0 .. n
    BY <1>8 DEF Halfway
  <2>2. ~(i + (n + 1) <= n)
    BY <1>1, <2>1
  <2> QED BY <1>8, <2>2
<1>10. Half(s, o, i)
  BY <1>8
<1> HIDE DEF s
<1>11. ReplaceEnded(S, t, from, room, w, s)
  BY <1>9, <1>10, HalfwayEnds
<1> QED BY <1>3, <1>11 DEF s

-----------------------------------------------------------------------------
(* The string: splitting. *)

\* The states of the splitting loop, and the one it begins in.
SplitStates(S) == [i : Nat, start : Nat, parts : Seq(Seq(S))]

FirstPart == [i |-> 0, start |-> 0, parts |-> <<>>]

\* A turn of the splitting loop leaves a state of the loop.
LEMMA SplitTurnIs ==
    ASSUME NEW S, NEW t \in Seq(S), NEW d \in Seq(S), NEW s \in SplitStates(S)
    PROVE  SplitTurn(s, t, d) \in SplitStates(S)
<1> DEFINE i == s.i
           start == s.start
           part == SubSeq(t, start + 1, i)
<1>1. i \in Nat /\ start \in Nat /\ s.parts \in Seq(Seq(S))
  BY DEF SplitStates
<1>2. Len(t) \in Nat /\ Len(d) \in Nat
  BY LenProperties
<1>3. ASSUME i <= Len(t), NEW next \in Nat PROVE PartEnds(s, t, next) \in SplitStates(S)
  <2>1. part \in Seq(S)
    <3> HIDE DEF i, start
    <3> DEFINE m == start + 1
    <3>1. CASE m <= i + 1
      <4>1. m \in Nat \ {0}
        BY <1>1
      <4> HIDE DEF m
      <4>2. SubSeq(t, m, i) \in Seq(S)
        BY <1>1, <1>3, <3>1, <4>1, Part
      <4> QED BY <4>2 DEF m
    <3>2. CASE ~(m <= i + 1)
      <4>1. m \in Int /\ i \in Int /\ i < m
        BY <1>1, <3>2
      <4> HIDE DEF m
      <4>2. SubSeq(t, m, i) = <<>>
        BY <4>1, SubSeqEmpty, Zenon
      <4>3. SubSeq(t, m, i) \in Seq(S)
        BY <4>2
      <4> QED BY <4>3 DEF m
    <3> QED BY <3>1, <3>2
  <2> HIDE DEF part
  <2>2. Append(s.parts, part) \in Seq(Seq(S))
    BY <1>1, <2>1, AppendProperties
  <2>3. PartEnds(s, t, next) = [i |-> next, start |-> next, parts |-> Append(s.parts, part)]
    BY DEF PartEnds, part
  <2> QED BY <1>3, <2>2, <2>3 DEF SplitStates
<1>4. [s EXCEPT !.i = i + 1] \in SplitStates(S)
  <2>1. i + 1 \in Nat
    BY <1>1
  <2> QED BY <2>1 DEF SplitStates
<1>5. i + Len(d) \in Nat /\ i + 1 \in Nat /\ (~(i > Len(t)) => i <= Len(t))
  BY <1>1, <1>2
<1>6. ~(i > Len(t)) => /\ PartEnds(s, t, i + Len(d)) \in SplitStates(S)
                       /\ PartEnds(s, t, i + 1) \in SplitStates(S)
  BY <1>3, <1>5
<1> QED BY <1>4, <1>6 DEF SplitTurn

\* The turns string_split_str makes.
SplitBy(t, d, r) ==
    /\ r[0] = FirstPart
    /\ \A k \in 1 .. Len(t) + 1 : r[k] = SplitTurn(r[k - 1], t, d)

\* PartsOf gives the parts of the last of such turns.
LEMMA SplitTurns ==
    ASSUME NEW S, NEW t \in Seq(S), NEW d \in Seq(S)
    PROVE  \E r : SplitBy(t, d, r) /\ PartsOf(t, d) = r[Len(t) + 1].parts
<1> DEFINE n == Len(t) + 1
           R == SplitStates(S)
           step == [s \in R |-> SplitTurn(s, t, d)]
           value(g, k) == IF k = 0 THEN FirstPart ELSE SplitTurn(g[k - 1], t, d)
           All(g) == g = [k \in 0 .. Len(t) + 1 |->
                            IF k = 0 THEN [i |-> 0, start |-> 0, parts |-> <<>>]
                            ELSE SplitTurn(g[k - 1], t, d)]
           r == CHOOSE g : All(g)
<1>1. n \in Nat
  BY LenProperties
<1>2. FirstPart \in R
  BY DEF FirstPart, SplitStates
<1>3. step \in [R -> R]
  BY SplitTurnIs
<1>4. \A s \in R : step[s] = SplitTurn(s, t, d)
  OBVIOUS
<1>5. PICK f \in [0 .. n -> R] : f[0] = FirstPart /\ \A i \in 1 .. n : f[i] = step[f[i - 1]]
  <2> DEFINE a == FirstPart
  <2>1. a \in R
    BY <1>2
  <2> HIDE DEF R, step, n, a
  <2>2. \E f \in [0 .. n -> R] : Looped(f, a, step, n)
    BY <1>1, <1>3, <2>1, TurnsFollow, Zenon
  <2> QED BY <2>2 DEF Looped, a
<1>6. ASSUME NEW k \in 0 .. n PROVE f[k] = value(f, k)
  <2>1. CASE k = 0
    BY <1>5, <2>1
  <2>2. CASE k # 0
    <3>1. k \in 1 .. n /\ k - 1 \in 0 .. n
      BY <1>1, <2>2
    <3>2. f[k - 1] \in R
      BY <1>5, <3>1
    <3> HIDE DEF step, R
    <3> QED BY <1>4, <1>5, <2>2, <3>1, <3>2
  <2> QED BY <2>1, <2>2
<1>7. f = [k \in 0 .. n |-> value(f, k)]
  <2> HIDE DEF value, R
  <2> QED BY <1>5, <1>6
<1>8. All(f)
  BY <1>7, Zenon DEF FirstPart
<1>9. All(r)
  BY <1>8, Zenon
<1>10. PartsOf(t, d) = r[Len(t) + 1].parts
  BY Zenon DEF PartsOf
<1> HIDE DEF r
<1>11. \A k \in 0 .. n : r[k] = value(r, k)
  BY <1>9, Zenon DEF FirstPart
<1>12. SplitBy(t, d, r)
  <2>1. r[0] = FirstPart
    BY <1>1, <1>11
  <2>2. \A k \in 1 .. n : k \in 0 .. n /\ k # 0
    BY <1>1
  <2>3. \A k \in 1 .. n : r[k] = SplitTurn(r[k - 1], t, d)
    <3> HIDE DEF n
    <3> QED BY <1>11, <2>2
  <2> QED BY <2>1, <2>3 DEF SplitBy
<1> QED BY <1>10, <1>12

\* A part of the text from a on: no delimiter begins in it, and the one behind it ends
\* at next.
PartIs(t, d, part, a, next) ==
    /\ a \in Nat /\ next \in Nat
    /\ a + Len(d) <= next /\ next - Len(d) <= Len(t)
    /\ part = SubSeq(t, a + 1, next - Len(d))
    /\ \A q \in Nat : a <= q /\ q + Len(d) < next => ~At(t, q, d)

\* The parts so far; cut[i] is where the i-th part begins.
Cuts(t, d, parts, cut) ==
    /\ cut \in [1 .. Len(parts) + 1 -> Nat] /\ cut[1] = 0
    /\ \A i \in 1 .. Len(parts) : PartIs(t, d, parts[i], cut[i], cut[i + 1])

\* A delimiter stands between each of the first m parts and the next.
Delimited(t, d, cut, m) == \A i \in 1 .. m : At(t, cut[i + 1] - Len(d), d)

\* The scan is at s.i.
Scanning(t, d, s, cut) ==
    LET m == Len(s.parts)
    IN  /\ Cuts(t, d, s.parts, cut) /\ Delimited(t, d, cut, m)
        /\ cut[m + 1] = s.start /\ s.start <= s.i /\ s.i <= Len(t)
        /\ \A q \in Nat : s.start <= q /\ q < s.i => ~At(t, q, d)

\* The scan is behind the last character.
Scanned(t, d, parts, cut) ==
    LET m == Len(parts)
    IN  /\ m \in Nat \ {0}
        /\ Cuts(t, d, parts, cut) /\ Delimited(t, d, cut, m - 1)
        /\ cut[m + 1] = Len(t) + Len(d)

\* One part more behind the others.
LEMMA CutsMore ==
    ASSUME NEW S, NEW t \in Seq(S), NEW d \in Seq(S), NEW parts \in Seq(Seq(S)), NEW cut,
           Cuts(t, d, parts, cut), NEW part \in Seq(S), NEW next \in Nat,
           PartIs(t, d, part, cut[Len(parts) + 1], next)
    PROVE  \E c : /\ Cuts(t, d, Append(parts, part), c)
                  /\ \A i \in 1 .. Len(parts) + 1 : c[i] = cut[i]
                  /\ c[Len(parts) + 2] = next
<1> DEFINE m == Len(parts)
           more == Append(parts, part)
           c == [i \in 1 .. m + 2 |-> IF i = m + 2 THEN next ELSE cut[i]]
<1>1. m \in Nat
  BY LenProperties
<1>2. /\ Len(more) = m + 1 /\ more[m + 1] = part
      /\ \A i \in 1 .. m : more[i] = parts[i]
  BY AppendProperties
<1>3. cut \in [1 .. m + 1 -> Nat] /\ cut[1] = 0
      /\ \A i \in 1 .. m : PartIs(t, d, parts[i], cut[i], cut[i + 1])
  BY DEF Cuts
<1> HIDE DEF m, more
<1>4. c \in [1 .. m + 2 -> Nat]
  <2> SUFFICES ASSUME NEW i \in 1 .. m + 2 PROVE (IF i = m + 2 THEN next ELSE cut[i]) \in Nat
    OBVIOUS
  <2>1. i # m + 2 => i \in 1 .. m + 1
    BY <1>1
  <2> QED BY <1>3, <2>1
<1>5. ASSUME NEW i \in 1 .. m + 1 PROVE c[i] = cut[i]
  <2>1. i \in 1 .. m + 2 /\ i # m + 2
    BY <1>1
  <2> QED BY <2>1
<1>6. c[m + 2] = next
  <2>1. m + 2 \in 1 .. m + 2
    BY <1>1
  <2> QED BY <2>1
<1> HIDE DEF c
<1>7. ASSUME NEW i \in 1 .. m + 1 PROVE PartIs(t, d, more[i], c[i], c[i + 1])
  <2>1. CASE i = m + 1
    <3>1. i + 1 = m + 2
      BY <1>1, <2>1
    <3>2. c[i] = cut[m + 1] /\ c[i + 1] = next /\ more[i] = part
      BY <1>2, <1>5, <1>6, <2>1, <3>1
    <3> QED BY <3>2, Zenon DEF m
  <2>2. CASE i # m + 1
    <3>1. i \in 1 .. m /\ i + 1 \in 1 .. m + 1
      BY <1>1, <2>2
    <3>2. c[i] = cut[i] /\ c[i + 1] = cut[i + 1] /\ more[i] = parts[i]
      BY <1>2, <1>5, <3>1
    <3> QED BY <1>3, <3>1, <3>2
  <2> QED BY <2>1, <2>2
<1>8. m + 1 + 1 = m + 2 /\ 1 \in 1 .. m + 1
  BY <1>1
<1>9. c \in [1 .. Len(more) + 1 -> Nat]
  BY <1>2, <1>4, <1>8
<1>10. Cuts(t, d, more, c)
  BY <1>2, <1>3, <1>5, <1>7, <1>8, <1>9 DEF Cuts
<1> QED BY <1>5, <1>6, <1>10 DEF m, more

\* What a turn makes of a scan.
ScansOn(t, d, s, next) ==
    \/ next.i > s.i /\ \E c : Scanning(t, d, next, c)
    \/ next.i > Len(t) /\ \E c : Scanned(t, d, next.parts, c)

\* One turn of the scan: it goes on behind where it was, or it is behind the last character.
LEMMA ScanTurn ==
    ASSUME NEW S, NEW t \in Seq(S), NEW d \in Seq(S), d # <<>>, NEW s \in SplitStates(S), NEW cut,
           Scanning(t, d, s, cut)
    PROVE  ScansOn(t, d, s, SplitTurn(s, t, d))
<1> DEFINE n == Len(t)
           i == s.i
           start == s.start
           parts == s.parts
           m == Len(parts)
           part == SubSeq(t, start + 1, i)
           more == Append(parts, part)
           next == SplitTurn(s, t, d)
<1>1. i \in Nat /\ start \in Nat /\ parts \in Seq(Seq(S))
  BY DEF SplitStates
<1>2. /\ Cuts(t, d, parts, cut) /\ Delimited(t, d, cut, m)
      /\ cut[m + 1] = start /\ start <= i /\ i <= n
      /\ \A q \in Nat : start <= q /\ q < i => ~At(t, q, d)
  BY DEF Scanning
<1>3. n \in Nat /\ Len(d) \in Nat \ {0} /\ m \in Nat
  BY <1>1, LenProperties, EmptySeq
<1> HIDE DEF i, start, parts, m
<1>4. part \in Seq(S)
  <2> DEFINE from == start + 1
  <2>1. from \in Nat \ {0} /\ from <= i + 1
    BY <1>1, <1>2
  <2> HIDE DEF from
  <2>2. SubSeq(t, from, i) \in Seq(S)
    BY <1>1, <1>2, <2>1, Part
  <2> QED BY <2>2 DEF from
<1>5. PartIs(t, d, part, cut[m + 1], i + Len(d))
  <2>1. i + Len(d) \in Nat /\ i + Len(d) - Len(d) = i /\ start + Len(d) <= i + Len(d)
        /\ \A q \in Nat : q + Len(d) < i + Len(d) => q < i
    BY <1>1, <1>2, <1>3
  <2>2. \A q \in Nat : start <= q /\ q + Len(d) < i + Len(d) => ~At(t, q, d)
    BY <1>2, <2>1
  <2> DEFINE k == i + Len(d)
  <2> HIDE DEF k
  <2>3. PartIs(t, d, SubSeq(t, start + 1, i), start, k)
    <3>0. \A q \in Nat : start <= q /\ q + Len(d) < k => ~At(t, q, d)
      BY <2>2, Zenon DEF k
    <3>1. k \in Nat /\ k - Len(d) = i /\ start + Len(d) <= k
      BY <1>1, <1>2, <1>3 DEF k
    <3>2. SubSeq(t, start + 1, i) = SubSeq(t, start + 1, k - Len(d)) /\ k - Len(d) <= Len(t)
      BY <1>2, <3>1
    <3>3. start \in Nat
      BY <1>1
    <3> QED BY <3>0, <3>1, <3>2, <3>3, Zenon DEF PartIs
  <2> QED BY <1>2, <2>3 DEF k
<1> HIDE DEF part
<1>6. PICK c : /\ Cuts(t, d, more, c)
               /\ \A j \in 1 .. m + 1 : c[j] = cut[j]
               /\ c[m + 2] = i + Len(d)
  <2> DEFINE k == i + Len(d)
  <2>1. k \in Nat
    BY <1>1, <1>3
  <2>2. PartIs(t, d, part, cut[Len(parts) + 1], k)
    BY <1>5 DEF m
  <2> HIDE DEF k
  <2>3. \E c : /\ Cuts(t, d, Append(parts, part), c)
               /\ \A j \in 1 .. Len(parts) + 1 : c[j] = cut[j]
               /\ c[Len(parts) + 2] = k
    BY <1>1, <1>2, <1>4, <2>1, <2>2, CutsMore
  <2> QED BY <2>3 DEF k, m
<1>7. Len(more) = m + 1 /\ more \in Seq(Seq(S))
  BY <1>1, <1>4, AppendProperties DEF m
<1>8. Delimited(t, d, c, m)
  <2> SUFFICES ASSUME NEW j \in 1 .. m PROVE At(t, c[j + 1] - Len(d), d)
    BY DEF Delimited
  <2>1. j + 1 \in 1 .. m + 1
    BY <1>3
  <2> QED BY <1>2, <1>6, <2>1 DEF Delimited
<1> HIDE DEF more
<1>9. CASE At(t, i, d)
  <2> DEFINE k == i + Len(d)
  <2>1. k \in Nat /\ k <= n /\ k > i /\ k - Len(d) = i /\ m + 1 + 1 = m + 2
    <3>1. i + Len(d) <= n
      BY <1>9 DEF At
    <3> QED BY <1>1, <1>3, <3>1
  <2>2. next = [i |-> k, start |-> k, parts |-> more]
    <3>1. ~(i > n)
      BY <1>1, <1>2, <1>3
    <3> QED BY <1>9, <3>1 DEF SplitTurn, PartEnds, i, start, parts, part, more
  <2> HIDE DEF k
  <2>3. Delimited(t, d, c, m + 1)
    <3> SUFFICES ASSUME NEW j \in 1 .. m + 1 PROVE At(t, c[j + 1] - Len(d), d)
      BY DEF Delimited
    <3>1. CASE j = m + 1
      <4>1. c[j + 1] = k
        BY <1>6, <2>1, <3>1 DEF k
      <4> QED BY <1>9, <2>1, <4>1
    <3>2. CASE j # m + 1
      <4>1. j \in 1 .. m
        BY <1>3, <3>2
      <4> QED BY <1>8, <4>1 DEF Delimited
    <3> QED BY <3>1, <3>2
  <2>4. \A q \in Nat : ~(k <= q /\ q < k)
    BY <2>1
  <2>5. c[m + 2] = k
    BY <1>6 DEF k
  <2>6. Scanning(t, d, next, c)
    <3>1. Len(more) + 1 = m + 2 /\ k <= k
      BY <1>7, <2>1
    <3> DEFINE s2 == next
    <3>2. s2.i = k /\ s2.start = k /\ s2.parts = more
      BY <2>2
    <3> HIDE DEF s2
    <3>3. Scanning(t, d, s2, c)
      BY <1>6, <1>7, <2>1, <2>3, <2>4, <2>5, <3>1, <3>2 DEF Scanning
    <3> QED BY <3>3 DEF s2
  <2>7. next.i > s.i
    BY <2>1, <2>2 DEF i
  <2> QED BY <2>6, <2>7 DEF ScansOn
<1>10. CASE ~At(t, i, d) /\ i = n
  <2>1. next = [i |-> i + 1, start |-> i + 1, parts |-> more]
    <3>1. ~(i > n)
      BY <1>1, <1>2, <1>3
    <3> QED BY <1>10, <3>1 DEF SplitTurn, PartEnds, i, start, parts, part, more
  <2>2. next.parts = more /\ next.i > n
    <3>1. i + 1 > n
      BY <1>3, <1>10
    <3> QED BY <2>1, <3>1
  <2>3. Scanned(t, d, more, c)
    <3>1. Len(more) - 1 = m /\ Len(more) + 1 = m + 2 /\ Len(more) \in Nat \ {0}
      BY <1>3, <1>7
    <3> QED BY <1>6, <1>8, <1>10, <3>1 DEF Scanned
  <2> QED BY <2>2, <2>3 DEF ScansOn
<1>11. CASE ~At(t, i, d) /\ i # n
  <2>1. next = [s EXCEPT !.i = i + 1]
    <3>1. ~(i > n)
      BY <1>1, <1>2, <1>3
    <3> QED BY <1>11, <3>1 DEF SplitTurn, i
  <2> DEFINE s2 == next
             k == i + 1
  <2>2. s2.i = k /\ s2.start = start /\ s2.parts = parts
    BY <2>1 DEF SplitStates, start, parts
  <2> HIDE DEF s2
  <2>3. start <= k /\ k <= n /\ k > i /\ \A q \in Nat : q < k => q < i \/ q = i
    BY <1>1, <1>2, <1>3, <1>11
  <2>4. \A q \in Nat : start <= q /\ q < k => ~At(t, q, d)
    BY <1>2, <1>11, <2>3
  <2> HIDE DEF k
  <2>5. Scanning(t, d, s2, cut)
    BY <1>2, <2>2, <2>3, <2>4 DEF Scanning, m
  <2>6. s2.i > s.i
    BY <2>2, <2>3 DEF i
  <2> QED BY <2>5, <2>6 DEF ScansOn, s2
<1> QED BY <1>9, <1>10, <1>11

\* A whole run of the loop.
LEMMA SplitEnds ==
    ASSUME NEW S, NEW t \in Seq(S), NEW d \in Seq(S), d # <<>>
    PROVE  PartsOf(t, d) \in Seq(Seq(S)) /\ \E c : Scanned(t, d, PartsOf(t, d), c)
<1> DEFINE n == Len(t)
           R == SplitStates(S)
<1>1. n \in Nat /\ n + 1 \in Nat /\ Len(d) \in Nat \ {0}
  BY LenProperties, EmptySeq
<1>2. \E r : SplitBy(t, d, r) /\ PartsOf(t, d) = r[n + 1].parts
  BY SplitTurns
<1>3. PICK r : SplitBy(t, d, r) /\ PartsOf(t, d) = r[n + 1].parts
  BY <1>2
<1> DEFINE Over(s) == s.i > n /\ \E c : Scanned(t, d, s.parts, c)
           Under(s, k) == s.i >= k /\ \E c : Scanning(t, d, s, c)
           Good == {k \in Nat : r[k] \in R /\ (Under(r[k], k) \/ Over(r[k]))}
<1>4. 0 \in Good
  <2> DEFINE s == r[0]
             none == <<>>
             c == [i \in 1 .. 1 |-> 0]
  <2>1. s = FirstPart
    BY <1>3 DEF SplitBy
  <2>2. s.i = 0 /\ s.start = 0 /\ s.parts = none /\ FirstPart \in R
    BY <2>1 DEF FirstPart, SplitStates
  <2>3. Len(none) = 0 /\ c[1] = 0 /\ c \in [1 .. 0 + 1 -> Nat]
    OBVIOUS
  <2> HIDE DEF s, none, c
  <2>4. Cuts(t, d, none, c) /\ Delimited(t, d, c, 0)
    BY <2>3 DEF Cuts, Delimited
  <2>5. Scanning(t, d, s, c)
    <3>1. 0 <= 0 /\ 0 <= n /\ 0 + 1 = 1 /\ \A q \in Nat : ~(0 <= q /\ q < 0)
      BY <1>1
    <3> QED BY <2>2, <2>3, <2>4, <3>1 DEF Scanning
  <2> QED BY <2>1, <2>2, <2>5 DEF s
<1>5. ASSUME NEW k \in 1 .. n + 1, k - 1 \in Good PROVE k \in Good
  <2> DEFINE s == r[k - 1]
             next == r[k]
  <2>1. s \in R /\ (Under(s, k - 1) \/ Over(s))
    BY <1>5
  <2>2. next = SplitTurn(s, t, d)
    BY <1>3 DEF SplitBy
  <2> HIDE DEF s, next
  <2>3. next \in R
    BY <2>1, <2>2, SplitTurnIs
  <2>4. CASE Over(s)
    <3>1. next = s
      BY <2>2, <2>4 DEF SplitTurn
    <3> QED BY <2>3, <2>4, <3>1 DEF next
  <2>5. CASE Under(s, k - 1)
    <3>1. PICK c : Scanning(t, d, s, c)
      BY <2>5
    <3>2. ScansOn(t, d, s, next)
      BY <2>1, <2>2, <3>1, ScanTurn
    <3>3. next.i > s.i => next.i >= k
      <4>1. s.i \in Nat /\ next.i \in Nat /\ s.i >= k - 1
        BY <2>1, <2>3, <2>5 DEF SplitStates
      <4> QED BY <1>1, <4>1
    <3>4. Under(next, k) \/ Over(next)
      BY <3>2, <3>3 DEF ScansOn
    <3>5. k \in Nat
      BY <1>1
    <3> HIDE DEF Under, Over, R
    <3> QED BY <2>3, <3>4, <3>5 DEF next
  <2> QED BY <2>1, <2>4, <2>5
<1> HIDE DEF Good
<1>6. \A k \in 0 .. n + 1 : k \in Good
  <2> DEFINE m == n + 1
  <2>1. \A k \in 1 .. m : k - 1 \in Good => k \in Good
    BY <1>5
  <2> HIDE DEF m
  <2> QED BY <1>1, <1>4, <2>1, Upward DEF m
<1> DEFINE s == r[n + 1]
<1>7. s \in R /\ (Under(s, n + 1) \/ Over(s))
  <2>1. n + 1 \in Good
    BY <1>1, <1>6
  <2> QED BY <2>1 DEF Good
<1>8. ~Under(s, n + 1)
  <2> SUFFICES ASSUME Under(s, n + 1) PROVE FALSE
    OBVIOUS
  <2>1. s.i <= n /\ s.i >= n + 1 /\ s.i \in Nat
    BY <1>7 DEF Scanning, SplitStates
  <2> QED BY <1>1, <2>1
<1>9. Over(s) /\ s.parts \in Seq(Seq(S))
  BY <1>7, <1>8 DEF SplitStates
<1> QED BY <1>3, <1>9

\* Each part with the place it stops at: the delimiter that begins there ends where the
\* next part begins, and the last part stops at the end of the text.
Stopped(t, d, parts, cut, stop) ==
    LET m == Len(parts)
        n == Len(t)
    IN  /\ m \in Nat \ {0} /\ stop \in [1 .. m -> 0 .. n] /\ stop[m] = n /\ cut[1] = 0
        /\ \A i \in 1 .. m : cut[i] \in 0 .. stop[i]
        /\ \A i \in 1 .. m : parts[i] = SubSeq(t, cut[i] + 1, stop[i])
        /\ \A i \in 1 .. m, q \in Nat : cut[i] <= q /\ q < stop[i] => ~At(t, q, d)
        /\ \A i \in 1 .. m - 1 : cut[i + 1] = stop[i] + Len(d)
        /\ \A i \in 1 .. m - 1 : At(t, stop[i], d)

\* When the scan is done each part has the place it stops at.
LEMMA ScannedStops ==
    ASSUME NEW S, NEW t \in Seq(S), NEW d \in Seq(S), NEW parts, NEW cut,
           Scanned(t, d, parts, cut)
    PROVE  \E stop : Stopped(t, d, parts, cut, stop)
<1> DEFINE m == Len(parts)
           n == Len(t)
           stop == [i \in 1 .. m |-> cut[i + 1] - Len(d)]
<1>1. n \in Nat /\ Len(d) \in Nat
  BY LenProperties
<1>2. m \in Nat \ {0} /\ cut \in [1 .. m + 1 -> Nat] /\ cut[1] = 0 /\ cut[m + 1] = n + Len(d)
  BY DEF Scanned, Cuts
<1>3. \A i \in 1 .. m : PartIs(t, d, parts[i], cut[i], cut[i + 1])
  BY DEF Scanned, Cuts
<1>4. \A i \in 1 .. m - 1 : At(t, cut[i + 1] - Len(d), d)
  BY DEF Scanned, Delimited
<1> HIDE DEF m
<1>5. ASSUME NEW i \in 1 .. m
      PROVE  /\ stop[i] = cut[i + 1] - Len(d) /\ cut[i] \in Nat /\ cut[i + 1] \in Nat
             /\ stop[i] \in 0 .. n /\ cut[i] \in 0 .. stop[i] /\ cut[i + 1] = stop[i] + Len(d)
  <2>1. cut[i] \in Nat /\ cut[i + 1] \in Nat /\ cut[i] + Len(d) <= cut[i + 1]
        /\ cut[i + 1] - Len(d) <= n
    BY <1>3 DEF PartIs
  <2>2. stop[i] = cut[i + 1] - Len(d)
    OBVIOUS
  <2> HIDE DEF stop
  <2> QED BY <1>1, <2>1, <2>2
<1>6. stop \in [1 .. m -> 0 .. n]
  BY <1>5
<1>7. stop[m] = n
  <2>1. m \in 1 .. m
    BY <1>2
  <2>2. stop[m] = cut[m + 1] - Len(d)
    BY <1>5, <2>1
  <2> HIDE DEF stop
  <2> QED BY <1>1, <1>2, <2>2
<1> HIDE DEF stop
<1>8. \A i \in 1 .. m : parts[i] = SubSeq(t, cut[i] + 1, stop[i])
  BY <1>3, <1>5, Zenon DEF PartIs
<1>9. ASSUME NEW i \in 1 .. m, NEW q \in Nat, cut[i] <= q, q < stop[i] PROVE ~At(t, q, d)
  <2>1. q + Len(d) < cut[i + 1]
    <3>1. stop[i] \in Nat /\ cut[i + 1] = stop[i] + Len(d)
      BY <1>1, <1>5
    <3> QED BY <1>1, <1>9, <3>1
  <2> QED BY <1>3, <1>9, <2>1, Zenon DEF PartIs
<1>10. ASSUME NEW i \in 1 .. m - 1 PROVE At(t, stop[i], d) /\ cut[i + 1] = stop[i] + Len(d)
  <2>1. i \in 1 .. m
    BY <1>2
  <2>2. stop[i] = cut[i + 1] - Len(d)
    BY <1>5, <2>1
  <2> QED BY <1>4, <1>5, <2>1, <2>2
<1>11. Stopped(t, d, parts, cut, stop)
  BY <1>2, <1>5, <1>6, <1>7, <1>8, <1>9, <1>10 DEF Stopped, m
<1> QED BY <1>11

\* The parts, joined by the delimiter, give the text back.
LEMMA JoinGivesBack ==
    ASSUME NEW S, NEW t \in Seq(S), NEW d \in Seq(S), NEW parts, NEW cut, NEW stop,
           Stopped(t, d, parts, cut, stop)
    PROVE  string_join(parts, d) = t
<1> DEFINE m == Len(parts)
           n == Len(t)
           f == [i \in 1 .. m |-> SubSeq(t, 1, stop[i])]
           All(g) == g = [i \in 1 .. Len(parts) |->
                            IF i = 1 THEN parts[1] ELSE g[i - 1] \o d \o parts[i]]
           r == CHOOSE g : All(g)
<1>1. n \in Nat /\ Len(d) \in Nat
  BY LenProperties
<1>2. m \in Nat \ {0} /\ stop \in [1 .. m -> 0 .. n] /\ stop[m] = n /\ cut[1] = 0
  BY DEF Stopped
<1>3. \A i \in 1 .. m : cut[i] \in 0 .. stop[i] /\ parts[i] = SubSeq(t, cut[i] + 1, stop[i])
  BY DEF Stopped
<1>4. \A i \in 1 .. m - 1 : cut[i + 1] = stop[i] + Len(d) /\ At(t, stop[i], d)
  BY DEF Stopped
<1> HIDE DEF m, n
<1>5. f[1] = parts[1]
  <2>1. 1 \in 1 .. m /\ 0 + 1 = 1
    BY <1>2
  <2>2. parts[1] = SubSeq(t, cut[1] + 1, stop[1])
    BY <1>3, <2>1
  <2> QED BY <1>2, <2>1, <2>2
<1>6. ASSUME NEW i \in 1 .. m, i # 1 PROVE f[i] = f[i - 1] \o d \o parts[i]
  <2> DEFINE b == stop[i - 1]
             a == b + Len(d)
             e == stop[i]
  <2>1. i - 1 \in 1 .. m - 1 /\ i - 1 \in 1 .. m /\ i - 1 + 1 = i
    BY <1>2, <1>6
  <2>2. At(t, b, d) /\ cut[i] = a /\ a \in 0 .. e /\ parts[i] = SubSeq(t, a + 1, e)
    <3>1. At(t, stop[i - 1], d) /\ cut[i - 1 + 1] = stop[i - 1] + Len(d)
      <4> DEFINE j == i - 1
      <4>1. j \in 1 .. m - 1
        BY <2>1
      <4> HIDE DEF j
      <4>2. At(t, stop[j], d) /\ cut[j + 1] = stop[j] + Len(d)
        BY <1>4, <4>1
      <4> QED BY <4>2 DEF j
    <3> QED BY <1>3, <2>1, <3>1
  <2>3. b \in 0 .. n /\ e \in 0 .. n
    BY <1>2, <2>1
  <2>4. f[i] = SubSeq(t, 1, e) /\ f[i - 1] = SubSeq(t, 1, b)
    BY <2>1
  <2>5. b + Len(d) <= n /\ SubSeq(t, b + 1, a) = d
    BY <2>2 DEF At, n
  <2> HIDE DEF f, b, e
  <2>6. SubSeq(t, 1, b) \o SubSeq(t, b + 1, a) = SubSeq(t, 1, a)
    <3> DEFINE one == 1
    <3>1. one \in 1 .. Len(t) + 1 /\ b \in one - 1 .. Len(t) /\ a \in b .. Len(t)
      BY <1>1, <2>3, <2>5 DEF n
    <3> HIDE DEF one, a
    <3>2. SubSeq(t, one, b) \o SubSeq(t, b + 1, a) = SubSeq(t, one, a)
      BY <3>1, ConcatAdjacentSubSeq, Zenon
    <3> QED BY <3>2 DEF one
  <2>7. SubSeq(t, 1, a) \o SubSeq(t, a + 1, e) = SubSeq(t, 1, e)
    <3> DEFINE one == 1
    <3>1. one \in 1 .. Len(t) + 1 /\ a \in one - 1 .. Len(t) /\ e \in a .. Len(t)
      BY <1>1, <2>2, <2>3, <2>5 DEF n
    <3> HIDE DEF one, a
    <3>2. SubSeq(t, one, a) \o SubSeq(t, a + 1, e) = SubSeq(t, one, e)
      BY <3>1, ConcatAdjacentSubSeq, Zenon
    <3> QED BY <3>2 DEF one
  <2> QED BY <2>2, <2>4, <2>5, <2>6, <2>7, Zenon
<1>7. f = [i \in 1 .. m |-> IF i = 1 THEN parts[1] ELSE f[i - 1] \o d \o parts[i]]
  <2> DEFINE v(i) == IF i = 1 THEN parts[1] ELSE f[i - 1] \o d \o parts[i]
  <2>1. \A i \in 1 .. m : f[i] = v(i)
    BY <1>5, <1>6, Zenon
  <2> HIDE DEF v
  <2>2. f = [i \in 1 .. m |-> v(i)]
    BY <2>1
  <2> QED BY <2>2, Zenon DEF v
<1>8. All(f)
  BY <1>7, Zenon DEF m
<1>9. All(r)
  BY <1>8, Zenon
<1>10. string_join(parts, d) = r[m]
  BY Zenon DEF string_join, m
<1> HIDE DEF r, f
<1>11. r = [i \in 1 .. m |-> IF i = 1 THEN parts[1] ELSE r[i - 1] \o d \o parts[i]]
  BY <1>9, Zenon DEF m
<1>12. ASSUME NEW i \in 1 .. m
       PROVE  r[i] = IF i = 1 THEN parts[1] ELSE r[i - 1] \o d \o parts[i]
  <2> DEFINE v(j) == IF j = 1 THEN parts[1] ELSE r[j - 1] \o d \o parts[j]
  <2>1. r = [j \in 1 .. m |-> v(j)]
    BY <1>11, Zenon
  <2> HIDE DEF v
  <2>2. r[i] = v(i)
    BY <2>1
  <2> QED BY <2>2, Zenon DEF v
<1> DEFINE Good == {k \in Nat : k + 1 \in 1 .. m /\ r[k + 1] = f[k + 1]}
<1>13. 0 \in Good
  <2>1. 0 + 1 = 1 /\ 1 \in 1 .. m
    BY <1>2
  <2>2. r[1] = parts[1]
    BY <1>12, <2>1
  <2> QED BY <1>5, <2>1, <2>2
<1>14. ASSUME NEW k \in 1 .. m - 1, k - 1 \in Good PROVE k \in Good
  <2> DEFINE i == k + 1
  <2>1. i \in 1 .. m /\ i # 1 /\ i - 1 = k /\ k - 1 + 1 = k /\ k \in Nat
    BY <1>2
  <2>2. r[k] = f[k]
    BY <1>14, <2>1
  <2> HIDE DEF i
  <2>3. r[i] = f[i]
    BY <1>6, <1>12, <2>1, <2>2
  <2> QED BY <2>1, <2>3 DEF i
<1> HIDE DEF Good
<1>15. m - 1 \in Good
  <2> DEFINE k == m - 1
  <2>1. k \in Nat /\ k \in 0 .. k
    BY <1>2
  <2>2. \A j \in 1 .. k : j - 1 \in Good => j \in Good
    BY <1>14
  <2> HIDE DEF k
  <2>3. \A j \in 0 .. k : j \in Good
    BY <1>13, <2>1, <2>2, Upward
  <2> QED BY <2>1, <2>3 DEF k
<1>16. r[m] = f[m]
  <2>1. m - 1 + 1 = m
    BY <1>2
  <2> QED BY <1>15, <2>1 DEF Good
<1>17. f[m] = t
  <2>1. m \in 1 .. m
    BY <1>2
  <2>2. f[m] = SubSeq(t, 1, n)
    BY <1>2, <2>1 DEF f
  <2> QED BY <2>2, SubSeqFull DEF n
<1> QED BY <1>10, <1>16, <1>17

\* No part holds the delimiter.
LEMMA PartsHoldNone ==
    ASSUME NEW S, NEW t \in Seq(S), NEW d \in Seq(S), d # <<>>, NEW parts, NEW cut, NEW stop,
           Stopped(t, d, parts, cut, stop), NEW i \in 1 .. Len(parts), NEW j \in Nat
    PROVE  ~At(parts[i], j, d)
<1> DEFINE a == cut[i]
           b == stop[i]
           part == parts[i]
<1>1. Len(t) \in Nat /\ Len(d) \in Nat \ {0}
  BY LenProperties, EmptySeq
<1>2. a \in 0 .. b /\ b \in 0 .. Len(t) /\ part = SubSeq(t, a + 1, b)
  BY DEF Stopped
<1>3. \A q \in Nat : a <= q /\ q < b => ~At(t, q, d)
  BY DEF Stopped
<1> HIDE DEF a, b, part
<1>4. part \in Seq(S) /\ Len(part) = b - a /\ \A k \in 1 .. b - a : part[k] = t[a + k]
  <2> DEFINE m == a + 1
  <2>1. m \in Nat \ {0} /\ b \in Nat /\ m <= b + 1 /\ b <= Len(t) /\ b - m + 1 = b - a
        /\ \A k \in 1 .. b - a : m + k - 1 = a + k
    BY <1>1, <1>2
  <2>2. part = SubSeq(t, m, b)
    BY <1>2
  <2> HIDE DEF m
  <2>3. /\ SubSeq(t, m, b) \in Seq(S) /\ Len(SubSeq(t, m, b)) = b - m + 1
        /\ \A k \in 1 .. b - m + 1 : SubSeq(t, m, b)[k] = t[m + k - 1]
    BY <2>1, Part
  <2> QED BY <2>1, <2>2, <2>3
<1>5. SUFFICES ASSUME At(part, j, d) PROVE FALSE
  BY DEF part
<1>6. j + Len(d) <= b - a /\ \A k \in 1 .. Len(d) : part[j + k] = d[k]
  <2>1. j + Len(d) <= Len(part) /\ \A k \in 1 .. Len(d) : part[j + k] = d[k]
    BY <1>4, <1>5, AtIs, SMTT(20)
  <2> QED BY <1>4, <2>1
<1> DEFINE q == a + j
<1>7. q \in Nat /\ a <= q /\ q < b /\ q + Len(d) <= Len(t)
  BY <1>1, <1>2, <1>6
<1>8. ASSUME NEW k \in 1 .. Len(d) PROVE t[q + k] = d[k]
  <2>1. j + k \in 1 .. b - a /\ a + (j + k) = q + k
    BY <1>1, <1>2, <1>6
  <2>2. part[j + k] = t[a + (j + k)]
    BY <1>4, <2>1
  <2> QED BY <1>6, <2>1, <2>2
<1> HIDE DEF q
<1>9. At(t, q, d)
  BY <1>7, <1>8, AtIs, ZenonT(60)
<1> QED BY <1>3, <1>7, <1>9

\* What string_find finds in t.
FindIn(t, d) ==
    LET places == {i \in 0 .. Len(t) - Len(d) : At(t, i, d)}
    IN  IF d = <<>> \/ Len(d) > Len(t) \/ places = {} THEN -1
        ELSE CHOOSE i \in places : \A j \in places : i <= j

\* The first part ends where the delimiter is first found.
LEMMA FoundFirst ==
    ASSUME NEW S, NEW t \in Seq(S), NEW d \in Seq(S), d # <<>>, NEW parts, NEW cut, NEW stop,
           Stopped(t, d, parts, cut, stop)
    PROVE  FindIn(t, d) = IF Len(parts) = 1 THEN -1 ELSE Len(parts[1])
<1> DEFINE n == Len(t)
           m == Len(parts)
           places == {i \in 0 .. n - Len(d) : At(t, i, d)}
           first == stop[1]
<1>1. n \in Nat /\ Len(d) \in Nat \ {0}
  BY LenProperties, EmptySeq
<1>2. m \in Nat \ {0} /\ first \in 0 .. n /\ 1 \in 1 .. m /\ stop[m] = n /\ cut[1] = 0
  <2>1. m \in Nat \ {0} /\ stop \in [1 .. m -> 0 .. n] /\ stop[m] = n /\ cut[1] = 0
    BY DEF Stopped
  <2>2. 1 \in 1 .. m
    BY <2>1
  <2> QED BY <2>1, <2>2
<1>3. parts[1] = SubSeq(t, 1, first)
  <2>1. \A i \in 1 .. m : parts[i] = SubSeq(t, cut[i] + 1, stop[i])
    BY DEF Stopped
  <2> HIDE DEF m, n
  <2>2. parts[1] = SubSeq(t, cut[1] + 1, first)
    BY <1>2, <2>1, Zenon
  <2>3. cut[1] + 1 = 1
    <3>1. cut[1] = 0
      BY <1>2
    <3> QED BY <3>1
  <2> QED BY <2>2, <2>3, Zenon
<1>4. \A q \in Nat : q < first => ~At(t, q, d)
  <2>1. \A q \in Nat : cut[1] <= q /\ q < first => ~At(t, q, d)
    BY <1>2 DEF Stopped
  <2> QED BY <1>2, <2>1
<1>5. m # 1 => At(t, first, d)
  <2>1. m # 1 => 1 \in 1 .. m - 1
    <3>1. m \in Nat \ {0}
      BY <1>2
    <3> HIDE DEF m
    <3> QED BY <3>1
  <2>2. \A i \in 1 .. m - 1 : At(t, stop[i], d)
    BY DEF Stopped
  <2> QED BY <2>1, <2>2
<1> HIDE DEF n, m, first
<1>6. Len(parts[1]) = first
  BY <1>2, <1>3, Beginning DEF n
<1>7. CASE m = 1
  <2>1. first = n
    BY <1>2, <1>7 DEF first
  <2>2. places = {}
    <3> SUFFICES ASSUME NEW i \in 0 .. n - Len(d), At(t, i, d) PROVE FALSE
      OBVIOUS
    <3>1. i \in Nat /\ i < first
      BY <1>1, <2>1
    <3> QED BY <1>4, <3>1
  <2> QED BY <1>7, <2>2, Zenon DEF FindIn, n, m
<1>8. CASE m # 1
  <2>1. first \in places /\ Len(d) <= n
    <3>1. first + Len(d) <= n
      BY <1>5, <1>8 DEF At, n
    <3>2. first \in 0 .. n - Len(d)
      BY <1>1, <1>2, <3>1
    <3>3. Len(d) <= n
      BY <1>1, <1>2, <3>1
    <3> QED BY <1>5, <1>8, <3>2, <3>3
  <2>2. ASSUME NEW i \in places PROVE first <= i
    <3>1. i \in Nat /\ At(t, i, d)
      BY <1>1
    <3>2. ~(i < first)
      BY <1>4, <3>1
    <3> QED BY <1>2, <3>1, <3>2
  <2>3. places \subseteq Nat
    BY <1>1
  <2>4. FindIn(t, d) = CHOOSE i \in places : \A j \in places : i <= j
    <3>1. ~(Len(d) > n)
      BY <1>1, <2>1
    <3>2. d # <<>> /\ places # {}
      BY <2>1
    <3> QED BY <3>1, <3>2, Zenon DEF FindIn, n
  <2> HIDE DEF places
  <2> DEFINE least == CHOOSE i \in places : \A j \in places : i <= j
  <2>5. least \in places /\ \A j \in places : least <= j
    BY <2>1, <2>2, Zenon
  <2> HIDE DEF least
  <2>6. least = first
    <3>1. least <= first /\ first <= least /\ least \in Nat /\ first \in Nat
      BY <2>1, <2>2, <2>3, <2>5
    <3> QED BY <3>1
  <2> QED BY <1>6, <1>8, <2>4, <2>6, Zenon DEF least, m
<1> QED BY <1>7, <1>8

\* Two places the delimiter stands at, less than its length apart: it overlaps itself.
LEMMA CloseOverlaps ==
    ASSUME NEW S, NEW t \in Seq(S), NEW d \in Seq(S), NEW p \in Nat, NEW q \in Nat,
           At(t, p, d), At(t, q, d), p < q, q < p + Len(d)
    PROVE  Overlaps(d)
<1> DEFINE n == Len(d)
           by == q - p
           k == n - by
           head == SubSeq(d, 1, k)
           tail == SubSeq(d, n - k + 1, n)
<1>1. n \in Nat /\ by \in 1 .. n - 1 /\ k \in 1 .. n - 1 /\ n - k = by
  <2>1. n \in Nat
    BY LenProperties
  <2> HIDE DEF n
  <2>2. q < p + n
    BY DEF n
  <2> QED BY <2>1, <2>2
<1>2. (\A i \in 1 .. n : t[p + i] = d[i]) /\ \A i \in 1 .. n : t[q + i] = d[i]
  BY AtIs, SMTT(20)
<1>3. head \in Seq(S) /\ Len(head) = k /\ \A i \in 1 .. k : head[i] = d[i]
  <2>1. k \in Nat /\ k <= n
    BY <1>1
  <2> HIDE DEF k
  <2> QED BY <2>1, Beginning
<1>4. tail \in Seq(S) /\ Len(tail) = k /\ \A i \in 1 .. k : tail[i] = d[by + i]
  <2> DEFINE m == n - k + 1
  <2>1. m \in Nat \ {0} /\ m <= n + 1 /\ n <= n /\ n - m + 1 = k
        /\ \A i \in 1 .. k : m + i - 1 = by + i
    BY <1>1
  <2>2. tail = SubSeq(d, m, n)
    OBVIOUS
  <2> HIDE DEF m, k, tail, by
  <2>3. /\ SubSeq(d, m, n) \in Seq(S) /\ Len(SubSeq(d, m, n)) = n - m + 1
        /\ \A i \in 1 .. n - m + 1 : SubSeq(d, m, n)[i] = d[m + i - 1]
    BY <1>1, <2>1, Part
  <2> HIDE DEF n
  <2> QED BY <2>1, <2>2, <2>3
<1>5. ASSUME NEW i \in 1 .. k PROVE head[i] = tail[i]
  <2>1. i \in 1 .. n /\ by + i \in 1 .. n /\ p + (by + i) = q + i
    BY <1>1
  <2>2. head[i] = d[i] /\ tail[i] = d[by + i]
    BY <1>3, <1>4
  <2> HIDE DEF head, tail, by, n, k
  <2>3. t[q + i] = d[i] /\ t[p + (by + i)] = d[by + i]
    BY <1>2, <2>1
  <2> QED BY <2>1, <2>2, <2>3
<1> HIDE DEF head, tail, k
<1>6. head = tail
  BY <1>3, <1>4, <1>5, SeqEqual
<1> QED BY <1>1, <1>6, Zenon DEF Overlaps, head, tail, n

\* The stops climb.
LEMMA StopsClimb ==
    ASSUME NEW S, NEW t \in Seq(S), NEW d \in Seq(S), d # <<>>, NEW parts, NEW cut, NEW stop,
           Stopped(t, d, parts, cut, stop)
    PROVE  \A i \in 1 .. Len(parts), j \in 1 .. Len(parts) : i < j => stop[i] < stop[j]
<1> DEFINE n == Len(t)
           m == Len(parts)
           Good == {k \in Nat : k + 1 \in 1 .. m /\ \A i \in 1 .. k : stop[i] < stop[k + 1]}
<1>1. n \in Nat /\ Len(d) \in Nat \ {0}
  BY LenProperties, EmptySeq
<1>2. m \in Nat \ {0} /\ stop \in [1 .. m -> 0 .. n]
  BY DEF Stopped
<1>3. \A i \in 1 .. m : cut[i] \in 0 .. stop[i]
  BY DEF Stopped
<1>4. \A i \in 1 .. m - 1 : cut[i + 1] = stop[i] + Len(d)
  BY DEF Stopped
<1> HIDE DEF n, m
<1>5. 0 \in Good
  BY <1>2
<1>6. ASSUME NEW k \in 1 .. m - 1, k - 1 \in Good PROVE k \in Good
  <2>1. k \in 1 .. m /\ k + 1 \in 1 .. m /\ k \in Nat /\ k - 1 + 1 = k
    BY <1>2
  <2>2. \A i \in 1 .. k - 1 : stop[i] < stop[k]
    BY <1>6, <2>1
  <2>3. stop[k] < stop[k + 1] /\ stop[k] \in Nat /\ stop[k + 1] \in Nat
    <3>1. stop[k] \in Nat /\ stop[k + 1] \in Nat
      BY <1>1, <1>2, <2>1
    <3>2. cut[k + 1] = stop[k] + Len(d) /\ cut[k + 1] \in 0 .. stop[k + 1]
      BY <1>3, <1>4, <2>1
    <3> QED BY <1>1, <3>1, <3>2
  <2>4. ASSUME NEW i \in 1 .. k PROVE stop[i] < stop[k + 1]
    <3>1. CASE i = k
      BY <2>3, <3>1
    <3>2. CASE i # k
      <4>1. i \in 1 .. k - 1 /\ i \in 1 .. m
        BY <1>2, <3>2
      <4>2. stop[i] < stop[k] /\ stop[i] \in Nat
        BY <1>1, <1>2, <2>2, <4>1
      <4> QED BY <2>3, <4>2
    <3> QED BY <3>1, <3>2
  <2> QED BY <2>1, <2>4
<1> HIDE DEF Good
<1>7. \A k \in 0 .. m - 1 : k \in Good
  <2> DEFINE k == m - 1
  <2>1. k \in Nat
    BY <1>2
  <2>2. \A j \in 1 .. k : j - 1 \in Good => j \in Good
    BY <1>6
  <2> HIDE DEF k
  <2>3. \A j \in 0 .. k : j \in Good
    BY <1>5, <2>1, <2>2, Upward
  <2> QED BY <2>3 DEF k
<1>8. ASSUME NEW i \in 1 .. m, NEW j \in 1 .. m, i < j PROVE stop[i] < stop[j]
  <2> DEFINE k == j - 1
  <2>1. k \in 0 .. m - 1 /\ k + 1 = j /\ i \in 1 .. k
    BY <1>2, <1>8
  <2> HIDE DEF k
  <2> QED BY <1>7, <2>1 DEF Good
<1> QED BY <1>8 DEF m

\* Every place the delimiter stands at, also within another.
PlacesOf(t, d) == {i \in 0 .. Len(t) : At(t, i, d)}

\* As many parts as places and one more, unless some places are within another delimiter.
LEMMA PlacesCounted ==
    ASSUME NEW S, NEW t \in Seq(S), NEW d \in Seq(S), d # <<>>, NEW parts, NEW cut, NEW stop,
           Stopped(t, d, parts, cut, stop)
    PROVE  /\ 1 + Cardinality(PlacesOf(t, d)) >= Len(parts)
           /\ Overlaps(d) \/ 1 + Cardinality(PlacesOf(t, d)) = Len(parts)
<1> DEFINE n == Len(t)
           m == Len(parts)
           places == PlacesOf(t, d)
           few == 1 .. m - 1
           f == [i \in few |-> stop[i]]
<1>1. n \in Nat /\ Len(d) \in Nat \ {0}
  BY LenProperties, EmptySeq
<1>2. m \in Nat \ {0} /\ stop \in [1 .. m -> 0 .. n] /\ stop[m] = n /\ cut[1] = 0
  BY DEF Stopped
<1>3. \A i \in 1 .. m : cut[i] \in 0 .. stop[i]
  BY DEF Stopped
<1>4. \A i \in 1 .. m - 1 : cut[i + 1] = stop[i] + Len(d)
  BY DEF Stopped
<1>5. \A i \in 1 .. m - 1 : At(t, stop[i], d)
  BY DEF Stopped
<1>6. \A i \in 1 .. m, q \in Nat : cut[i] <= q /\ q < stop[i] => ~At(t, q, d)
  BY DEF Stopped
<1>7. \A i \in 1 .. m, j \in 1 .. m : i < j => stop[i] < stop[j]
  BY StopsClimb
<1>8. \A i \in places : i \in 0 .. n /\ At(t, i, d)
  BY DEF PlacesOf
<1>9. \A i \in 0 .. n : At(t, i, d) => i \in places
  BY DEF PlacesOf
<1> HIDE DEF n, m, places
<1>10. IsFiniteSet(places) /\ IsFiniteSet(few) /\ Cardinality(few) = m - 1
       /\ Cardinality(places) \in Nat
  <2>1. IsFiniteSet(0 .. n)
    BY <1>1, FS_Interval
  <2>2. places \in SUBSET (0 .. n)
    BY <1>8
  <2>3. IsFiniteSet(places)
    BY <2>1, <2>2, FS_Subset
  <2> DEFINE k == m - 1
  <2>4. k \in Nat /\ 1 \in Int /\ k \in Int
    BY <1>2
  <2> HIDE DEF k
  <2>5. IsFiniteSet(1 .. k) /\ Cardinality(1 .. k) = IF 1 > k THEN 0 ELSE k - 1 + 1
    BY <2>4, FS_Interval
  <2>6. (IF 1 > k THEN 0 ELSE k - 1 + 1) = k
    BY <2>4
  <2> QED BY <2>3, <2>5, <2>6, FS_CardinalityType DEF k
<1>11. f \in Injection(few, places)
  <2>1. \A i \in few : i \in 1 .. m
    BY <1>2
  <2>2. \A i \in few : f[i] = stop[i]
    OBVIOUS
  <2>3. \A i \in few : f[i] \in places
    <3> SUFFICES ASSUME NEW i \in few PROVE stop[i] \in places
      BY <2>2
    <3> QED BY <1>2, <1>5, <1>9, <2>1
  <2>4. f \in [few -> places]
    BY <2>2, <2>3
  <2>5. ASSUME NEW i \in few, NEW j \in few, f[i] = f[j] PROVE i = j
    <3>1. stop[i] = stop[j] /\ stop[i] \in Nat
      BY <1>1, <1>2, <2>1, <2>2, <2>5
    <3>2. ~(i < j) /\ ~(j < i)
      BY <1>7, <2>1, <3>1
    <3>3. i \in Int /\ j \in Int
      BY <1>2
    <3> QED BY <3>2, <3>3
  <2> HIDE DEF f, few
  <2>6. DOMAIN f = few
    BY <2>4
  <2>7. IsInjective(f)
    BY <2>5, <2>6 DEF IsInjective
  <2> QED BY <2>4, <2>7 DEF Injection
<1> HIDE DEF f
<1>12. Cardinality(few) <= Cardinality(places)
       /\ (Cardinality(few) = Cardinality(places) <=> f \in Surjection(few, places))
  <2> HIDE DEF few
  <2> QED BY <1>10, <1>11, FS_Injection
<1>13. ASSUME ~Overlaps(d) PROVE f \in Surjection(few, places)
  <2>1. ASSUME NEW p \in places PROVE \E i \in few : f[i] = p
    <3> DEFINE T == {i \in 1 .. m : p <= stop[i]}
    <3>1. p \in 0 .. n /\ p \in Nat /\ At(t, p, d)
      BY <1>1, <1>8
    <3>2. T \subseteq Nat /\ m \in T
      BY <1>2, <3>1
    <3>3. PICK i \in T : \A j \in T : i <= j
      BY <3>2, HasLeast
    <3>4. i \in 1 .. m /\ p <= stop[i] /\ stop[i] \in Nat /\ cut[i] \in 0 .. stop[i]
      BY <1>1, <1>2, <1>3, <3>3
    <3>5. p = stop[i]
      <4> SUFFICES ASSUME p < stop[i] PROVE FALSE
        BY <3>1, <3>4
      <4>1. ~(cut[i] <= p)
        BY <1>6, <3>1, <3>4
      <4>2. i # 1
        BY <1>2, <3>1, <4>1
      <4> DEFINE j == i - 1
      <4>3. j \in 1 .. m - 1 /\ j \in 1 .. m /\ j + 1 = i /\ ~(i <= j)
        BY <1>2, <3>4, <4>2
      <4> HIDE DEF j
      <4>4. j \notin T
        BY <3>3, <4>3
      <4>5. stop[j] \in Nat
        BY <1>1, <1>2, <4>3
      <4>6. ~(p <= stop[j])
        BY <4>3, <4>4
      <4>7. stop[j] < p /\ p < stop[j] + Len(d)
        <5>1. cut[i] = stop[j] + Len(d)
          BY <1>4, <4>3
        <5> QED BY <1>1, <3>1, <3>4, <4>1, <4>5, <4>6, <5>1
      <4>8. At(t, stop[j], d)
        BY <1>5, <4>3
      <4> QED BY <1>13, <3>1, <4>5, <4>7, <4>8, CloseOverlaps
    <3>6. i # m
      <4>1. p + Len(d) <= n
        BY <3>1 DEF At, n
      <4> QED BY <1>1, <1>2, <3>1, <3>5, <4>1
    <3>7. i \in few
      BY <1>2, <3>4, <3>6
    <3> QED BY <3>5, <3>7 DEF f
  <2> HIDE DEF few
  <2>2. f \in [few -> places]
    BY <1>11 DEF Injection
  <2> QED BY <2>1, <2>2, Zenon DEF Surjection
<1>14. 1 + Cardinality(places) >= m
  BY <1>2, <1>10, <1>12
<1>15. ~Overlaps(d) => 1 + Cardinality(places) = m
  BY <1>2, <1>10, <1>12, <1>13
<1> QED BY <1>14, <1>15 DEF places, m

-----------------------------------------------------------------------------
(* The string: turning round, trimming, growing. *)

\* left and right meet in the middle: the text is turned round.
LEMMA SwappedIs ==
    ASSUME NEW S, NEW t \in Seq(S)
    PROVE  Swapped(t) = Reverse(t)
<1> DEFINE n == Len(t)
           f == [k \in 0 .. n |->
                   [x \in 1 .. n |-> IF x <= k \/ x > n - k THEN t[n + 1 - x] ELSE t[x]]]
           swap(g, k) == [g EXCEPT ![k] = g[n - k + 1], ![n - k + 1] = g[k]]
           All(g) == g = [k \in 0 .. Len(t) |->
            IF k = 0 THEN t
            ELSE LET left == k - 1
                     right == Len(t) - k
                 IN  IF left < right
                     THEN [g[k - 1] EXCEPT ![left + 1] = g[k - 1][right + 1],
                                           ![right + 1] = g[k - 1][left + 1]]
                     ELSE g[k - 1]]
           r == CHOOSE g : All(g)
           value(g, k) ==
            IF k = 0 THEN t
            ELSE LET left == k - 1
                     right == n - k
                 IN  IF left < right
                     THEN [g[k - 1] EXCEPT ![left + 1] = g[k - 1][right + 1],
                                           ![right + 1] = g[k - 1][left + 1]]
                     ELSE g[k - 1]
<1>1. n \in Nat
  BY LenProperties
<1>2. t = [x \in 1 .. n |-> t[x]]
  OBVIOUS
<1> HIDE DEF n
<1>3. ASSUME NEW k \in 0 .. n
      PROVE  f[k] = [x \in 1 .. n |-> IF x <= k \/ x > n - k THEN t[n + 1 - x] ELSE t[x]]
  OBVIOUS
<1>4. f[0] = t
  <2>1. 0 \in 0 .. n /\ \A x \in 1 .. n : ~(x <= 0 \/ x > n - 0)
    BY <1>1
  <2>2. f[0] = [x \in 1 .. n |-> t[x]]
    BY <1>3, <2>1
  <2> QED BY <1>2, <2>2
<1> HIDE DEF f
<1>5. ASSUME NEW k \in 1 .. n PROVE f[k] = value(f, k)
  <2> DEFINE g == f[k - 1]
             h == f[k]
  <2>1. k \in Nat /\ k # 0 /\ k \in 0 .. n /\ k - 1 \in 0 .. n /\ k - 1 + 1 = k
    BY <1>1
  <2>2. g = [x \in 1 .. n |-> IF x <= k - 1 \/ x > n - (k - 1) THEN t[n + 1 - x] ELSE t[x]]
    BY <1>3, <2>1
  <2>3. h = [x \in 1 .. n |-> IF x <= k \/ x > n - k THEN t[n + 1 - x] ELSE t[x]]
    BY <1>3, <2>1
  <2> HIDE DEF g, h
  <2>4. CASE k - 1 < n - k
    <3> DEFINE i == n - k + 1
               u == [g EXCEPT ![k] = g[i], ![i] = g[k]]
    <3>1. i \in 1 .. n /\ k < i /\ n + 1 - k = i /\ n + 1 - i = k
      BY <1>1, <2>4
    <3>2. g[k] = t[k] /\ g[i] = t[i]
      <4>1. ~(k <= k - 1 \/ k > n - (k - 1)) /\ ~(i <= k - 1 \/ i > n - (k - 1))
        BY <1>1, <2>4
      <4> HIDE DEF i
      <4> QED BY <2>2, <3>1, <4>1
    <3> HIDE DEF i
    <3>3. ASSUME NEW x \in 1 .. n PROVE u[x] = h[x]
      <4>1. u[x] = IF x = i THEN g[k] ELSE IF x = k THEN g[i] ELSE g[x]
        BY <2>2, <3>1
      <4> HIDE DEF u
      <4>2. h[x] = IF x <= k \/ x > n - k THEN t[n + 1 - x] ELSE t[x]
        BY <2>3
      <4>3. g[x] = IF x <= k - 1 \/ x > n - (k - 1) THEN t[n + 1 - x] ELSE t[x]
        BY <2>2
      <4>4. CASE x = i
        <5>1. i > n - k
          BY <1>1 DEF i
        <5> QED BY <3>1, <3>2, <4>1, <4>2, <4>4, <5>1
      <4>5. CASE x = k
        <5>1. k <= k /\ k # i
          BY <2>1, <3>1
        <5> QED BY <3>1, <3>2, <4>1, <4>2, <4>5, <5>1
      <4>6. CASE x # i /\ x # k
        <5>1. (x <= k \/ x > n - k) <=> (x <= k - 1 \/ x > n - (k - 1))
          BY <1>1, <4>6 DEF i
        <5> QED BY <4>1, <4>2, <4>3, <4>6, <5>1
      <4> QED BY <4>4, <4>5, <4>6
    <3>4. u = [x \in 1 .. n |-> u[x]]
      <4> DEFINE T == 1 .. n
                 v(y) == IF y <= k - 1 \/ y > n - (k - 1) THEN t[n + 1 - y] ELSE t[y]
      <4>1. g = [x \in T |-> v(x)]
        BY <2>2
      <4> HIDE DEF T, v
      <4>2. DOMAIN g = T
        BY <4>1
      <4>3. u = [x \in T |-> u[x]]
        BY <4>2
      <4> QED BY <4>3 DEF T
    <3> HIDE DEF u
    <3>7. h = [x \in 1 .. n |-> h[x]]
      BY <2>3
    <3>5. u = h
      BY <3>3, <3>4, <3>7
    <3>6. value(f, k) = [g EXCEPT ![k] = g[n - k + 1], ![n - k + 1] = g[k]]
      BY <2>1, <2>4, Zenon DEF g
    <3> QED BY <3>5, <3>6, Zenon DEF u, i, h
  <2>5. CASE ~(k - 1 < n - k)
    <3>1. ASSUME NEW x \in 1 .. n PROVE g[x] = h[x]
      <4>2. h[x] = IF x <= k \/ x > n - k THEN t[n + 1 - x] ELSE t[x]
        BY <2>3
      <4>3. g[x] = IF x <= k - 1 \/ x > n - (k - 1) THEN t[n + 1 - x] ELSE t[x]
        BY <2>2
      <4>4. CASE x <= k - 1 \/ x > n - (k - 1)
        <5>1. x <= k \/ x > n - k
          BY <1>1, <4>4
        <5> QED BY <4>2, <4>3, <4>4, <5>1
      <4>5. CASE ~(x <= k - 1 \/ x > n - (k - 1))
        <5>1. n + 1 - x = x /\ (x <= k \/ x > n - k)
          BY <1>1, <2>5, <4>5
        <5> QED BY <4>2, <4>3, <4>5, <5>1
      <4> QED BY <4>4, <4>5
    <3>2. g = [x \in 1 .. n |-> g[x]] /\ h = [x \in 1 .. n |-> h[x]]
      BY <2>2, <2>3
    <3>3. g = h
      BY <3>1, <3>2
    <3> QED BY <2>1, <2>5, <3>3, Zenon DEF g, h
  <2> QED BY <2>4, <2>5
<1>6. f = [k \in 0 .. n |-> value(f, k)]
  <2>1. ASSUME NEW k \in 0 .. n PROVE f[k] = value(f, k)
    <3>1. k # 0 => k \in 1 .. n
      BY <1>1
    <3> HIDE DEF value
    <3>2. value(f, 0) = t
      BY Zenon DEF value
    <3> QED BY <1>4, <1>5, <3>1, <3>2
  <2>2. f = [k \in 0 .. n |-> f[k]]
    BY DEF f
  <2> HIDE DEF value
  <2> QED BY <2>1, <2>2
<1>7. All(f)
  BY <1>6, Zenon DEF n
<1>8. All(r)
  BY <1>7, Zenon
<1>9. Swapped(t) = r[n]
  BY Zenon DEF Swapped, n
<1> HIDE DEF r
<1>10. r = [k \in 0 .. n |-> value(r, k)]
  BY <1>8, Zenon DEF n
<1>11. ASSUME NEW k \in 0 .. n PROVE r[k] = value(r, k)
  <2> HIDE DEF value
  <2> QED BY <1>10
<1> DEFINE Good == {k \in Nat : r[k] = f[k]}
<1>12. 0 \in Good
  <2>1. 0 \in 0 .. n
    BY <1>1
  <2>2. r[0] = t
    BY <1>11, <2>1
  <2> QED BY <1>4, <2>2
<1>13. ASSUME NEW k \in 1 .. n, k - 1 \in Good PROVE k \in Good
  <2>1. k \in 0 .. n /\ k \in Nat /\ k # 0
    BY <1>1
  <2>2. r[k - 1] = f[k - 1]
    BY <1>13
  <2>3. value(r, k) = value(f, k)
    BY <2>1, <2>2, Zenon
  <2> HIDE DEF value
  <2> QED BY <1>5, <1>11, <2>1, <2>3
<1> HIDE DEF Good
<1>14. \A k \in 0 .. n : k \in Good
  BY <1>1, <1>12, <1>13, Upward
<1>15. r[n] = f[n]
  <2>1. n \in 0 .. n
    BY <1>1
  <2> QED BY <1>14, <2>1 DEF Good
<1>16. f[n] = [x \in 1 .. n |-> t[n - x + 1]]
  <2>1. n \in 0 .. n
    BY <1>1
  <2>2. f[n] = [x \in 1 .. n |-> IF x <= n \/ x > n - n THEN t[n + 1 - x] ELSE t[x]]
    BY <1>3, <2>1 DEF f
  <2>3. ASSUME NEW x \in 1 .. n
        PROVE  (IF x <= n \/ x > n - n THEN t[n + 1 - x] ELSE t[x]) = t[n - x + 1]
    <3>1. x <= n /\ n + 1 - x = n - x + 1
      BY <1>1
    <3> QED BY <3>1
  <2> QED BY <2>2, <2>3
<1>17. Reverse(t) = [x \in 1 .. n |-> t[n - x + 1]]
  BY Zenon DEF Reverse, n
<1> QED BY <1>9, <1>15, <1>16, <1>17

\* The blanks in front go.
LEMMA TrimLeftIs ==
    ASSUME NEW S, NEW t \in Seq(S), NEW k \in 0 .. Len(t), \A j \in 1 .. k : t[j] \in Spaces,
           k < Len(t) => t[k + 1] \notin Spaces
    PROVE  TrimLeft(t) = SubSeq(t, 1 + k, Len(t))
<1> DEFINE n == Len(t)
           blank == {i \in DOMAIN t : \A j \in 1 .. i : t[j] \in Spaces}
<1>1. n \in Nat /\ k \in 0 .. n /\ DOMAIN t = 1 .. n
  BY LenProperties
<1> HIDE DEF n
<1>2. blank = 1 .. k
  <2>1. ASSUME NEW i \in 1 .. k PROVE i \in blank
    <3>1. i \in 1 .. n /\ \A j \in 1 .. i : j \in 1 .. k
      BY <1>1
    <3> QED BY <1>1, <3>1
  <2>2. ASSUME NEW i \in blank PROVE i \in 1 .. k
    <3>1. i \in 1 .. n /\ \A j \in 1 .. i : t[j] \in Spaces
      BY <1>1
    <3> SUFFICES ASSUME ~(i <= k) PROVE FALSE
      BY <1>1, <3>1
    <3>2. k < n /\ k + 1 \in 1 .. i
      BY <1>1, <3>1
    <3> QED BY <3>1, <3>2 DEF n
  <2> QED BY <2>1, <2>2
<1>3. Cardinality(1 .. k) = k
  <2>1. 1 \in Int /\ k \in Int /\ (IF 1 > k THEN 0 ELSE k - 1 + 1) = k
    BY <1>1
  <2> QED BY <2>1, FS_Interval
<1>4. Cardinality(blank) = k
  BY <1>2, <1>3
<1> QED BY <1>4, Zenon DEF TrimLeft

\* The blanks behind go.
LEMMA TrimRightIs ==
    ASSUME NEW S, NEW t \in Seq(S), NEW k \in 0 .. Len(t),
           \A j \in k + 1 .. Len(t) : t[j] \in Spaces, k > 0 => t[k] \notin Spaces
    PROVE  TrimRight(t) = SubSeq(t, 1, k)
<1> DEFINE n == Len(t)
           blank == {i \in DOMAIN t : \A j \in i .. Len(t) : t[j] \in Spaces}
<1>1. n \in Nat /\ k \in 0 .. n /\ DOMAIN t = 1 .. n
  BY LenProperties
<1> HIDE DEF n
<1>2. blank = k + 1 .. n
  <2>1. ASSUME NEW i \in k + 1 .. n PROVE i \in blank
    <3>1. i \in 1 .. n /\ \A j \in i .. n : j \in k + 1 .. n
      BY <1>1
    <3> QED BY <1>1, <3>1 DEF n
  <2>2. ASSUME NEW i \in blank PROVE i \in k + 1 .. n
    <3>1. i \in 1 .. n /\ \A j \in i .. n : t[j] \in Spaces
      BY <1>1 DEF n
    <3> SUFFICES ASSUME ~(k < i) PROVE FALSE
      BY <1>1, <3>1
    <3>2. k > 0 /\ k \in i .. n
      BY <1>1, <3>1
    <3> QED BY <3>1, <3>2
  <2> QED BY <2>1, <2>2
<1>3. Cardinality(k + 1 .. n) = n - k
  <2> DEFINE a == k + 1
  <2>1. a \in Int /\ n \in Int /\ (IF a > n THEN 0 ELSE n - a + 1) = n - k
    BY <1>1
  <2> HIDE DEF a
  <2>2. Cardinality(a .. n) = n - k
    BY <2>1, FS_Interval
  <2> QED BY <2>2 DEF a
<1>4. Len(t) - Cardinality(blank) = k
  <2>1. n - (n - k) = k
    BY <1>1
  <2> QED BY <1>2, <1>3, <2>1 DEF n
<1> QED BY <1>4, Zenon DEF TrimRight

\* The blanks in front and behind go, and nothing else.
LEMMA TrimmedIs ==
    ASSUME NEW S, NEW t \in Seq(S)
    PROVE  TrimRight(TrimLeft(t)) = WantedTrim(t) /\ WantedTrim(t) \in Seq(S)
<1> DEFINE n == Len(t)
           ink == {i \in DOMAIN t : t[i] \notin Spaces}
           none == <<>>
<1>1. n \in Nat /\ DOMAIN t = 1 .. n
  BY LenProperties
<1>2. ink \subseteq Nat /\ \A i \in ink : i \in 1 .. n /\ t[i] \notin Spaces
  BY <1>1
<1>3. CASE ink = {}
  <2>1. \A i \in 1 .. n : t[i] \in Spaces
    BY <1>1, <1>3
  <2>2. TrimLeft(t) = none
    <3> DEFINE k == n
    <3>1. k \in 0 .. Len(t) /\ (k < Len(t) => t[k + 1] \notin Spaces)
      BY <1>1
    <3> HIDE DEF k
    <3>2. TrimLeft(t) = SubSeq(t, 1 + k, Len(t))
      BY <2>1, <3>1, TrimLeftIs DEF k
    <3> DEFINE m == 1 + k
    <3>3. m \in Int /\ n \in Int /\ n < m
      BY <1>1 DEF k
    <3> HIDE DEF m, n
    <3>4. SubSeq(t, m, n) = <<>>
      BY <3>3, SubSeqEmpty, Zenon
    <3> QED BY <3>2, <3>4 DEF m, n
  <2>3. TrimRight(none) = none
    <3>1. none \in Seq(S) /\ Len(none) = 0 /\ 0 \in 0 .. Len(none)
          /\ (\A j \in 0 + 1 .. Len(none) : none[j] \in Spaces) /\ (0 > 0 => none[0] \notin Spaces)
      OBVIOUS
    <3> DEFINE k == 0
    <3>2. k \in 0 .. Len(none) /\ (\A j \in k + 1 .. Len(none) : none[j] \in Spaces)
          /\ (k > 0 => none[k] \notin Spaces)
      BY <3>1
    <3> HIDE DEF none, k
    <3>3. TrimRight(none) = SubSeq(none, 1, k)
      BY <3>1, <3>2, TrimRightIs
    <3>4. SubSeq(none, 1, k) = <<>>
      <4>1. 1 \in Int /\ k \in Int /\ k < 1
        BY DEF k
      <4> QED BY <4>1, SubSeqEmpty, Zenon
    <3> QED BY <3>3, <3>4 DEF none
  <2>4. WantedTrim(t) = none
    BY <1>3, Zenon DEF WantedTrim
  <2>5. none \in Seq(S)
    OBVIOUS
  <2> HIDE DEF none
  <2> QED BY <2>2, <2>3, <2>4, <2>5
<1>4. CASE ink # {}
  <2>1. PICK a \in ink : \A j \in ink : a <= j
    BY <1>2, <1>4, HasLeast
  <2>2. \E z \in ink : \A j \in ink : z >= j
    <3> DEFINE T == {k \in Nat : n - k \in ink}
    <3>1. ASSUME NEW i \in ink PROVE n - i \in T
      <4>1. n - i \in Nat /\ n - (n - i) = i
        BY <1>1, <1>2
      <4> HIDE DEF ink
      <4> QED BY <4>1
    <3>2. T \subseteq Nat /\ T # {}
      BY <2>1, <3>1
    <3>3. PICK k \in T : \A j \in T : k <= j
      BY <3>2, HasLeast
    <3>4. k \in Nat /\ n - k \in ink
      BY <3>3
    <3> HIDE DEF T
    <3>5. ASSUME NEW j \in ink PROVE n - k >= j
      <4>1. k <= n - j
        BY <3>1, <3>3
      <4>2. j \in Nat
        BY <1>2
      <4> QED BY <1>1, <3>4, <4>1, <4>2
    <3> QED BY <3>4, <3>5
  <2>3. PICK z \in ink : \A j \in ink : z >= j
    BY <2>2
  <2>4. a \in 1 .. n /\ z \in 1 .. n /\ a <= z /\ t[a] \notin Spaces /\ t[z] \notin Spaces
    BY <1>2, <2>1, <2>3
  <2>5. (\A j \in 1 .. a - 1 : t[j] \in Spaces) /\ \A j \in z + 1 .. n : t[j] \in Spaces
    <3>1. ASSUME NEW j \in 1 .. a - 1 PROVE t[j] \in Spaces
      <4>1. j \in 1 .. n /\ ~(a <= j)
        BY <1>1, <2>4
      <4> QED BY <1>1, <2>1, <4>1
    <3>2. ASSUME NEW j \in z + 1 .. n PROVE t[j] \in Spaces
      <4>1. j \in 1 .. n /\ ~(z >= j)
        BY <1>1, <2>4
      <4> QED BY <1>1, <2>3, <4>1
    <3> QED BY <3>1, <3>2
  <2> DEFINE u == SubSeq(t, a, n)
             m == n - a + 1
             k == z - a + 1
  <2>6. u \in Seq(S) /\ Len(u) = m /\ \A i \in 1 .. m : u[i] = t[a + i - 1]
    <3>1. a \in Nat \ {0} /\ n \in Nat /\ a <= n + 1 /\ n <= Len(t)
      BY <1>1, <2>4
    <3> HIDE DEF n
    <3> QED BY <3>1, Part
  <2> HIDE DEF n
  <2>7. TrimLeft(t) = u
    <3> DEFINE b == a - 1
    <3>1. b \in 0 .. Len(t) /\ 1 + b = a /\ b + 1 = a
      BY <1>1, <2>4 DEF n
    <3>2. (\A j \in 1 .. b : t[j] \in Spaces) /\ (b < Len(t) => t[b + 1] \notin Spaces)
      BY <2>4, <2>5, <3>1
    <3> HIDE DEF b
    <3>3. TrimLeft(t) = SubSeq(t, 1 + b, Len(t))
      BY <3>1, <3>2, TrimLeftIs
    <3> QED BY <3>1, <3>3 DEF n
  <2> HIDE DEF u
  <2>8. TrimRight(u) = SubSeq(u, 1, k)
    <3>1. k \in 0 .. m /\ k \in 1 .. m /\ a + k - 1 = z
      BY <1>1, <2>4
    <3>2. ASSUME NEW j \in k + 1 .. m PROVE u[j] \in Spaces
      <4>1. j \in 1 .. m /\ a + j - 1 \in z + 1 .. n
        BY <1>1, <2>4
      <4> QED BY <2>5, <2>6, <4>1
    <3>3. u[k] \notin Spaces
      <4> HIDE DEF k, m
      <4> QED BY <2>4, <2>6, <3>1
    <3> HIDE DEF k
    <3> QED BY <2>6, <3>1, <3>2, <3>3, TrimRightIs
  <2> DEFINE v == SubSeq(u, 1, k)
             w == SubSeq(t, a, z)
  <2>9. v \in Seq(S) /\ Len(v) = k /\ \A i \in 1 .. k : v[i] = u[i]
    <3>1. k \in Nat /\ k <= Len(u)
      BY <1>1, <2>4, <2>6
    <3> HIDE DEF k
    <3> QED BY <2>6, <3>1, Beginning
  <2>10. w \in Seq(S) /\ Len(w) = k /\ \A i \in 1 .. k : w[i] = t[a + i - 1]
    <3>1. a \in Nat \ {0} /\ z \in Nat /\ a <= z + 1 /\ z <= Len(t)
      BY <1>1, <2>4 DEF n
    <3> QED BY <3>1, Part
  <2>11. v = w
    <3>1. \A i \in 1 .. k : i \in 1 .. m
      BY <1>1, <2>4
    <3> HIDE DEF v, w, k, m
    <3>2. \A i \in 1 .. k : v[i] = w[i]
      BY <2>6, <2>9, <2>10, <3>1
    <3> QED BY <2>9, <2>10, <3>2, SeqEqual
  <2>12. WantedTrim(t) = w
    <3> DEFINE first == CHOOSE i \in ink : \A j \in ink : i <= j
               last == CHOOSE i \in ink : \A j \in ink : i >= j
    <3>1. first \in ink /\ \A j \in ink : first <= j
      BY <2>1, Zenon
    <3>2. last \in ink /\ \A j \in ink : last >= j
      BY <2>3, Zenon
    <3>3. WantedTrim(t) = SubSeq(t, first, last)
      BY <1>4, Zenon DEF WantedTrim
    <3> HIDE DEF first, last, ink
    <3>4. first \in Nat /\ last \in Nat /\ a \in Nat /\ z \in Nat
          /\ first <= a /\ a <= first /\ last >= z /\ z >= last
      BY <1>2, <2>1, <2>3, <3>1, <3>2
    <3>5. first = a /\ last = z
      BY <3>4
    <3> QED BY <3>3, <3>5
  <2> QED BY <2>7, <2>8, <2>10, <2>11, <2>12, Zenon
<1> QED BY <1>3, <1>4

\* string_ensure_capacity doubles up to a capacity that is enough: MaxLength doublings are.
LEMMA EnoughIs ==
    ASSUME capacity \in Nat \ {0}, NEW required \in Nat, required <= MaxLength
    PROVE  Enough(required) \in Nat \ {0} /\ required <= Enough(required)
<1> DEFINE step == [x \in Nat |-> 2 * x]
           All(g) == g = [k \in 0 .. MaxLength |-> IF k = 0 THEN capacity ELSE 2 * g[k - 1]]
           r == CHOOSE g : All(g)
           enough == {k \in 0 .. MaxLength : required <= r[k]}
           first == CHOOSE k \in enough : \A j \in enough : k <= j
<1>1. MaxLength \in Nat
  BY SizesAssumption
<1>2. PICK f \in [0 .. MaxLength -> Nat] :
         f[0] = capacity /\ \A i \in 1 .. MaxLength : f[i] = step[f[i - 1]]
  <2> DEFINE a == capacity
             S == Nat
  <2>1. a \in S /\ step \in [S -> S]
    OBVIOUS
  <2> HIDE DEF step, a, S
  <2>2. \E f \in [0 .. MaxLength -> S] : Looped(f, a, step, MaxLength)
    BY <1>1, <2>1, TurnsFollow, Zenon
  <2> QED BY <2>2 DEF Looped, a, S
<1>3. ASSUME NEW k \in 0 .. MaxLength
      PROVE  f[k] = IF k = 0 THEN capacity ELSE 2 * f[k - 1]
  <2>1. CASE k = 0
    BY <1>2, <2>1
  <2>2. CASE k # 0
    <3>1. k \in 1 .. MaxLength /\ k - 1 \in 0 .. MaxLength
      BY <1>1, <2>2
    <3>2. f[k - 1] \in Nat
      BY <1>2, <3>1
    <3> QED BY <1>2, <2>2, <3>1, <3>2
  <2> QED BY <2>1, <2>2
<1>4. All(f)
  <2> DEFINE v(k) == IF k = 0 THEN capacity ELSE 2 * f[k - 1]
  <2> HIDE DEF v
  <2>1. \A k \in 0 .. MaxLength : f[k] = v(k)
    BY <1>3 DEF v
  <2>2. f = [k \in 0 .. MaxLength |-> v(k)]
    BY <1>2, <2>1
  <2> QED BY <2>2 DEF v
<1>5. All(r)
  BY <1>4, Zenon
<1>6. Enough(required) = r[first]
  BY Zenon DEF Enough
<1> HIDE DEF r
<1>7. ASSUME NEW k \in 0 .. MaxLength
      PROVE  r[k] = IF k = 0 THEN capacity ELSE 2 * r[k - 1]
  <2> DEFINE v(j) == IF j = 0 THEN capacity ELSE 2 * r[j - 1]
  <2>1. r = [j \in 0 .. MaxLength |-> v(j)]
    BY <1>5
  <2> HIDE DEF v
  <2>2. r[k] = v(k)
    BY <2>1
  <2> QED BY <2>2 DEF v
<1> DEFINE Good == {k \in Nat : r[k] \in Nat /\ r[k] >= k + 1}
<1>8. 0 \in Good
  <2>1. r[0] = capacity
    BY <1>1, <1>7
  <2> QED BY <2>1
<1>9. ASSUME NEW k \in 1 .. MaxLength, k - 1 \in Good PROVE k \in Good
  <2>1. k \in 0 .. MaxLength /\ k # 0 /\ k \in Nat
    BY <1>1
  <2>2. r[k] = 2 * r[k - 1]
    BY <1>7, <2>1
  <2> DEFINE x == r[k - 1]
  <2>3. x \in Nat /\ x >= k - 1 + 1
    BY <1>9
  <2> HIDE DEF x
  <2>4. 2 * x \in Nat /\ 2 * x >= k + 1
    <3>1. x >= k /\ k >= 1
      BY <1>1, <2>1, <2>3
    <3> QED BY <2>1, <2>3, <3>1
  <2> QED BY <2>1, <2>2, <2>4 DEF x
<1> HIDE DEF Good
<1>10. \A k \in 0 .. MaxLength : k \in Good
  BY <1>1, <1>8, <1>9, Upward
<1>11. \A k \in 0 .. MaxLength : r[k] \in Nat /\ r[k] >= k + 1 /\ k \in Nat
  BY <1>1, <1>10 DEF Good
<1>12. enough \subseteq Nat /\ MaxLength \in enough
  <2>1. MaxLength \in 0 .. MaxLength
    BY <1>1
  <2>2. required <= r[MaxLength]
    <3>1. r[MaxLength] \in Nat /\ r[MaxLength] >= MaxLength + 1
      BY <1>11, <2>1
    <3> QED BY <1>1, <3>1
  <2> QED BY <1>11, <2>1, <2>2
<1>13. first \in enough
  <2> HIDE DEF enough
  <2>1. \E k \in enough : \A j \in enough : k <= j
    BY <1>12, HasLeast
  <2> QED BY <2>1
<1> HIDE DEF first
<1>14. first \in 0 .. MaxLength /\ required <= r[first]
  BY <1>13
<1>15. r[first] \in Nat /\ r[first] >= first + 1 /\ first \in Nat
  BY <1>11, <1>14
<1>16. r[first] \in Nat \ {0}
  <2> DEFINE x == r[first]
  <2>1. x \in Nat /\ x >= first + 1 /\ first \in Nat
    BY <1>15
  <2> HIDE DEF x
  <2>2. x # 0
    BY <2>1
  <2> QED BY <2>1, <2>2 DEF x
<1> QED BY <1>6, <1>14, <1>16

-----------------------------------------------------------------------------
(* The string: the invariant. *)

\* A buffer that holds a text and the zero byte behind it.
Holds(d, t) == d = Append(t, NUL)

\* What a buffer holds: the text in front and the zero byte behind it.
LEMMA Behind ==
    ASSUME NEW t \in Seq(Chars), NEW d, Holds(d, t)
    PROVE  /\ Len(d) - 1 = Len(t) /\ SubSeq(d, 1, Len(d) - 1) = t
           /\ d[Len(t) + 1] = NUL /\ \A i \in 1 .. Len(t) : d[i] = t[i] /\ d[i] \in Chars
<1> DEFINE S == Chars \cup {NUL}
           n == Len(t)
           u == SubSeq(d, 1, n)
<1>1. n \in Nat /\ t \in Seq(S) /\ NUL \in S
  BY LenProperties
<1>2. /\ d \in Seq(S) /\ Len(d) = n + 1 /\ d[n + 1] = NUL
      /\ \A i \in 1 .. n : d[i] = t[i]
  <2> HIDE DEF S
  <2> QED BY <1>1, AppendProperties DEF Holds
<1>3. \A i \in 1 .. n : t[i] \in Chars
  BY ElementOfSeq
<1> HIDE DEF S, n
<1>4. n + 1 - 1 = n /\ n <= n + 1
  BY <1>1
<1>5. u = t
  <2>1. u \in Seq(S) /\ Len(u) = n /\ \A i \in 1 .. n : u[i] = d[i]
    BY <1>1, <1>2, <1>4, Beginning
  <2> HIDE DEF u
  <2>2. Len(u) = Len(t) /\ \A i \in 1 .. Len(t) : u[i] = t[i]
    BY <1>2, <2>1 DEF n
  <2> QED BY <1>1, <2>1, <2>2, SeqEqual
<1> QED BY <1>2, <1>3, <1>4, <1>5 DEF n

\* What a split promises of its parts, and of the number it tells.
SplitPromise(t, d, parts, n) ==
    /\ string_join(parts, d) = t
    /\ \A i \in DOMAIN parts : \A j \in 0 .. Len(t) : ~At(parts[i], j, d)
    /\ n >= Len(parts)
    /\ Overlaps(d) \/ n = Len(parts)
    /\ FindIn(t, d) = IF Len(parts) = 1 THEN -1 ELSE Len(parts[1])

\* What a call promises that leaves the text t where it should leave w.
Promise(t, w, r, wanted) ==
    /\ r.of \notin {"smear", "wrapped"} => t = w
    /\ r.of = "smear" => t # <<>>
    /\ r.of = "wrapped" => Len(t) > Len(r.by) /\ IsPrefix(w, t)
    /\ r.of = "split" => SplitPromise(t, r.by, r.parts, r.n)
    /\ r.of = "substring" => r.parts = wanted
    /\ r.of = "replace" => ~(Len(w) < Len(r.by))
    /\ r.of # "number"

\* The invariant: a text is held, and every call gave what it promised, until one left the
\* buffer or read one that was freed.
StringInv ==
    /\ \E t \in Seq(Chars) : Holds(data, t)
    /\ capacity \in Nat \ {0} /\ len <= capacity /\ len <= SIZE_MAX
    /\ outcome = "defined" =>
          /\ ret.of \notin {"smear", "wrapped"} => Text = want.text
          /\ ret.of = "smear" => Text # <<>>
          /\ ret.of = "wrapped" => Len(Text) > Len(ret.by) /\ IsPrefix(want.text, Text)
          /\ ret.of = "split" => SplitPromise(Text, ret.by, ret.parts, ret.n)
          /\ ret.of = "substring" => ret.parts = want.parts
    /\ ReplaceStaysInside
    /\ NumbersComeBack

\* A call that gives a text, and what it promises, keeps the invariant.
LEMMA GivesKeeps ==
    ASSUME StringInv, NEW t \in Seq(Chars), NEW w, NEW r, NEW wanted, outcome = "defined",
           Gives(t, w, r, wanted), Promise(t, w, r, wanted)
    PROVE  StringInv'
<1>1. /\ Len(t) <= MaxLength /\ Holds(data', t) /\ capacity' = Enough(Len(t))
      /\ want' = [text |-> w, parts |-> wanted] /\ ret' = r /\ outcome' = outcome
  BY DEF Gives, Holds
<1>2. len' = Len(t) /\ Text' = t
  <2>1. Len(data') - 1 = Len(t) /\ SubSeq(data', 1, Len(data') - 1) = t
    BY <1>1, Behind
  <2> QED BY <2>1 DEF len, Text
<1>3. capacity' \in Nat \ {0} /\ len' <= capacity' /\ len' <= SIZE_MAX
  <2>1. capacity \in Nat \ {0}
    BY DEF StringInv
  <2>2. Len(t) \in Nat
    BY LenProperties
  <2> DEFINE n == Len(t)
  <2>3. n \in Nat /\ n <= MaxLength
    BY <1>1, <2>2
  <2> HIDE DEF n
  <2>4. Enough(n) \in Nat \ {0} /\ n <= Enough(n)
    BY <2>1, <2>3, EnoughIs
  <2>5. n <= SIZE_MAX
    BY <2>3, SizesAssumption
  <2> QED BY <1>1, <1>2, <2>4, <2>5 DEF n
<1>4. want'.text = w /\ want'.parts = wanted
  BY <1>1
<1>5. /\ (ret.of = "smear" => Text # <<>>)'
      /\ (ret.of \notin {"smear", "wrapped"} => Text = want.text)'
      /\ (ret.of = "wrapped" => Len(Text) > Len(ret.by) /\ IsPrefix(want.text, Text))'
  BY <1>1, <1>2, <1>4 DEF Promise
<1>6. (ret.of = "split" => SplitPromise(Text, ret.by, ret.parts, ret.n))'
  BY <1>1, <1>2, Zenon DEF Promise
<1>7. (ret.of = "substring" => ret.parts = want.parts)'
  BY <1>1, <1>4 DEF Promise
<1>8. ReplaceStaysInside'
  BY <1>1, <1>4 DEF Promise, ReplaceStaysInside
<1>9. NumbersComeBack'
  BY <1>1 DEF Promise, NumbersComeBack
<1>10. (\E x \in Seq(Chars) : Holds(data, x))'
  BY <1>1
<1> QED BY <1>3, <1>5, <1>6, <1>7, <1>8, <1>9, <1>10, Zenon DEF StringInv

\* Most calls only change the text.
LEMMA BecomesKeeps ==
    ASSUME StringInv, NEW t \in Seq(Chars), outcome = "defined", Becomes(t, t)
    PROVE  StringInv'
<1>1. Promise(t, t, Nothing, <<>>)
  BY DEF Promise, Nothing
<1> QED BY <1>1, GivesKeeps DEF Becomes

\* A call whose outcome is undefined changes nothing else.
LEMMA UndefinedKeeps ==
    ASSUME StringInv, Undefined
    PROVE  StringInv'
<1>1. outcome' = "undefined" /\ ret' = Nothing /\ data' = data /\ capacity' = capacity
  BY DEF Undefined
<1>2. (\E x \in Seq(Chars) : Holds(data, x))' /\ (capacity \in Nat \ {0} /\ len <= capacity /\ len <= SIZE_MAX)'
  BY <1>1 DEF StringInv, len
<1>3. ReplaceStaysInside' /\ NumbersComeBack'
  BY <1>1 DEF ReplaceStaysInside, NumbersComeBack, Nothing
<1>4. ~(outcome' = "defined")
  BY <1>1
<1> QED BY <1>2, <1>3, <1>4, Zenon DEF StringInv

\* The invariant says what the three properties say.
LEMMA StringInvGives ==
    ASSUME StringInv
    PROVE  TextAsPromised /\ ReplaceStaysInside /\ NumbersComeBack
<1>1. PICK t \in Seq(Chars) : Holds(data, t)
  BY DEF StringInv
<1>2. len = Len(t) /\ Text = t /\ data[len + 1] = NUL /\ \A i \in 1 .. len : data[i] \in Chars
  <2>1. /\ Len(data) - 1 = Len(t) /\ SubSeq(data, 1, Len(data) - 1) = t
        /\ data[Len(t) + 1] = NUL /\ \A i \in 1 .. Len(t) : data[i] \in Chars
    BY <1>1, Behind
  <2> QED BY <2>1 DEF len, Text
<1>3. len <= capacity /\ ReplaceStaysInside /\ NumbersComeBack
  BY DEF StringInv
<1>4. \A d : string_find(d) = FindIn(Text, d)
  <2> TAKE d
  <2> DEFINE T == {i \in 0 .. len - Len(d) : At(Text, i, d)}
             U == {i \in 0 .. Len(Text) - Len(d) : At(Text, i, d)}
             found(n, places) == IF d = <<>> \/ Len(d) > n \/ places = {} THEN -1
                                 ELSE CHOOSE i \in places : \A j \in places : i <= j
  <2>1. len = Len(Text)
    BY <1>2
  <2>2. T = U
    BY <2>1
  <2>3. string_find(d) = found(len, T)
    BY Zenon DEF string_find
  <2>4. FindIn(Text, d) = found(Len(Text), U)
    BY Zenon DEF FindIn
  <2> HIDE DEF found, T, U
  <2> QED BY <2>1, <2>2, <2>3, <2>4, Zenon
<1>5. ASSUME outcome = "defined"
      PROVE  /\ ret.of \notin {"smear", "wrapped"} => Text = want.text
             /\ ret.of = "wrapped" => Len(Text) > Len(ret.by) /\ IsPrefix(want.text, Text)
             /\ ret.of = "split" => SplitPromise(Text, ret.by, ret.parts, ret.n)
             /\ ret.of = "substring" => ret.parts = want.parts
  BY <1>5 DEF StringInv
<1>6. ASSUME outcome = "defined", ret.of = "split"
      PROVE  /\ string_join(ret.parts, ret.by) = Text
             /\ \A i \in DOMAIN ret.parts : \A j \in 0 .. len : ~At(ret.parts[i], j, ret.by)
             /\ ret.n >= Len(ret.parts)
             /\ Overlaps(ret.by) \/ ret.n = Len(ret.parts)
             /\ string_find(ret.by) = IF Len(ret.parts) = 1 THEN -1 ELSE Len(ret.parts[1])
  <2>1. SplitPromise(Text, ret.by, ret.parts, ret.n)
    BY <1>5, <1>6
  <2>2. len = Len(Text)
    BY <1>2
  <2> QED BY <1>4, <2>1, <2>2, Zenon DEF SplitPromise
<1>7. TextAsPromised
  BY <1>2, <1>3, <1>5, <1>6, Zenon DEF TextAsPromised
<1> QED BY <1>3, <1>7

\* The text there is, character by character.
LEMMA TextHeld ==
    ASSUME StringInv
    PROVE  /\ Text \in Seq(Chars) /\ len = Len(Text) /\ len \in Nat
           /\ \A i \in 1 .. len : data[i] = Text[i] /\ data[i] \in Chars
<1>1. PICK t \in Seq(Chars) : Holds(data, t)
  BY DEF StringInv
<1>2. /\ Len(data) - 1 = Len(t) /\ SubSeq(data, 1, Len(data) - 1) = t
      /\ \A i \in 1 .. Len(t) : data[i] = t[i] /\ data[i] \in Chars
  BY <1>1, Behind
<1>3. Len(t) \in Nat
  BY LenProperties
<1> QED BY <1>1, <1>2, <1>3 DEF len, Text

\* An argument is a text.
LEMMA PatternIs ==
    ASSUME NEW str \in Patterns
    PROVE  str \in Seq(Chars)
BY DEF Patterns

\* A text with another put into it.
LEMMA InsertedType ==
    ASSUME NEW S, NEW t \in Seq(S), NEW str \in Seq(S), NEW pos \in 0 .. Len(t)
    PROVE  Inserted(t, pos, str) \in Seq(S) /\ Len(Inserted(t, pos, str)) = Len(t) + Len(str)
<1> DEFINE n == Len(t)
           a == SubSeq(t, 1, pos)
           m == pos + 1
           b == SubSeq(t, m, n)
<1>1. n \in Nat /\ pos \in Nat /\ pos <= n /\ Len(str) \in Nat
  BY LenProperties
<1>2. a \in Seq(S) /\ Len(a) = pos
  BY <1>1, Beginning
<1>3. b \in Seq(S) /\ Len(b) = n - pos
  <2>1. m \in Nat \ {0} /\ n <= n /\ m <= n + 1 /\ n - m + 1 = n - pos
    BY <1>1
  <2> HIDE DEF m
  <2>2. SubSeq(t, m, n) \in Seq(S) /\ Len(SubSeq(t, m, n)) = n - m + 1
    BY <1>1, <2>1, Part
  <2> QED BY <2>1, <2>2
<1>4. Inserted(t, pos, str) = a \o str \o b
  BY DEF Inserted
<1> HIDE DEF a, b, m, n
<1>5. a \o str \in Seq(S) /\ Len(a \o str) = pos + Len(str)
  BY <1>2, ConcatProperties
<1> DEFINE u == a \o str
<1>6. u \in Seq(S) /\ Len(u) = pos + Len(str)
  BY <1>5
<1> HIDE DEF u
<1>7. u \o b \in Seq(S) /\ Len(u \o b) = Len(u) + Len(b)
  BY <1>3, <1>6, ConcatProperties
<1>8. Len(u) + Len(b) = n + Len(str)
  BY <1>1, <1>3, <1>6
<1> QED BY <1>4, <1>7, <1>8 DEF u, n

\* string_append, string_append_n and string_append_char keep the invariant.
LEMMA AppendKeeps ==
    ASSUME StringInv, outcome = "defined", NEW str \in Seq(Chars), string_append(str)
    PROVE  StringInv'
<1>1. Text \in Seq(Chars)
  BY TextHeld
<1>2. Text \o str \in Seq(Chars)
  BY <1>1, ConcatProperties
<1> DEFINE t == Text \o str
<1>3. t \in Seq(Chars) /\ Becomes(t, t)
  BY <1>2 DEF string_append
<1> HIDE DEF t
<1> QED BY <1>3, BecomesKeeps

\* string_insert keeps the invariant.
LEMMA InsertKeeps ==
    ASSUME StringInv, outcome = "defined", NEW str \in Seq(Chars), NEW pos \in 0 .. len + 1,
           string_insert(pos, str)
    PROVE  StringInv'
<1> DEFINE at == IF pos > len THEN len ELSE pos
           t == Inserted(Text, at, str)
<1>1. Text \in Seq(Chars) /\ len = Len(Text) /\ len \in Nat
  BY TextHeld
<1>2. at \in 0 .. Len(Text)
  BY <1>1
<1>3. t \in Seq(Chars)
  <2> HIDE DEF at
  <2> QED BY <1>1, <1>2, InsertedType
<1>4. Becomes(t, t)
  BY DEF string_insert
<1> HIDE DEF t
<1> QED BY <1>3, <1>4, BecomesKeeps

\* Inserting the own data keeps the invariant: where the copy differs from the text it
\* is a smear, or growing has freed what it reads.
LEMMA InsertOwnKeeps ==
    ASSUME StringInv, outcome = "defined", NEW pos \in 0 .. len + 1, InsertOwn(pos)
    PROVE  StringInv'
<1> DEFINE at == IF pos > len THEN len ELSE pos
           char(i) == IF at = 0 THEN Text[i] ELSE Text[((i - 1) % at) + 1]
           copied == [i \in 1 .. len |-> char(i)]
           t == Inserted(Text, at, copied)
           w == Inserted(Text, at, Text)
           r == [Nothing EXCEPT !.of = IF copied = Text THEN "" ELSE "smear"]
<1>1. Text \in Seq(Chars) /\ len = Len(Text) /\ len \in Nat
  BY TextHeld
<1>2. at \in 0 .. Len(Text)
  BY <1>1
<1>3. copied \in Seq(Chars) /\ Len(copied) = len
  <2>1. ASSUME NEW i \in 1 .. len PROVE char(i) \in Chars
    <3>1. CASE at = 0
      BY <1>1, <3>1, ElementOfSeq
    <3>2. CASE at # 0
      <4> DEFINE x == (i - 1) % at
                 k == x + 1
      <4>1. k \in 1 .. len
        <5>1. at \in Nat \ {0} /\ i - 1 \in Int /\ at <= len
          BY <1>1, <1>2, <3>2
        <5> DEFINE y == i - 1
        <5>2. y \in Int
          BY <5>1
        <5> HIDE DEF at, y
        <5>3. y % at \in 0 .. at - 1
          BY <5>1, <5>2
        <5>4. x \in 0 .. at - 1
          BY <5>3 DEF y
        <5> HIDE DEF x
        <5> QED BY <1>1, <5>1, <5>4
      <4> HIDE DEF k
      <4>2. Text[k] \in Chars
        BY <1>1, <4>1, ElementOfSeq
      <4> QED BY <3>2, <4>2 DEF k
    <3> QED BY <3>1, <3>2
  <2> HIDE DEF char
  <2> QED BY <1>1, <2>1
<1>4. t \in Seq(Chars) /\ Len(t) = len + len
  <2> HIDE DEF at, copied
  <2> QED BY <1>1, <1>2, <1>3, InsertedType, ZenonT(60)
<1>5. Gives(t, w, r, <<>>) \/ Undefined
  BY Zenon DEF InsertOwn
<1>6. CASE Undefined
  BY <1>6, UndefinedKeeps
<1>7. CASE Gives(t, w, r, <<>>)
  <2>1. r.of = (IF copied = Text THEN "" ELSE "smear")
    BY DEF Nothing
  <2>2. copied = Text => t = w
    OBVIOUS
  <2>3. copied # Text => t # <<>>
    <3> SUFFICES ASSUME copied # Text PROVE t # <<>>
      OBVIOUS
    <3>1. len # 0
      <4> SUFFICES ASSUME len = 0 PROVE FALSE
        OBVIOUS
      <4>1. Len(copied) = 0 /\ Len(Text) = 0
        BY <1>1, <1>3
      <4> HIDE DEF copied
      <4>2. copied = <<>> /\ Text = <<>>
        BY <1>1, <1>3, <4>1, EmptySeq
      <4> QED BY <4>2
    <3>2. Len(t) # 0
      <4> HIDE DEF t
      <4> QED BY <1>1, <1>4, <3>1
    <3> HIDE DEF t
    <3> QED BY <3>2
  <2>4. r.of = "smear" \/ (r.of = "" /\ copied = Text)
    BY <2>1, Zenon
  <2>5. r.of = "smear" => copied # Text
    <3>1. "" # "smear"
      OBVIOUS
    <3> QED BY <2>1, <3>1, Zenon
  <2> HIDE DEF t, w, copied, r
  <2>6. Promise(t, w, r, <<>>)
    <3>1. CASE r.of = "smear"
      BY <2>3, <2>5, <3>1 DEF Promise
    <3>2. CASE r.of = "" /\ copied = Text
      BY <2>2, <3>2 DEF Promise
    <3> QED BY <2>4, <3>1, <3>2
  <2> QED BY <1>4, <1>7, <2>6, GivesKeeps
<1> QED BY <1>5, <1>6, <1>7

\* Appending the own data keeps the invariant.
LEMMA AppendOwnKeeps ==
    ASSUME StringInv, outcome = "defined", AppendOwn
    PROVE  StringInv'
<1>1. string_append(Text) \/ Undefined
  BY DEF AppendOwn
<1>2. Text \in Seq(Chars)
  BY TextHeld
<1> QED BY <1>1, <1>2, AppendKeeps, UndefinedKeeps

\* string_remove keeps the invariant.
LEMMA RemoveKeeps ==
    ASSUME StringInv, outcome = "defined", NEW start \in 0 .. len, NEW n \in 0 .. SIZE_MAX,
           string_remove(start, n)
    PROVE  StringInv'
<1> DEFINE end == Sum(start, n)
           to == IF end > len THEN len ELSE end
           a == SubSeq(Text, 1, start)
           b == SubSeq(Text, 1 + to, len)
           c == SubSeq(Text, start + n + 1, len)
           t == a \o b
           w == a \o c
           r == IF end < start THEN [Nothing EXCEPT !.of = "wrapped", !.by = Text] ELSE Nothing
<1>1. Text \in Seq(Chars) /\ len = Len(Text) /\ len \in Nat
  BY TextHeld
<1>2. start \in Nat /\ n \in Nat /\ start < len /\ SIZE_MAX \in Nat /\ len <= SIZE_MAX
      /\ n <= SIZE_MAX
  BY <1>1, SizesAssumption DEF string_remove, StringInv
<1>3. /\ end \in Nat
      /\ end < start => start + n > len
      /\ ~(end < start) => end = start + n
  BY <1>1, <1>2 DEF Sum
<1> HIDE DEF end
<1>4. to \in Nat /\ to <= len /\ (end < start => to = end)
      /\ (start + n > len => len < start + n + 1)
      /\ (~(end < start) => to = IF start + n > len THEN len ELSE start + n)
  BY <1>1, <1>2, <1>3
<1> HIDE DEF to
<1>5. a \in Seq(Chars) /\ Len(a) = start
  BY <1>1, <1>2, Beginning
<1>6. b \in Seq(Chars) /\ Len(b) = len - to
  <2> DEFINE k == 1 + to
  <2>1. k \in Nat \ {0} /\ k <= len + 1 /\ len <= Len(Text) /\ len - k + 1 = len - to
    BY <1>1, <1>4
  <2> HIDE DEF k
  <2>2. SubSeq(Text, k, len) \in Seq(Chars) /\ Len(SubSeq(Text, k, len)) = len - k + 1
    BY <1>1, <2>1, Part
  <2> QED BY <2>1, <2>2 DEF k
<1>7. start + n > len => c = <<>>
  <2> DEFINE k == start + n + 1
  <2>1. start + n > len => k \in Int /\ len \in Int /\ len < k
    BY <1>1, <1>2, <1>4
  <2> HIDE DEF k
  <2>2. start + n > len => SubSeq(Text, k, len) = <<>>
    BY <2>1, SubSeqEmpty, Zenon
  <2> QED BY <2>2, Zenon DEF k
<1>8. ~(end < start) => b = c
  <2>1. CASE start + n > len
    <3> DEFINE k == 1 + to
    <3>1. ~(end < start) => k \in Int /\ len \in Int /\ len < k
      BY <1>1, <1>4, <2>1
    <3> HIDE DEF k
    <3>2. ~(end < start) => SubSeq(Text, k, len) = <<>>
      BY <3>1, SubSeqEmpty, Zenon
    <3>3. ~(end < start) => b = <<>>
      BY <3>2, Zenon DEF k
    <3> QED BY <1>7, <2>1, <3>3, Zenon
  <2>2. CASE ~(start + n > len)
    <3>1. ~(end < start) => 1 + to = start + n + 1
      BY <1>2, <1>4, <2>2
    <3> QED BY <3>1
  <2> QED BY <2>1, <2>2
<1>9. Undefined \/ Gives(t, w, r, <<>>)
  BY Zenon DEF string_remove, end, to
<1> HIDE DEF b, c
<1>10. t \in Seq(Chars) /\ Len(t) = start + (len - to)
  <2>1. t \in Seq(Chars) /\ Len(t) = Len(a) + Len(b)
    BY <1>5, <1>6, ConcatProperties
  <2> QED BY <1>5, <1>6, <2>1
<1>11. CASE ~(end < start)
  <2>1. r = Nothing /\ t = w
    BY <1>8, <1>11, Zenon
  <2> HIDE DEF t, w, r
  <2>2. Undefined \/ Becomes(t, t)
    BY <1>9, <2>1, Zenon DEF Becomes
  <2> QED BY <1>10, <2>2, BecomesKeeps, UndefinedKeeps
<1>12. CASE end < start
  <2>1. Len(t) > Len(Text)
    <3>1. start + (len - to) > len
      BY <1>1, <1>2, <1>4, <1>12
    <3> HIDE DEF t
    <3> QED BY <1>1, <1>10, <3>1
  <2>2. w = a
    <3>1. c = <<>>
      BY <1>3, <1>7, <1>12
    <3> HIDE DEF a
    <3> QED BY <1>5, <3>1, ConcatEmptySeq
  <2>3. IsPrefix(w, t)
    <3>1. IsPrefix(a, t)
      <4> HIDE DEF a
      <4>1. Len(a) <= Len(a \o b) /\ SubSeq(a \o b, 1, Len(a)) = a /\ SubSeq(a, 1, Len(a)) = a
        BY <1>5, <1>6
      <4> QED BY <4>1 DEF IsPrefix
    <3> HIDE DEF a, t, w
    <3> QED BY <2>2, <3>1
  <2>4. r.of = "wrapped" /\ r.by = Text
    BY <1>12 DEF Nothing
  <2> HIDE DEF t, w, r
  <2>5. Promise(t, w, r, <<>>)
    BY <2>1, <2>3, <2>4 DEF Promise
  <2> QED BY <1>9, <1>10, <2>5, GivesKeeps, UndefinedKeeps
<1> QED BY <1>11, <1>12

\* Either way of ending, string_replace gives what it should and has left the buffer
\* exactly when too little is left.
ReplacePromise(t, from, wanted, r) ==
    /\ r.text \in Seq(Chars) /\ wanted = r.text
    /\ r.ends \in {"inside", "outside"}
    /\ r.ends = "outside" <=> Len(wanted) < Len(from)

\* What string_replace promises, whenever memory runs out.
LEMMA Replaces ==
    ASSUME NEW t \in Seq(Chars), NEW from \in Seq(Chars), NEW to \in Seq(Chars), from # <<>>,
           NEW room \in Int
    PROVE  LET r == ReplaceLoop(t, from, to, room)
               all == WantedReplace(t, from, to)
           IN  ReplacePromise(t, from, all[IF Len(all[Len(t)]) <= room THEN Len(t) ELSE r.n], r)
<1> DEFINE r == ReplaceLoop(t, from, to, room)
           n == Len(t)
           all == WantedReplace(t, from, to)
<1>1. \E w : WantedBy(Chars, t, from, to, w) /\ all = w[n]
  BY WantedIs
<1>2. PICK w : WantedBy(Chars, t, from, to, w) /\ all = w[n]
  BY <1>1
<1>3. ReplaceEnded(Chars, t, from, room, w, r)
  BY <1>2, ReplaceEnds
<1> HIDE DEF r, all, n
<1>4. /\ r.text \in Seq(Chars) /\ all[r.n] = r.text
      /\ Len(all[n]) <= room => all[n] = r.text
      /\ r.ends \in {"inside", "outside"}
      /\ r.ends = "outside" <=> Len(r.text) < Len(from)
  BY <1>2, <1>3, Zenon DEF ReplaceEnded, n
<1>5. all[IF Len(all[n]) <= room THEN n ELSE r.n] = r.text
  BY <1>4, Zenon
<1>6. ReplacePromise(t, from, all[IF Len(all[n]) <= room THEN n ELSE r.n], r)
  BY <1>4, <1>5, Zenon DEF ReplacePromise
<1> QED BY <1>6 DEF r, all, n

\* string_replace keeps the invariant.
LEMMA ReplaceKeeps ==
    ASSUME StringInv, outcome = "defined", NEW from \in Seq(Chars), NEW to \in Seq(Chars),
           string_replace(from, to)
    PROVE  StringInv'
<1>1. Text \in Seq(Chars) /\ len = Len(Text) /\ len \in Nat
  BY TextHeld
<1>2. from # <<>>
  BY DEF string_replace
<1> DEFINE all == WantedReplace(Text, from, to)
           Leads(most, told, wanted, r) ==
               \/ r.ends = "inside" /\ Gives(r.text, wanted, told, <<>>)
               \/ /\ r.ends # "inside"
                  /\ outcome' = "undefined"
                  /\ ret' = told
                  /\ want' = [text |-> wanted, parts |-> <<>>]
                  /\ UNCHANGED <<data, capacity>>
<1>3. MaxLength \in Nat /\ capacity \in Nat \ {0}
  BY SizesAssumption DEF StringInv
<1>4. PICK most \in 0 .. MaxLength :
        LET room == Enough(most)
            r == ReplaceLoop(Text, from, to, room)
            told == [Nothing EXCEPT !.of = "replace", !.n = r.n, !.by = from]
            wanted == all[IF Len(all[len]) <= room THEN len ELSE r.n]
        IN  Leads(most, told, wanted, r)
  <2>1. MaxLength \in 0 .. MaxLength
    BY <1>3
  <2>2. \E most \in IF Len(to) > Len(from) THEN 0 .. MaxLength ELSE {MaxLength} :
          LET room == Enough(most)
              r == ReplaceLoop(Text, from, to, room)
              told == [Nothing EXCEPT !.of = "replace", !.n = r.n, !.by = from]
              wanted == all[IF Len(all[len]) <= room THEN len ELSE r.n]
          IN  Leads(most, told, wanted, r)
    BY ZenonT(30) DEF string_replace
  <2> HIDE DEF Leads, all
  <2> QED BY <2>1, <2>2, Zenon
<1> DEFINE room == Enough(most)
           r == ReplaceLoop(Text, from, to, room)
           told == [Nothing EXCEPT !.of = "replace", !.n = r.n, !.by = from]
           wanted == all[IF Len(all[len]) <= room THEN len ELSE r.n]
<1>5. \/ r.ends = "inside" /\ Gives(r.text, wanted, told, <<>>)
      \/ /\ r.ends # "inside"
         /\ outcome' = "undefined"
         /\ ret' = told
         /\ want' = [text |-> wanted, parts |-> <<>>]
         /\ UNCHANGED <<data, capacity>>
  BY <1>4, Zenon
<1>6. room \in Int
  <2>1. most \in Nat /\ most <= MaxLength
    BY <1>3
  <2> QED BY <1>3, <2>1, EnoughIs
<1>7. ReplacePromise(Text, from, wanted, r)
  <2> DEFINE t == Text
  <2>1. t \in Seq(Chars) /\ Len(t) = len
    BY <1>1
  <2> HIDE DEF room, t, all
  <2>2. LET x == ReplaceLoop(t, from, to, room)
            y == WantedReplace(t, from, to)
        IN  ReplacePromise(t, from, y[IF Len(y[Len(t)]) <= room THEN Len(t) ELSE x.n], x)
    BY <1>2, <1>6, <2>1, Replaces
  <2> QED BY <2>1, <2>2, Zenon DEF t, all
<1>8. told.of = "replace" /\ told.by = from
  BY DEF Nothing
<1> HIDE DEF r, told, wanted
<1>9. CASE r.ends = "inside" /\ Gives(r.text, wanted, told, <<>>)
  <2>1. ~(Len(wanted) < Len(from))
    BY <1>7, <1>9 DEF ReplacePromise
  <2>2. Promise(r.text, wanted, told, <<>>)
    BY <1>7, <1>8, <2>1 DEF Promise, ReplacePromise
  <2>3. r.text \in Seq(Chars)
    BY <1>7 DEF ReplacePromise
  <2> DEFINE x == r.text
  <2>4. x \in Seq(Chars) /\ Gives(x, wanted, told, <<>>) /\ Promise(x, wanted, told, <<>>)
    BY <1>9, <2>2, <2>3
  <2> HIDE DEF x
  <2> QED BY <2>4, GivesKeeps
<1>10. CASE /\ r.ends # "inside"
            /\ outcome' = "undefined"
            /\ ret' = told
            /\ want' = [text |-> wanted, parts |-> <<>>]
            /\ UNCHANGED <<data, capacity>>
  <2>1. Len(wanted) < Len(from)
    BY <1>7, <1>10 DEF ReplacePromise
  <2>2. want'.text = wanted /\ ret'.by = from /\ ret'.of = "replace"
    BY <1>8, <1>10
  <2>3. ReplaceStaysInside'
    BY <1>10, <2>1, <2>2 DEF ReplaceStaysInside
  <2>4. NumbersComeBack'
    BY <2>2 DEF NumbersComeBack
  <2>5. (\E x \in Seq(Chars) : Holds(data, x))' /\ (capacity \in Nat \ {0} /\ len <= capacity /\ len <= SIZE_MAX)'
    BY <1>10 DEF StringInv, len
  <2>6. ~(outcome' = "defined")
    BY <1>10
  <2> QED BY <2>3, <2>4, <2>5, <2>6, Zenon DEF StringInv
<1> QED BY <1>5, <1>9, <1>10

\* string_clear keeps the invariant.
LEMMA ClearKeeps ==
    ASSUME StringInv, outcome = "defined", string_clear
    PROVE  StringInv'
<1> DEFINE t == <<>>
<1>1. t \in Seq(Chars) /\ Becomes(t, t)
  BY DEF string_clear
<1> HIDE DEF t
<1> QED BY <1>1, BecomesKeeps

\* string_trim keeps the invariant.
LEMMA TrimKeeps ==
    ASSUME StringInv, outcome = "defined", string_trim
    PROVE  StringInv'
<1> DEFINE t == WantedTrim(Text)
           u == Text
<1>1. u \in Seq(Chars)
  BY TextHeld
<1> HIDE DEF u
<1>2. TrimRight(TrimLeft(u)) = WantedTrim(u) /\ WantedTrim(u) \in Seq(Chars)
  BY <1>1, TrimmedIs
<1>3. t \in Seq(Chars) /\ Becomes(t, t)
  BY <1>2, Zenon DEF string_trim, u
<1> HIDE DEF t
<1> QED BY <1>3, BecomesKeeps

\* string_to_uppercase keeps the invariant.
LEMMA UppercaseKeeps ==
    ASSUME StringInv, outcome = "defined", string_to_uppercase
    PROVE  StringInv'
<1> DEFINE t == [i \in 1 .. len |-> UpperOf[data[i]]]
<1>1. len \in Nat /\ \A i \in 1 .. len : data[i] \in Chars
  BY TextHeld
<1>2. t \in Seq(Chars)
  BY <1>1, CharsAssumption
<1>3. Becomes(t, t)
  BY DEF string_to_uppercase
<1> HIDE DEF t
<1> QED BY <1>2, <1>3, BecomesKeeps

\* string_to_lowercase keeps the invariant.
LEMMA LowercaseKeeps ==
    ASSUME StringInv, outcome = "defined", string_to_lowercase
    PROVE  StringInv'
<1> DEFINE t == [i \in 1 .. len |-> LowerOf[data[i]]]
<1>1. len \in Nat /\ \A i \in 1 .. len : data[i] \in Chars
  BY TextHeld
<1>2. t \in Seq(Chars)
  BY <1>1, CharsAssumption
<1>3. Becomes(t, t)
  BY DEF string_to_lowercase
<1> HIDE DEF t
<1> QED BY <1>2, <1>3, BecomesKeeps

\* string_reverse keeps the invariant.
LEMMA ReverseKeeps ==
    ASSUME StringInv, outcome = "defined", string_reverse
    PROVE  StringInv'
<1> DEFINE u == Text
           t == Reverse(u)
<1>1. u \in Seq(Chars) /\ Len(u) \in Nat
  BY TextHeld
<1> HIDE DEF u
<1>2. Swapped(u) = Reverse(u)
  BY <1>1, SwappedIs
<1>3. t \in Seq(Chars)
  <2> DEFINE n == Len(u)
             char(i) == u[(n - i) + 1]
  <2>1. ASSUME NEW i \in 1 .. n PROVE char(i) \in Chars
    <3> DEFINE k == (n - i) + 1
    <3>1. k \in 1 .. n
      BY <1>1
    <3> HIDE DEF k
    <3>2. u[k] \in Chars
      BY <1>1, <3>1, ElementOfSeq
    <3> QED BY <3>2 DEF k
  <2>2. t = [i \in 1 .. n |-> char(i)]
    BY Zenon DEF Reverse
  <2> HIDE DEF char, t, n
  <2>3. n \in Nat
    BY <1>1 DEF n
  <2> QED BY <2>1, <2>2, <2>3
<1>4. CASE Undefined
  BY <1>4, UndefinedKeeps
<1>5. CASE Becomes(Swapped(Text), Reverse(Text))
  <2>1. Becomes(t, t)
    BY <1>2, <1>5 DEF u
  <2> HIDE DEF t
  <2> QED BY <1>3, <2>1, BecomesKeeps
<1> QED BY <1>4, <1>5 DEF string_reverse

\* string_repeat keeps the invariant.
LEMMA RepeatKeeps ==
    ASSUME StringInv, outcome = "defined", NEW n \in Nat, string_repeat(n)
    PROVE  StringInv'
<1> DEFINE u == Text
           ps == [i \in 1 .. n |-> u]
           t == FlattenSeq(ps)
<1>1. u \in Seq(Chars)
  BY TextHeld
<1> HIDE DEF u
<1>2. ps \in Seq(Seq(Chars)) /\ Len(ps) = n
  BY <1>1
<1> HIDE DEF ps
<1>3. t \in Seq(Chars)
  <2>1. \E m \in [0 .. Len(ps) -> Seq(Chars)] :
              /\ m[0] = <<>> /\ m[Len(ps)] = FlattenSeq(ps)
              /\ \A i \in 1 .. Len(ps) : m[i] = m[i - 1] \o ps[i]
    BY <1>2, FlattenSteps
  <2>2. PICK m \in [0 .. Len(ps) -> Seq(Chars)] : m[Len(ps)] = FlattenSeq(ps)
    BY <2>1
  <2>3. Len(ps) \in 0 .. Len(ps)
    BY <1>2
  <2> QED BY <2>2, <2>3
<1>4. Undefined \/ Becomes(t, t)
  BY Zenon DEF string_repeat, ps, u
<1> HIDE DEF t
<1> QED BY <1>3, <1>4, BecomesKeeps, UndefinedKeeps

\* string_pad_left and string_pad_right keep the invariant.
LEMMA PadKeeps ==
    ASSUME StringInv, outcome = "defined", NEW width \in Nat, NEW c \in Chars,
           string_pad_left(width, c) \/ string_pad_right(width, c)
    PROVE  StringInv'
<1> DEFINE p == Pad(width - len, c)
           l == p \o Text
           r == Text \o p
<1>1. Text \in Seq(Chars) /\ len \in Nat
  BY TextHeld
<1>2. len < width
  BY DEF string_pad_left, string_pad_right
<1>3. p \in Seq(Chars)
  <2> DEFINE k == width - len
  <2>1. k \in Nat
    BY <1>1, <1>2
  <2> HIDE DEF k
  <2>2. Pad(k, c) \in Seq(Chars)
    BY <2>1 DEF Pad
  <2> QED BY <2>2 DEF k
<1>4. Becomes(l, l) \/ Becomes(r, r)
  BY DEF string_pad_left, string_pad_right
<1> HIDE DEF p
<1>5. l \in Seq(Chars) /\ r \in Seq(Chars)
  BY <1>1, <1>3, ConcatProperties
<1> HIDE DEF l, r
<1> QED BY <1>4, <1>5, BecomesKeeps

\* What the splitting loop gives is what a split promises.
LEMMA SplitPromised ==
    ASSUME NEW t \in Seq(Chars), NEW d \in Seq(Chars), d # <<>>
    PROVE  SplitPromise(t, d, PartsOf(t, d), 1 + Cardinality(PlacesOf(t, d)))
<1> DEFINE parts == PartsOf(t, d)
           n == 1 + Cardinality(PlacesOf(t, d))
<1>1. \E c : Scanned(t, d, parts, c)
  BY SplitEnds
<1>2. PICK cut : Scanned(t, d, parts, cut)
  BY <1>1
<1> HIDE DEF parts
<1>3. \E stop : Stopped(t, d, parts, cut, stop)
  BY <1>2, ScannedStops
<1>4. PICK stop : Stopped(t, d, parts, cut, stop)
  BY <1>3
<1>5. parts \in Seq(Seq(Chars))
  BY SplitEnds DEF parts
<1>6. string_join(parts, d) = t
  BY <1>4, JoinGivesBack
<1>7. \A i \in DOMAIN parts : \A j \in 0 .. Len(t) : ~At(parts[i], j, d)
  <2> SUFFICES ASSUME NEW i \in DOMAIN parts, NEW j \in 0 .. Len(t) PROVE ~At(parts[i], j, d)
    OBVIOUS
  <2>1. i \in 1 .. Len(parts)
    BY <1>5, LenProperties
  <2>2. j \in Nat
    BY LenProperties
  <2> QED BY <1>4, <2>1, <2>2, PartsHoldNone
<1>8. n >= Len(parts) /\ (Overlaps(d) \/ n = Len(parts))
  BY <1>4, PlacesCounted
<1>9. FindIn(t, d) = IF Len(parts) = 1 THEN -1 ELSE Len(parts[1])
  BY <1>4, FoundFirst
<1> QED BY <1>6, <1>7, <1>8, <1>9, Zenon DEF SplitPromise, parts

\* string_split_str, and string_split, keep the invariant.
LEMMA SplitKeeps ==
    ASSUME StringInv, outcome = "defined", NEW d \in Seq(Chars), string_split_str(d)
    PROVE  StringInv'
<1> DEFINE parts == PartsOf(Text, d)
           n == 1 + Cardinality(PlacesOf(Text, d))
           r == [of |-> "split", n |-> n, parts |-> parts, by |-> d]
<1>1. Text \in Seq(Chars) /\ len = Len(Text)
  BY TextHeld
<1>2. d # <<>>
  BY DEF string_split_str
<1>3. Gives(Text, Text, r, parts)
  <2>1. PlacesOf(Text, d) = {i \in 0 .. len : At(Text, i, d)}
    BY <1>1 DEF PlacesOf
  <2> QED BY <2>1, Zenon DEF string_split_str
<1>4. SplitPromise(Text, d, parts, n)
  <2> DEFINE t == Text
  <2>1. t \in Seq(Chars)
    BY <1>1
  <2> HIDE DEF t
  <2>2. SplitPromise(t, d, PartsOf(t, d), 1 + Cardinality(PlacesOf(t, d)))
    BY <1>2, <2>1, SplitPromised
  <2> QED BY <2>2 DEF t
<1> HIDE DEF parts, n
<1>5. r.of = "split" /\ r.n = n /\ r.parts = parts /\ r.by = d
  OBVIOUS
<1> HIDE DEF r
<1>6. Promise(Text, Text, r, parts)
  BY <1>4, <1>5, Zenon DEF Promise
<1> DEFINE t == Text
<1>7. t \in Seq(Chars) /\ Gives(t, t, r, parts) /\ Promise(t, t, r, parts)
  BY <1>1, <1>3, <1>6
<1> HIDE DEF t
<1> QED BY <1>7, GivesKeeps

\* string_substring keeps the invariant.
LEMMA SubstringKeeps ==
    ASSUME StringInv, outcome = "defined", NEW start \in 0 .. len, NEW n \in 0 .. SIZE_MAX,
           string_substring(start, n)
    PROVE  StringInv'
<1> DEFINE end == Sum(start, n)
           to == IF end > len THEN len ELSE end
           upto == IF start + n > len THEN len ELSE start + n
           part == IF start >= len THEN <<>> ELSE SubSeq(Text, start + 1, to)
           wanted == SubSeq(Text, start + 1, upto)
           r == [of |-> "substring", n |-> 1, by |-> <<>>, parts |-> <<part>>]
<1>1. Text \in Seq(Chars) /\ len = Len(Text) /\ len \in Nat
  BY TextHeld
<1>2. start \in Nat /\ n \in Nat /\ start <= len /\ SIZE_MAX \in Nat /\ len <= SIZE_MAX
      /\ n <= SIZE_MAX
  BY <1>1, SizesAssumption DEF StringInv
<1>3. \/ Undefined
      \/ ~(start < len /\ end < start) /\ Gives(Text, Text, r, <<wanted>>)
  BY Zenon DEF string_substring
<1>4. CASE Undefined
  BY <1>4, UndefinedKeeps
<1>5. CASE ~(start < len /\ end < start) /\ Gives(Text, Text, r, <<wanted>>)
  <2>1. part = wanted
    <3>1. CASE start >= len
      <4> DEFINE k == start + 1
      <4>1. k \in Int /\ upto \in Int /\ upto < k
        BY <1>1, <1>2, <3>1
      <4> HIDE DEF k, upto
      <4>2. SubSeq(Text, k, upto) = <<>>
        BY <4>1, SubSeqEmpty, Zenon
      <4> QED BY <3>1, <4>2, Zenon DEF k
    <3>2. CASE ~(start >= len)
      <4>1. to = upto
        BY <1>1, <1>2, <1>5, <3>2 DEF Sum
      <4> HIDE DEF to, upto
      <4> QED BY <3>2, <4>1
    <3> QED BY <3>1, <3>2
  <2> HIDE DEF part, wanted
  <2>2. r.of = "substring" /\ r.parts = <<wanted>>
    BY <2>1
  <2>3. Gives(Text, Text, r, <<wanted>>)
    BY <1>5
  <2> HIDE DEF r
  <2> DEFINE ws == <<wanted>>
             t == Text
  <2>4. Promise(Text, Text, r, ws)
    BY <2>2 DEF Promise
  <2>5. t \in Seq(Chars) /\ Gives(t, t, r, ws) /\ Promise(t, t, r, ws)
    BY <1>1, <2>3, <2>4
  <2> HIDE DEF t, ws
  <2> QED BY <2>5, GivesKeeps
<1> QED BY <1>3, <1>4, <1>5

\* Writing a number keeps the invariant.
LEMMA NumberKeeps ==
    ASSUME StringInv, outcome = "defined", NEW v \in Signed(LONG_MAX), NumberWritten(v)
    PROVE  StringInv'
<1>1. /\ len = 0 /\ data' = data /\ capacity' = capacity /\ want' = want /\ outcome' = outcome
      /\ ret' = [of |-> "number", n |-> v, parts |-> <<string_from_long(v)>>, by |-> <<>>]
  BY DEF NumberWritten
<1>2. ret'.of = "number" /\ ret'.n = v /\ ret'.parts[1] = string_from_long(v)
  BY <1>1
<1>3. Text' = Text /\ len' = len
  BY <1>1 DEF Text, len
<1>4. Text = want.text
  <2>1. Text = <<>>
    <3>1. Text \in Seq(Chars) /\ Len(Text) = 0
      BY <1>1, TextHeld
    <3> DEFINE t == Text
    <3>2. t \in Seq(Chars) /\ Len(t) = 0
      BY <3>1
    <3> HIDE DEF t
    <3>3. t = <<>>
      BY <3>2, EmptySeq
    <3> QED BY <3>3 DEF t
  <2> QED BY <2>1 DEF StringInv
<1>5. NumbersComeBack'
  <2>1. ComesBack(v, string_from_long(v))
    BY LongComesBack
  <2> QED BY <1>2, <2>1, Zenon DEF NumbersComeBack, ComesBack
<1>6. ReplaceStaysInside'
  BY <1>2 DEF ReplaceStaysInside
<1>7. (\E x \in Seq(Chars) : Holds(data, x))' /\ (capacity \in Nat \ {0} /\ len <= capacity /\ len <= SIZE_MAX)'
  BY <1>1, <1>3 DEF StringInv
<1>8. /\ Text' = want'.text /\ ret'.of # "smear" /\ ret'.of # "wrapped"
      /\ ret'.of # "split" /\ ret'.of # "substring"
  BY <1>1, <1>2, <1>3, <1>4
<1> QED BY <1>5, <1>6, <1>7, <1>8, Zenon DEF StringInv

\* A new string.
LEMMA StringInitInv ==
    ASSUME StringInit
    PROVE  StringInv
<1>1. PICK str \in Patterns : string_new(str)
  BY DEF StringInit
<1>2. str \in Seq(Chars) /\ Holds(data, str)
  BY <1>1, PatternIs DEF string_new, Holds
<1>3. len = Len(str) /\ Text = str
  BY <1>2, Behind DEF len, Text
<1>4. capacity \in Nat \ {0} /\ len <= capacity /\ len <= SIZE_MAX
  <2> DEFINE n == Len(str)
  <2>1. n \in Nat /\ MIN_CAPACITY \in Nat \ {0}
    BY <1>2, LenProperties, SizesAssumption
  <2>2. capacity = IF n < MIN_CAPACITY THEN MIN_CAPACITY ELSE 2 * n
    BY <1>1 DEF string_new
  <2> HIDE DEF n
  <2>3. capacity \in Nat \ {0} /\ n <= capacity
    BY <2>1, <2>2
  <2>4. n <= SIZE_MAX
    <3>1. MaxPattern \in Nat /\ SIZE_MAX \in Nat /\ MaxPattern <= SIZE_MAX
      BY SizesAssumption
    <3>2. PICK k \in 0 .. MaxPattern : str \in [1 .. k -> Chars]
      BY <1>1 DEF Patterns
    <3>3. k \in Nat /\ k <= MaxPattern /\ Len(str) = k
      BY <3>1, <3>2
    <3> QED BY <3>1, <3>3 DEF n
  <2> QED BY <1>3, <2>3, <2>4 DEF n
<1>5. ret = Nothing /\ want.text = Text
  BY DEF StringInit
<1>6. ret.of = ""
  BY <1>5 DEF Nothing
<1>7. ReplaceStaysInside /\ NumbersComeBack
  BY <1>6 DEF ReplaceStaysInside, NumbersComeBack
<1>8. ret.of # "smear" /\ ret.of # "wrapped" /\ ret.of # "split" /\ ret.of # "substring"
  BY <1>6
<1> QED BY <1>2, <1>4, <1>5, <1>7, <1>8, Zenon DEF StringInv

\* Every call.
LEMMA StringStepInv ==
    ASSUME StringInv, [StringNext]_string_vars
    PROVE  StringInv'
<1>1. CASE UNCHANGED string_vars
  <2>1. /\ data' = data /\ capacity' = capacity /\ ret' = ret /\ want' = want
        /\ outcome' = outcome
    BY <1>1 DEF string_vars
  <2>2. ReplaceStaysInside' /\ NumbersComeBack'
    BY <2>1 DEF StringInv, ReplaceStaysInside, NumbersComeBack
  <2>3. len' = len /\ Text' = Text
    BY <2>1 DEF len, Text
  <2> QED BY <2>1, <2>2, <2>3, Zenon DEF StringInv
<1>2. ASSUME StringNext PROVE outcome = "defined"
  BY <1>2 DEF StringNext
<1>3. ASSUME StringNext, NEW str \in Patterns, string_append(str) PROVE StringInv'
  BY <1>2, <1>3, PatternIs, AppendKeeps
<1>4. ASSUME StringNext, NEW str \in Patterns, NEW pos \in 0 .. len + 1, string_insert(pos, str)
      PROVE  StringInv'
  BY <1>2, <1>4, PatternIs, InsertKeeps
<1>5. ASSUME StringNext, NEW str \in Patterns, NEW to \in Patterns, string_replace(str, to)
      PROVE  StringInv'
  BY <1>2, <1>5, PatternIs, ReplaceKeeps
<1>6. ASSUME StringNext, NEW str \in Patterns, string_split_str(str) PROVE StringInv'
  BY <1>2, <1>6, PatternIs, SplitKeeps
<1>7. ASSUME StringNext, NEW start \in 0 .. len, NEW n \in 0 .. SIZE_MAX,
             string_remove(start, n) \/ string_substring(start, n)
      PROVE  StringInv'
  BY <1>2, <1>7, RemoveKeeps, SubstringKeeps
<1>8. ASSUME StringNext, NEW n \in 2 .. SIZE_MAX, string_repeat(n) PROVE StringInv'
  <2>1. n \in Nat
    BY SizesAssumption
  <2> QED BY <1>2, <1>8, <2>1, RepeatKeeps
<1>9. ASSUME StringNext, NEW width \in 0 .. MaxLength, NEW c \in Chars,
             string_pad_left(width, c) \/ string_pad_right(width, c)
      PROVE  StringInv'
  <2>1. width \in Nat
    BY SizesAssumption
  <2> QED BY <1>2, <1>9, <2>1, PadKeeps
<1>10. ASSUME StringNext, NEW pos \in 0 .. len + 1, InsertOwn(pos) PROVE StringInv'
  BY <1>2, <1>10, InsertOwnKeeps
<1>11. ASSUME StringNext, NEW v \in Signed(LONG_MAX), NumberWritten(v) PROVE StringInv'
  BY <1>2, <1>11, NumberKeeps
<1>12. ASSUME StringNext, AppendOwn \/ string_clear \/ string_trim \/ string_to_uppercase
                          \/ string_to_lowercase \/ string_reverse
      PROVE  StringInv'
  BY <1>2, <1>12, AppendOwnKeeps, ClearKeeps, TrimKeeps, UppercaseKeeps, LowercaseKeeps, ReverseKeeps
<1>13. CASE StringNext
  BY <1>3, <1>4, <1>5, <1>6, <1>7, <1>8, <1>9, <1>10, <1>11, <1>12, <1>13, Zenon DEF StringNext
<1> QED BY <1>1, <1>13

\* For positions and lengths up to SIZE_MAX, and whenever memory runs out, until a call has
\* left the buffer or read one it has freed: the string is a text and the zero byte behind
\* it, in a buffer that holds it, and the last call gave what it promised; a removal whose
\* end runs over SIZE_MAX has made the text longer instead (string.c:191).
THEOREM StringInvariant == StringSpec => []StringInv
<1>1. StringInit => StringInv
  BY StringInitInv
<1>2. StringInv /\ [StringNext]_string_vars => StringInv'
  BY StringStepInv
<1> QED BY <1>1, <1>2, PTL DEF StringSpec

\* Until a call has left the buffer or read one it has freed, the text is what the calls of
\* string.c describe, but for the own data inserted in its own middle and for a removal
\* whose end runs over SIZE_MAX, which makes it longer; the parts of a split, joined, give
\* it back, none holds the delimiter, string_find agrees with where the first one ends, and
\* a substring is the part asked for that there is.
THEOREM TextKept == StringSpec => []TextAsPromised
<1>1. StringInv => TextAsPromised
  BY StringInvGives
<1> QED BY <1>1, StringInvariant, PTL

\* string_replace leaves the buffer exactly when what it should end with is shorter than
\* what it looks for.
THEOREM ReplacesInside == StringSpec => []ReplaceStaysInside
<1>1. StringInv => ReplaceStaysInside
  BY StringInvGives
<1> QED BY <1>1, StringInvariant, PTL

\* A long written as text and read back is the int of its low bits, whatever the widths of
\* int and long; only the smallest long is written as no number.
THEOREM NumbersRead == StringSpec => []NumbersComeBack
<1>1. StringInv => NumbersComeBack
  BY StringInvGives
<1> QED BY <1>1, StringInvariant, PTL
=============================================================================

------------------------------- MODULE Vector -------------------------------
(***************************************************************************)
(* vector.c: an array that moves to another buffer when it grows or        *)
(* shrinks, and a program that keeps a pointer vector_at gave it, hands it *)
(* back as the element of a call, and writes through it.                   *)
(*                                                                         *)
(* The heap gives the lowest free block; when there is none the call fails *)
(* and changes nothing, which is no step.  Indices count from 0, as in C.  *)
(* A buffer is counted in elements: MaxCount stands for a length whose     *)
(* product with elem_size size_t can hold, which vector_grow does not ask. *)
(***************************************************************************)
EXTENDS Integers, SequencesExt

CONSTANTS
    Elems,
    BLOCKS,         \* how many buffers the heap has room for
    MIN_CAPACITY,   \* 16 in vector.c
    MaxCount        \* bound: no vector longer than this is asked for

ASSUME SizesAssumption ==
    /\ BLOCKS \in Nat \ {0} /\ MIN_CAPACITY \in Nat \ {0} /\ MaxCount \in Nat

Blocks == 1 .. BLOCKS
Freed == <<>>
Unset == "unset"        \* a cell nobody has written yet

ASSUME ElementsAssumption == Unset \notin Elems

NoPointer == [block |-> 0, index |-> 0]

VARIABLES
    heap,       \* what each block holds: the cells of a buffer, or Freed
    data, count, capacity,
    held,       \* the pointer: a block and the position in it
    lost        \* ghost: buffers nobody points to any more

vector == <<heap, data, count, capacity>>
vars == <<heap, data, count, capacity, held, lost>>

Contents == SubSeq(heap[data], 1, count)

V == [heap |-> heap, data |-> data, count |-> count, capacity |-> capacity, lost |-> lost]

Becomes(v) ==
    /\ heap' = v.heap /\ data' = v.data
    /\ count' = v.count /\ capacity' = v.capacity
    /\ lost' = v.lost
    /\ UNCHANGED held

mm_alloc(n) == [i \in 1 .. n |-> Unset]
Room == \E b \in Blocks : heap[b] = Freed
FreeBlock == CHOOSE b \in Blocks : heap[b] = Freed /\ \A c \in Blocks : heap[c] = Freed => b <= c

Larger(m, n) == IF m < n THEN n ELSE m

\* The vector in a new buffer of n cells, and the old one freed or not.
Moved(n, free) ==
    LET copy == Contents \o mm_alloc(n - count)
    IN  [heap |-> [heap EXCEPT ![FreeBlock] = copy, ![data] = IF free THEN Freed ELSE @],
         data |-> FreeBlock,
         count |-> count,
         capacity |-> n,
         lost |-> IF free THEN lost ELSE lost \cup {data}]

\* Mutant: the buffer the elements were copied from is kept.
GrowKeep(min) ==
    IF capacity >= min THEN {V}
    ELSE IF ~Room THEN {}
    ELSE LET v == Moved(Larger(min, Larger(2 * capacity, MIN_CAPACITY)), TRUE)
         IN  {[v EXCEPT !.heap[data] = heap[data]]}

\* What vector_grow leaves, or nothing when it fails: the old buffer is freed only
\* together with the copying of its elements.
vector_grow(min) ==
    IF capacity >= min THEN {V}
    ELSE IF ~Room THEN {}
    ELSE {Moved(Larger(min, Larger(2 * capacity, MIN_CAPACITY)), count > 0)}

---------------------------------------------------------------------------
(* The element of a call: a variable of the program, or the cell the held  *)
(* pointer names, which is read when the call comes to copy it.  A freed   *)
(* or unset cell may read as anything.                                     *)

Values == [own : {FALSE}, elem : Elems]
Own == [own |-> TRUE]
Sources == Values \cup (IF held = NoPointer THEN {} ELSE {Own})

Deref(h) ==
    IF /\ held.index < Len(h[held.block])
       /\ h[held.block][held.index + 1] # Unset
    THEN {h[held.block][held.index + 1]}
    ELSE Elems

Read(src, h) == IF src.own THEN Deref(h) ELSE {src.elem}

Store(v, index, e) == [v EXCEPT !.heap[v.data][index + 1] = e]

\* Mutant: the vector grows while it still has a cell.
PushGrowsEarly(src) ==
    /\ count < MaxCount
    /\ \E v \in vector_grow(count + 2) :
          \E e \in Read(src, v.heap) :
             Becomes([Store(v, count, e) EXCEPT !.count = @ + 1])

vector_push(src) ==
    /\ count < MaxCount
    /\ \E v \in vector_grow(count + 1) :
          \E e \in Read(src, v.heap) :
             Becomes([Store(v, count, e) EXCEPT !.count = @ + 1])

\* Mutant: copied from the left, so that the first cell overwrites all behind it.
Smear(v, index) ==
    LET cells == v.heap[v.data]
    IN  [v EXCEPT !.heap[v.data] = SubSeq(cells, 1, index + 1)
                                      \o [i \in 1 .. count - index |-> cells[index + 1]]
                                      \o SubSeq(cells, count + 2, Len(cells))]

\* The cells from index on, moved one to the right.
OpenGap(v, index) ==
    LET cells == v.heap[v.data]
    IN  [v EXCEPT !.heap[v.data] = SubSeq(cells, 1, index + 1)
                                      \o SubSeq(cells, index + 1, count)
                                      \o SubSeq(cells, count + 2, Len(cells))]

vector_insert(index, src) ==
    /\ count < MaxCount
    /\ index <= count
    /\ \E v \in vector_grow(count + 1) :
          LET open == OpenGap(v, index)
          IN  \E e \in Read(src, open.heap) :
                 Becomes([Store(open, index, e) EXCEPT !.count = @ + 1])

vector_set(index, src) ==
    /\ index < count
    /\ \E e \in Read(src, heap) : Becomes(Store(V, index, e))

vector_pop == count > 0 /\ Becomes([V EXCEPT !.count = @ - 1])

\* The cells behind index, moved one to the left; the last stays where it was too.
CloseGap(index) ==
    LET cells == heap[data]
    IN  SubSeq(cells, 1, index) \o SubSeq(cells, index + 2, count)
           \o SubSeq(cells, count, Len(cells))

vector_remove(index) ==
    /\ index < count
    /\ Becomes([V EXCEPT !.heap[data] = CloseGap(index), !.count = @ - 1])

vector_clear == Becomes([V EXCEPT !.count = 0])

vector_reserve(n) == \E v \in vector_grow(n) : Becomes(v)

vector_shrink_to_fit ==
    /\ count > 0 /\ capacity # count
    /\ Room
    /\ Becomes(Moved(count, TRUE))

vector_at(index) ==
    /\ index < count
    /\ held' = [block |-> data, index |-> index]
    /\ UNCHANGED <<vector, lost>>

\* The program writes through its pointer, while that leads to a buffer.
Write(e) ==
    /\ held # NoPointer
    /\ held.index < Len(heap[held.block])
    /\ heap' = [heap EXCEPT ![held.block][held.index + 1] = e]
    /\ UNCHANGED <<data, count, capacity, held, lost>>

Init ==
    /\ heap = [b \in Blocks |-> IF b = 1 THEN mm_alloc(MIN_CAPACITY) ELSE Freed]
    /\ data = 1 /\ count = 0 /\ capacity = MIN_CAPACITY
    /\ held = NoPointer
    /\ lost = {}

Next ==
    \/ \E src \in Sources :
          \/ vector_push(src)
          \/ \E index \in 0 .. MaxCount : vector_insert(index, src) \/ vector_set(index, src)
    \/ \E index \in 0 .. MaxCount : vector_remove(index) \/ vector_at(index) \/ vector_reserve(index)
    \/ vector_pop
    \/ vector_clear
    \/ vector_shrink_to_fit
    \/ \E e \in Elems : Write(e)

Spec == Init /\ [][Next]_vars

---------------------------------------------------------------------------
(* Properties.                                                             *)

\* Whatever grows, shrinks and fails, the vector stands in one live buffer as large as
\* its capacity, and no other buffer is left allocated than those an emptied vector
\* grew out of (vector.c:115).
OneBuffer ==
    /\ count <= capacity
    /\ Len(heap[data]) = capacity
    /\ {b \in Blocks : heap[b] # Freed} = {data} \cup lost
    /\ data \notin lost

\* A pointer that still leads into the vector's buffer.
Good == held.block = data /\ held.index < count

\* The vector is a sequence, across every change of buffer, and each call does to it what
\* its name, its index and its element say: an element is put, replaced or erased at the
\* index given and no other changes place or value, and what is written through a good
\* pointer is written to its element (vector.c:166, 238).
Container == INSTANCE OrderedContainers
    WITH Objs <- {"v"}, MaxErase <- 1, seq <- [o \in {"v"} |-> Contents]
Given(src) == IF src.own THEN Elems ELSE {src.elem}
Puts(src) ==
    /\ vector_push(src) => \E e \in Given(src) : Container!InsertBefore("v", count + 1, e)
    /\ \A index \in 0 .. MaxCount :
          /\ vector_insert(index, src) =>
                 \E e \in Given(src) : Container!InsertBefore("v", index + 1, e)
          /\ vector_set(index, src) =>
                 \E e \in Given(src) : Container!Replace("v", index + 1, e)
Acts ==
    /\ \A src \in Sources : Puts(src)
    /\ \A index \in 0 .. MaxCount :
          /\ vector_remove(index) => Container!Erase("v", index + 1)
          /\ vector_reserve(index) \/ vector_at(index) => Container!Look
    /\ vector_pop => Container!Erase("v", count)
    /\ vector_clear => Container!Clear("v")
    /\ vector_shrink_to_fit => Container!Look
    /\ \A e \in Elems :
          Write(e) => IF Good THEN Container!Replace("v", held.index + 1, e) ELSE Container!Look
ImplementsContainer == Container!Init /\ [][Acts]_vars

\* An element of the vector can be pushed or inserted again by its own address as long
\* as there is room and it is not shifted away by the insertion (vector.c:180, 238).
OwnElementStored ==
    [][Good /\ count < capacity =>
          LET e == heap[data][held.index + 1]
          IN  /\ vector_push(Own) => Last(Contents') = e
              /\ \A index \in held.index .. count :
                    vector_insert(index, Own) => Contents'[index + 1] = e]_vars
=============================================================================

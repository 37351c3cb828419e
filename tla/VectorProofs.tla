---------------------------- MODULE VectorProofs ----------------------------
(***************************************************************************)
(* The vector for every number of buffers, every smallest capacity and     *)
(* every set of elements: it stands in one live buffer as large as its     *)
(* capacity, implements OrderedContainers, and stores its own elements.     *)
(*                                                                         *)
(* The argument: every operation first grows, which moves the elements to  *)
(* another buffer or none and changes none of them (Grown), and then puts  *)
(* other cells into the buffer the vector stands in (Rewritten).  What the *)
(* vector holds is a beginning of those cells, so each operation is known  *)
(* by the cells it leaves (Leaves).  That every element was written by the *)
(* program follows from the container's operations, and with it that an    *)
(* element given by its own address is stored as it was.                   *)
(***************************************************************************)
EXTENDS Vector, SequenceLemmas

Cells == Elems \cup {Unset}

\* A vector of n elements stands in block d of the heap h, and l are the other blocks
\* in use.
Sound(h, d, n, c, l) ==
    /\ h \in [Blocks -> Seq(Cells)]
    /\ d \in Blocks /\ n \in Nat /\ c \in Nat \ {0}
    /\ n <= c /\ Len(h[d]) = c
    /\ l \subseteq Blocks /\ d \notin l
    /\ \A b \in Blocks : h[b] # <<>> <=> b = d \/ b \in l

SoundRecord(v) == Sound(v.heap, v.data, v.count, v.capacity, v.lost)

\* A pointer leads into a block, live or not.
PointerType == held = NoPointer \/ (held.block \in Blocks /\ held.index \in Nat)

\* The inductive invariant.
VectorInv == Sound(heap, data, count, capacity, lost) /\ PointerType

-----------------------------------------------------------------------------
(* Buffers. *)

\* The buffer the vector stands in gets other cells, all of it.
LEMMA Rewritten ==
    ASSUME NEW h, NEW d, NEW n, NEW c, NEW l, Sound(h, d, n, c, l),
           NEW cells \in Seq(Cells), Len(cells) = c, NEW m \in Nat, m <= c
    PROVE  Sound([h EXCEPT ![d] = cells], d, m, c, l)
<1> DEFINE g == [h EXCEPT ![d] = cells]
<1>1. g \in [Blocks -> Seq(Cells)] /\ g[d] = cells
  BY DEF Sound
<1>2. cells # <<>>
  BY DEF Sound
<1>3. ASSUME NEW b \in Blocks PROVE g[b] # <<>> <=> b = d \/ b \in l
  BY <1>1, <1>2 DEF Sound
<1> QED BY <1>1, <1>3 DEF Sound

\* mm_alloc gives as many cells as were asked for, none of them written.
LEMMA Allocated ==
    ASSUME NEW n \in Nat
    PROVE  mm_alloc(n) \in Seq(Cells) /\ Len(mm_alloc(n)) = n
BY DEF mm_alloc, Cells

\* There is room means there is a lowest free block.
LEMMA FreeBlockIsFree ==
    ASSUME Room
    PROVE  FreeBlock \in Blocks /\ heap[FreeBlock] = Freed
<1> DEFINE free == {b \in Blocks : heap[b] = Freed}
           least(x) == \A y \in free : x <= y
<1>1. Blocks \subseteq Nat
  BY DEF Blocks
<1>2. \E b \in free : least(b)
  <2>1. free # {} /\ free \subseteq Nat
    BY <1>1 DEF Room
  <2> QED BY <2>1, HasLeast
<1>3. \E b \in Blocks : heap[b] = Freed /\ \A c \in Blocks : heap[c] = Freed => b <= c
  BY <1>2
<1> QED BY <1>3 DEF FreeBlock

\* The elements are a beginning of the buffer.
LEMMA ContentsAre ==
    ASSUME VectorInv
    PROVE  /\ Contents \in Seq(Cells) /\ Len(Contents) = count
           /\ \A i \in 1 .. count : Contents[i] = heap[data][i]
<1>1. heap[data] \in Seq(Cells) /\ count \in Nat /\ count <= Len(heap[data])
  BY DEF VectorInv, Sound
<1> QED BY <1>1, Beginning DEF Contents

\* What growing leaves: a sound vector with the same elements.
Same(v) ==
    /\ SoundRecord(v)
    /\ v.count = count
    /\ \A i \in 1 .. count : v.heap[v.data][i] = heap[data][i]

\* The vector in another buffer, the old one freed; or not, and lost.
LEMMA MovedSame ==
    ASSUME VectorInv, Room, NEW n \in Nat \ {0}, count <= n, NEW free \in BOOLEAN
    PROVE  Same(Moved(n, free)) /\ Moved(n, free).capacity = n
<1> DEFINE v == Moved(n, free)
           copy == Contents \o mm_alloc(n - count)
<1>1. FreeBlock \in Blocks /\ heap[FreeBlock] = <<>>
  BY FreeBlockIsFree DEF Freed
<1>2. /\ heap \in [Blocks -> Seq(Cells)] /\ data \in Blocks /\ count \in Nat
      /\ heap[data] # <<>> /\ lost \subseteq Blocks /\ data \notin lost
      /\ \A b \in Blocks : heap[b] # <<>> <=> b = data \/ b \in lost
  BY DEF VectorInv, Sound
<1>3. FreeBlock # data /\ FreeBlock \notin lost
  BY <1>1, <1>2
<1>4. /\ copy \in Seq(Cells) /\ Len(copy) = n
      /\ \A i \in 1 .. count : copy[i] = heap[data][i]
  <2>1. mm_alloc(n - count) \in Seq(Cells) /\ Len(mm_alloc(n - count)) = n - count
    BY <1>2, Allocated
  <2>2. /\ Contents \in Seq(Cells) /\ Len(Contents) = count
        /\ \A i \in 1 .. count : Contents[i] = heap[data][i]
    BY ContentsAre
  <2> DEFINE rest == mm_alloc(n - count)
  <2> HIDE DEF rest
  <2>3. /\ Contents \o rest \in Seq(Cells) /\ Len(Contents \o rest) = Len(Contents) + Len(rest)
        /\ \A i \in 1 .. Len(Contents) + Len(rest) :
             (Contents \o rest)[i] = IF i <= Len(Contents) THEN Contents[i]
                                     ELSE rest[i - Len(Contents)]
    BY <2>1, <2>2, ConcatProperties, ZenonT(60) DEF rest
  <2>4. Len(rest) = n - count
    BY <2>1 DEF rest
  <2>5. ASSUME NEW i \in 1 .. count PROVE (Contents \o rest)[i] = heap[data][i]
    <3>1. i \in 1 .. Len(Contents) + Len(rest) /\ i <= Len(Contents)
      BY <1>2, <2>2, <2>4
    <3> QED BY <2>2, <2>3, <3>1
  <2> QED BY <1>2, <2>2, <2>3, <2>4, <2>5 DEF rest
<1>5. copy # <<>>
  BY <1>4
<1> HIDE DEF copy
<1>6. /\ v.data = FreeBlock /\ v.count = count /\ v.capacity = n
      /\ v.lost = IF free THEN lost ELSE lost \cup {data}
  BY DEF Moved
<1>7. v.heap = [b \in Blocks |-> IF b = FreeBlock THEN copy
                               ELSE IF b = data /\ free THEN <<>> ELSE heap[b]]
  BY <1>1, <1>2, <1>3 DEF Moved, Freed, copy
<1> HIDE DEF v
<1>8. v.heap \in [Blocks -> Seq(Cells)] /\ v.heap[v.data] = copy
  BY <1>1, <1>2, <1>4, <1>6, <1>7
<1>9. ASSUME NEW b \in Blocks PROVE v.heap[b] # <<>> <=> b = v.data \/ b \in v.lost
  BY <1>1, <1>2, <1>3, <1>5, <1>6, <1>7
<1>10. v.lost \subseteq Blocks /\ v.data \notin v.lost
  BY <1>2, <1>3, <1>6
<1>11. Sound(v.heap, v.data, v.count, v.capacity, v.lost)
  BY <1>1, <1>2, <1>4, <1>6, <1>8, <1>9, <1>10 DEF Sound
<1> QED BY <1>4, <1>6, <1>8, <1>11 DEF Same, SoundRecord, v

\* Growing to any capacity, by doubling or as asked.
LEMMA Grown ==
    ASSUME VectorInv, NEW min \in Nat, NEW v \in vector_grow(min)
    PROVE  Same(v) /\ min <= v.capacity
<1>1. capacity \in Nat \ {0} /\ count \in Nat /\ count <= capacity
  BY DEF VectorInv, Sound
<1>2. CASE capacity >= min
  <2>1. v = V
    BY <1>2 DEF vector_grow
  <2> QED BY <1>1, <1>2, <2>1 DEF Same, SoundRecord, V, VectorInv
<1>3. CASE ~(capacity >= min)
  <2> DEFINE n == Larger(min, Larger(2 * capacity, MIN_CAPACITY))
  <2>1. Room /\ v = Moved(n, count > 0)
    BY <1>3 DEF vector_grow
  <2>2. n \in Nat \ {0} /\ count <= n /\ min <= n
    BY <1>1, <1>3, SizesAssumption DEF Larger
  <2> HIDE DEF n
  <2>3. (count > 0) \in BOOLEAN
    OBVIOUS
  <2> QED BY <2>1, <2>2, <2>3, MovedSame
<1> QED BY <1>2, <1>3

-----------------------------------------------------------------------------
(* What a call leaves. *)

\* After growing, other cells are put into the buffer and m of them are elements.
LEMMA Leaves ==
    ASSUME VectorInv, NEW v, Same(v),
           NEW cells \in Seq(Cells), Len(cells) = v.capacity, NEW m \in Nat, m <= v.capacity,
           heap' = [v.heap EXCEPT ![v.data] = cells], data' = v.data, count' = m,
           capacity' = v.capacity, lost' = v.lost, UNCHANGED held
    PROVE  VectorInv' /\ Contents' = SubSeq(cells, 1, m)
<1>1. Sound(v.heap, v.data, v.count, v.capacity, v.lost)
  BY DEF Same, SoundRecord
<1>2. Sound([v.heap EXCEPT ![v.data] = cells], v.data, m, v.capacity, v.lost)
  BY <1>1, Rewritten
<1>3. Sound(heap, data, count, capacity, lost)'
  BY <1>2
<1>4. PointerType'
  BY DEF VectorInv, PointerType
<1>5. heap'[data'] = cells
  BY <1>1 DEF Sound
<1> QED BY <1>3, <1>4, <1>5 DEF VectorInv, Contents

\* Whatever is read as an element is one.
LEMMA ReadType ==
    ASSUME VectorInv, NEW src \in Sources, NEW h \in [Blocks -> Seq(Cells)],
           NEW e \in Read(src, h)
    PROVE  e \in Elems /\ e \in Given(src)
<1>1. CASE src.own
  <2>1. e \in Deref(h)
    BY <1>1 DEF Read
  <2>2. held.block \in Blocks /\ held.index \in Nat
    BY <1>1 DEF VectorInv, PointerType, Sources, Values
  <2>3. CASE held.index < Len(h[held.block]) /\ h[held.block][held.index + 1] # Unset
    <3>1. e = h[held.block][held.index + 1]
      BY <2>1, <2>3 DEF Deref
    <3>2. h[held.block] \in Seq(Cells)
      BY <2>2
    <3>3. held.index + 1 \in 1 .. Len(h[held.block])
      BY <2>2, <2>3, <3>2
    <3>4. h[held.block][held.index + 1] \in Cells
      BY <3>2, <3>3
    <3> QED BY <1>1, <2>3, <3>1, <3>4 DEF Cells, Given
  <2>4. CASE ~(held.index < Len(h[held.block]) /\ h[held.block][held.index + 1] # Unset)
    BY <1>1, <2>1, <2>4, Zenon DEF Deref, Given
  <2> QED BY <2>3, <2>4
<1>2. CASE ~src.own
  <2>1. e = src.elem
    BY <1>2 DEF Read
  <2>2. src \in Values
    BY <1>2 DEF Sources, Own
  <2> QED BY <1>2, <2>1, <2>2 DEF Values, Given
<1> QED BY <1>1, <1>2

\* The cells of a buffer with one of them replaced.
LEMMA CellReplaced ==
    ASSUME NEW cells \in Seq(Cells), NEW index \in Nat, index < Len(cells), NEW e \in Elems
    PROVE  /\ [cells EXCEPT ![index + 1] = e] \in Seq(Cells)
           /\ Len([cells EXCEPT ![index + 1] = e]) = Len(cells)
           /\ \A i \in 1 .. Len(cells) :
                 [cells EXCEPT ![index + 1] = e][i] = IF i = index + 1 THEN e ELSE cells[i]
<1>1. index + 1 \in 1 .. Len(cells) /\ e \in Cells
  BY DEF Cells
<1> QED BY <1>1, ExceptSeq

\* A buffer that begins with the elements and one more.
LEMMA Inserted ==
    ASSUME VectorInv, NEW cells \in Seq(Cells), count + 1 <= Len(cells),
           NEW e \in Elems, NEW i \in 1 .. count + 1,
           \A j \in 1 .. count + 1 :
               cells[j] = IF j < i THEN heap[data][j]
                          ELSE IF j = i THEN e ELSE heap[data][j - 1]
    PROVE  SubSeq(cells, 1, count + 1) = InsertAt(Contents, i, e)
<1> DEFINE t == SubSeq(cells, 1, count + 1)
<1>1. count \in Nat /\ e \in Cells
  BY DEF VectorInv, Sound, Cells
<1>2. /\ t \in Seq(Cells) /\ Len(t) = count + 1
      /\ \A j \in 1 .. count + 1 : t[j] = cells[j]
  BY <1>1, Beginning
<1>3. /\ Contents \in Seq(Cells) /\ Len(Contents) = count
      /\ \A j \in 1 .. count : Contents[j] = heap[data][j]
  BY ContentsAre
<1> HIDE DEF t
<1>4. ASSUME NEW j \in 1 .. count + 1
      PROVE  t[j] = IF j < i THEN Contents[j] ELSE IF j = i THEN e ELSE Contents[j - 1]
  <2>1. CASE j < i
    <3>1. j \in 1 .. count
      BY <1>1, <2>1
    <3> QED BY <1>2, <1>3, <2>1, <3>1
  <2>2. CASE j = i
    BY <1>2, <2>2
  <2>3. CASE i < j
    <3>1. j - 1 \in 1 .. count /\ ~(j < i) /\ j # i
      BY <1>1, <2>3
    <3> QED BY <1>2, <1>3, <3>1
  <2> QED BY <1>1, <2>1, <2>2, <2>3
<1> QED BY <1>1, <1>2, <1>3, <1>4, InsertedIs, ZenonT(60) DEF t

\* The contents become s.
LEMMA HeldBecomes ==
    ASSUME NEW s, Contents' = s
    PROVE  Container!Holds("v", s)
BY DEF Container!Holds

\* What the container calls inserting, erasing and replacing.
LEMMA InsertHolds ==
    ASSUME NEW i, NEW e, Contents' = InsertAt(Contents, i, e)
    PROVE  Container!InsertBefore("v", i, e)
<1>1. Container!Holds("v", InsertAt(Contents, i, e))
  BY HeldBecomes
<1> QED BY <1>1 DEF Container!InsertBefore, Container!InsertAt, InsertAt

\* vector_push puts an element behind the last.
LEMMA PushStep ==
    ASSUME VectorInv, NEW src \in Sources, vector_push(src)
    PROVE  /\ VectorInv'
           /\ \E e \in Given(src) : e \in Elems /\ Container!InsertBefore("v", count + 1, e)
<1>0. PICK v \in vector_grow(count + 1) :
          \E e \in Read(src, v.heap) : Becomes([Store(v, count, e) EXCEPT !.count = @ + 1])
  BY DEF vector_push
<1>1. PICK e \in Read(src, v.heap) : Becomes([Store(v, count, e) EXCEPT !.count = @ + 1])
  BY <1>0
<1>2. count \in Nat
  BY DEF VectorInv, Sound
<1>3. Same(v) /\ count + 1 <= v.capacity
  BY <1>2, Grown
<1> DEFINE old == v.heap[v.data]
           cells == [old EXCEPT ![count + 1] = e]
<1>4. /\ v.heap \in [Blocks -> Seq(Cells)] /\ v.data \in Blocks
      /\ old \in Seq(Cells) /\ Len(old) = v.capacity /\ v.capacity \in Nat
      /\ \A i \in 1 .. count : old[i] = heap[data][i]
  BY <1>3 DEF Same, SoundRecord, Sound
<1>5. e \in Elems /\ e \in Given(src)
  BY <1>1, <1>4, ReadType
<1>6. /\ heap' = [v.heap EXCEPT ![v.data] = cells] /\ data' = v.data
      /\ count' = count + 1 /\ capacity' = v.capacity /\ lost' = v.lost /\ UNCHANGED held
  BY <1>1, <1>3, <1>4 DEF Becomes, Store, Same
<1>7. /\ cells \in Seq(Cells) /\ Len(cells) = v.capacity
      /\ \A i \in 1 .. Len(old) : cells[i] = IF i = count + 1 THEN e ELSE old[i]
  <2>1. count < Len(old) /\ old \in Seq(Cells)
    BY <1>2, <1>3, <1>4
  <2> HIDE DEF old
  <2>2. /\ cells \in Seq(Cells) /\ Len(cells) = Len(old)
        /\ \A i \in 1 .. Len(old) : cells[i] = IF i = count + 1 THEN e ELSE old[i]
    BY <1>2, <1>5, <2>1, CellReplaced
  <2> QED BY <1>4, <2>2
<1> HIDE DEF cells, old
<1>8. VectorInv' /\ Contents' = SubSeq(cells, 1, count + 1)
  BY <1>2, <1>3, <1>6, <1>7, Leaves
<1>9. Contents' = InsertAt(Contents, count + 1, e)
  <2>1. ASSUME NEW j \in 1 .. count + 1
        PROVE  cells[j] = IF j < count + 1 THEN heap[data][j]
                          ELSE IF j = count + 1 THEN e ELSE heap[data][j - 1]
    <3>1. j \in 1 .. Len(old) /\ (j < count + 1 => j \in 1 .. count /\ j # count + 1)
          /\ (~(j < count + 1) => j = count + 1)
      BY <1>2, <1>3, <1>4
    <3> QED BY <1>4, <1>7, <3>1
  <2>2. count + 1 <= Len(cells) /\ count + 1 \in 1 .. count + 1
    BY <1>2, <1>3, <1>7
  <2> QED BY <1>5, <1>7, <1>8, <2>1, <2>2, Inserted
<1> QED BY <1>5, <1>8, <1>9, InsertHolds

\* vector_insert: the cells from index on move one to the right; then one is written.
LEMMA Opened ==
    ASSUME NEW s \in Seq(Cells), NEW n \in Nat, n + 1 <= Len(s), NEW index \in 0 .. n
    PROVE  LET t == SubSeq(s, 1, index + 1) \o SubSeq(s, index + 1, n) \o SubSeq(s, n + 2, Len(s))
           IN  /\ t \in Seq(Cells) /\ Len(t) = Len(s)
               /\ \A j \in 1 .. n + 1 : t[j] = IF j <= index + 1 THEN s[j] ELSE s[j - 1]
<1> DEFINE a == SubSeq(s, 1, index + 1)
           b == SubSeq(s, index + 1, n)
           c == SubSeq(s, n + 2, Len(s))
           t == a \o b \o c
<1>1. Len(s) \in Nat /\ index \in Nat /\ index <= n
  OBVIOUS
<1>2. /\ a \in Seq(Cells) /\ Len(a) = index + 1
      /\ \A j \in 1 .. index + 1 : a[j] = s[j]
  BY <1>1, Beginning
<1>3. /\ b \in Seq(Cells) /\ Len(b) = n - index
      /\ \A j \in 1 .. n - index : b[j] = s[index + 1 + j - 1]
  <2>1. /\ index + 1 \in Nat \ {0} /\ n <= Len(s) /\ index + 1 <= n + 1
        /\ n - (index + 1) + 1 = n - index
    BY <1>1
  <2> QED BY <2>1, Part
<1>4. c \in Seq(Cells) /\ Len(c) = Len(s) - n - 1
  <2> DEFINE m == n + 2
  <2>1. m \in Nat \ {0} /\ m <= Len(s) + 1 /\ Len(s) - m + 1 = Len(s) - n - 1
    BY <1>1
  <2> HIDE DEF m
  <2>2. SubSeq(s, m, Len(s)) \in Seq(Cells) /\ Len(SubSeq(s, m, Len(s))) = Len(s) - m + 1
    BY <1>1, <2>1, Part
  <2> QED BY <2>1, <2>2, ZenonT(60) DEF m
<1> HIDE DEF a, b, c
<1>5. Join(Cells, t, a, b, c)
  BY <1>2, <1>3, <1>4, Joined
<1> HIDE DEF t
<1>6. t \in Seq(Cells) /\ Len(t) = Len(s)
  BY <1>1, <1>2, <1>3, <1>4, <1>5, SMTT(40) DEF Join
<1>7. ASSUME NEW j \in 1 .. n + 1 PROVE t[j] = IF j <= index + 1 THEN s[j] ELSE s[j - 1]
  <2>1. j \in 1 .. Len(a) + Len(b) + Len(c)
    BY <1>1, <1>2, <1>3, <1>4
  <2>2. CASE j <= index + 1
    <3>1. j <= Len(a) /\ j \in 1 .. index + 1
      BY <1>2, <2>2
    <3> QED BY <1>2, <1>5, <2>1, <2>2, <3>1 DEF Join
  <2>3. CASE ~(j <= index + 1)
    <3>1. /\ ~(j <= Len(a)) /\ j <= Len(a) + Len(b) /\ j - Len(a) \in 1 .. n - index
          /\ index + 1 + (j - Len(a)) - 1 = j - 1
      BY <1>1, <1>2, <1>3, <2>3
    <3>2. t[j] = b[j - Len(a)]
      BY <1>5, <2>1, <3>1 DEF Join
    <3>3. b[j - Len(a)] = s[index + 1 + (j - Len(a)) - 1]
      BY <1>3, <3>1
    <3> QED BY <2>3, <3>1, <3>2, <3>3
  <2> QED BY <2>2, <2>3
<1> QED BY <1>6, <1>7 DEF t, a, b, c

\* vector_insert puts an element before the one at index.
LEMMA InsertStep ==
    ASSUME VectorInv, NEW src \in Sources, NEW index \in Nat, vector_insert(index, src)
    PROVE  /\ VectorInv'
           /\ \E e \in Given(src) : e \in Elems /\ Container!InsertBefore("v", index + 1, e)
           /\ index + 1 \in 1 .. count + 1
<1>0. PICK v \in vector_grow(count + 1) :
          \E e \in Read(src, OpenGap(v, index).heap) :
             Becomes([Store(OpenGap(v, index), index, e) EXCEPT !.count = @ + 1])
  BY DEF vector_insert
<1> DEFINE open == OpenGap(v, index)
           old == v.heap[v.data]
           gap == SubSeq(old, 1, index + 1) \o SubSeq(old, index + 1, count)
                     \o SubSeq(old, count + 2, Len(old))
<1>1. PICK e \in Read(src, open.heap) : Becomes([Store(open, index, e) EXCEPT !.count = @ + 1])
  BY <1>0
<1>2. count \in Nat /\ index \in 0 .. count
  BY DEF VectorInv, Sound, vector_insert
<1>3. Same(v) /\ count + 1 <= v.capacity
  BY <1>2, Grown
<1>4. /\ v.heap \in [Blocks -> Seq(Cells)] /\ v.data \in Blocks
      /\ old \in Seq(Cells) /\ Len(old) = v.capacity /\ v.capacity \in Nat
      /\ \A i \in 1 .. count : old[i] = heap[data][i]
  BY <1>3 DEF Same, SoundRecord, Sound
<1>5. /\ gap \in Seq(Cells) /\ Len(gap) = Len(old)
      /\ \A j \in 1 .. count + 1 : gap[j] = IF j <= index + 1 THEN old[j] ELSE old[j - 1]
  <2>1. old \in Seq(Cells) /\ count + 1 <= Len(old)
    BY <1>3, <1>4
  <2> HIDE DEF old
  <2> QED BY <1>2, <2>1, Opened
<1>6. open = [v EXCEPT !.heap = [v.heap EXCEPT ![v.data] = gap]]
  BY DEF OpenGap
<1> HIDE DEF gap, old
<1> DEFINE cells == [gap EXCEPT ![index + 1] = e]
<1>7. /\ open.heap = [v.heap EXCEPT ![v.data] = gap]
      /\ open.data = v.data /\ open.count = v.count
      /\ open.capacity = v.capacity /\ open.lost = v.lost
      /\ open.heap \in [Blocks -> Seq(Cells)]
      /\ open.heap[open.data] = gap
  <2>1. /\ open.heap = [v.heap EXCEPT ![v.data] = gap]
        /\ open.data = v.data /\ open.count = v.count
        /\ open.capacity = v.capacity /\ open.lost = v.lost
    BY DEF OpenGap, gap, old
  <2> QED BY <1>4, <1>5, <2>1
<1> HIDE DEF open
<1>8. e \in Elems /\ e \in Given(src)
  BY <1>1, <1>7, ReadType
<1>9. /\ heap' = [v.heap EXCEPT ![v.data] = cells] /\ data' = v.data
      /\ count' = count + 1 /\ capacity' = v.capacity /\ lost' = v.lost /\ UNCHANGED held
  <2>1. heap' = [open.heap EXCEPT ![open.data][index + 1] = e]
    BY <1>1 DEF Becomes, Store
  <2>2. heap' = [v.heap EXCEPT ![v.data] = cells]
    BY <1>4, <1>7, <2>1, ZenonT(60)
  <2>3. /\ data' = open.data /\ count' = open.count + 1
        /\ capacity' = open.capacity /\ lost' = open.lost /\ UNCHANGED held
    BY <1>1 DEF Becomes, Store
  <2> QED BY <1>3, <1>7, <2>2, <2>3 DEF Same
<1>10. /\ cells \in Seq(Cells) /\ Len(cells) = v.capacity
       /\ \A i \in 1 .. Len(gap) : cells[i] = IF i = index + 1 THEN e ELSE gap[i]
  <2>1. index < Len(gap) /\ index \in Nat /\ Len(gap) = v.capacity
    BY <1>2, <1>3, <1>4, <1>5
  <2> QED BY <1>5, <1>8, <2>1, CellReplaced
<1> HIDE DEF cells
<1>11. VectorInv' /\ Contents' = SubSeq(cells, 1, count + 1)
  BY <1>2, <1>3, <1>9, <1>10, Leaves
<1>12. Contents' = InsertAt(Contents, index + 1, e)
  <2>1. ASSUME NEW j \in 1 .. count + 1
        PROVE  cells[j] = IF j < index + 1 THEN heap[data][j]
                          ELSE IF j = index + 1 THEN e ELSE heap[data][j - 1]
    <3>1. j \in 1 .. Len(gap)
      BY <1>2, <1>3, <1>4, <1>5
    <3>2. CASE j < index + 1
      <4>1. j \in 1 .. count /\ j <= index + 1 /\ j # index + 1
        BY <1>2, <3>2
      <4> QED BY <1>4, <1>5, <1>10, <3>1, <3>2, <4>1
    <3>3. CASE j = index + 1
      BY <1>10, <3>1, <3>3
    <3>4. CASE index + 1 < j
      <4>1. j - 1 \in 1 .. count /\ ~(j <= index + 1) /\ j # index + 1 /\ ~(j < index + 1)
        BY <1>2, <3>4
      <4> QED BY <1>4, <1>5, <1>10, <3>1, <4>1
    <3> QED BY <1>2, <3>2, <3>3, <3>4
  <2>2. count + 1 <= Len(cells) /\ index + 1 \in 1 .. count + 1
    BY <1>2, <1>3, <1>10
  <2> QED BY <1>8, <1>10, <1>11, <2>1, <2>2, Inserted
<1> QED BY <1>2, <1>8, <1>11, <1>12, InsertHolds

\* A vector nothing was done to is sound and holds the same.
LEMMA Stays ==
    ASSUME VectorInv
    PROVE  /\ Same(V)
           /\ V.heap = heap /\ V.data = data /\ V.count = count
           /\ V.capacity = capacity /\ V.lost = lost
           /\ heap \in [Blocks -> Seq(Cells)] /\ data \in Blocks
           /\ heap[data] \in Seq(Cells) /\ Len(heap[data]) = capacity
           /\ count \in Nat /\ capacity \in Nat /\ count <= capacity
BY DEF Same, SoundRecord, V, VectorInv, Sound

\* One element is replaced in place.
LEMMA ReplacedHolds ==
    ASSUME VectorInv, NEW index \in Nat, index < count, NEW e \in Elems,
           heap' = [heap EXCEPT ![data] = [heap[data] EXCEPT ![index + 1] = e]],
           UNCHANGED <<data, count, capacity, lost, held>>
    PROVE  /\ VectorInv' /\ Container!Replace("v", index + 1, e)
           /\ index + 1 \in 1 .. Len(Contents)
<1> DEFINE cells == [heap[data] EXCEPT ![index + 1] = e]
<1>1. /\ Same(V)
      /\ V.heap = heap /\ V.data = data /\ V.count = count
      /\ V.capacity = capacity /\ V.lost = lost
      /\ heap[data] \in Seq(Cells) /\ Len(heap[data]) = capacity
      /\ count \in Nat /\ capacity \in Nat /\ count <= capacity
  BY Stays
<1>2. /\ cells \in Seq(Cells) /\ Len(cells) = capacity
      /\ \A i \in 1 .. capacity : cells[i] = IF i = index + 1 THEN e ELSE heap[data][i]
  <2>1. index < Len(heap[data])
    BY <1>1
  <2> QED BY <1>1, <2>1, CellReplaced
<1> HIDE DEF cells
<1>3. heap' = [V.heap EXCEPT ![V.data] = cells]
  BY <1>1 DEF cells
<1>4. VectorInv' /\ Contents' = SubSeq(cells, 1, count)
  <2>1. data' = V.data /\ count' = count /\ capacity' = V.capacity /\ lost' = V.lost
    BY <1>1
  <2>2. Len(cells) = V.capacity /\ count <= V.capacity
    BY <1>1, <1>2
  <2>3. Same(V) /\ cells \in Seq(Cells) /\ count \in Nat /\ UNCHANGED held
    BY <1>1, <1>2
  <2> QED BY <1>3, <2>1, <2>2, <2>3, Leaves, ZenonT(60)
<1>5. /\ SubSeq(cells, 1, count) \in Seq(Cells) /\ Len(SubSeq(cells, 1, count)) = count
      /\ \A i \in 1 .. count : SubSeq(cells, 1, count)[i] = cells[i]
  BY <1>1, <1>2, Beginning
<1>6. /\ Contents \in Seq(Cells) /\ Len(Contents) = count
      /\ \A i \in 1 .. count : Contents[i] = heap[data][i]
  BY ContentsAre
<1>7. index + 1 \in 1 .. Len(Contents) /\ e \in Cells
  BY <1>1, <1>6 DEF Cells
<1>8. Contents' = ReplaceAt(Contents, index + 1, e)
  <2> DEFINE s == SubSeq(cells, 1, count)
             t == [Contents EXCEPT ![index + 1] = e]
  <2> HIDE DEF s
  <2>1. /\ t \in Seq(Cells) /\ Len(t) = Len(Contents)
        /\ \A i \in 1 .. Len(Contents) : t[i] = IF i = index + 1 THEN e ELSE Contents[i]
    BY <1>6, <1>7, ExceptSeq
  <2> HIDE DEF t
  <2>2. \A i \in 1 .. count : s[i] = t[i]
    <3>1. \A i \in 1 .. count : i \in 1 .. capacity
      BY <1>1
    <3> QED BY <1>2, <1>5, <1>6, <2>1, <3>1 DEF s
  <2>3. s = t
    BY <1>5, <1>6, <2>1, <2>2, SeqEqual, ZenonT(60) DEF s
  <2> QED BY <1>4, <2>3 DEF ReplaceAt, s, t
<1>9. Container!Replace("v", index + 1, e)
  <2>1. Container!Holds("v", ReplaceAt(Contents, index + 1, e))
    BY <1>8, HeldBecomes
  <2> QED BY <2>1 DEF Container!Replace, Container!ReplaceAt, ReplaceAt
<1> QED BY <1>4, <1>7, <1>9

\* vector_set.
LEMMA SetStep ==
    ASSUME VectorInv, NEW src \in Sources, NEW index \in Nat, vector_set(index, src)
    PROVE  /\ VectorInv'
           /\ \E e \in Given(src) : e \in Elems /\ Container!Replace("v", index + 1, e)
           /\ index + 1 \in 1 .. Len(Contents)
<1>1. PICK e \in Read(src, heap) : Becomes(Store(V, index, e))
  BY DEF vector_set
<1>2. heap \in [Blocks -> Seq(Cells)] /\ data \in Blocks
  BY Stays
<1>3. e \in Elems /\ e \in Given(src)
  BY <1>1, <1>2, ReadType
<1>4. /\ heap' = [heap EXCEPT ![data] = [heap[data] EXCEPT ![index + 1] = e]]
      /\ UNCHANGED <<data, count, capacity, lost, held>>
  BY <1>1, <1>2 DEF Becomes, Store, V
<1>5. index < count
  BY DEF vector_set
<1> QED BY <1>3, <1>4, <1>5, ReplacedHolds

\* The program's own write is a replacement when its pointer leads to an element, and
\* leaves the vector alone when it does not.
LEMMA WriteStep ==
    ASSUME VectorInv, NEW e \in Elems, Write(e)
    PROVE  /\ VectorInv'
           /\ IF Good THEN /\ held.index + 1 \in 1 .. Len(Contents)
                           /\ Container!Replace("v", held.index + 1, e)
              ELSE Contents' = Contents
<1>1. /\ held.block \in Blocks /\ held.index \in Nat
      /\ held.index < Len(heap[held.block])
      /\ heap' = [heap EXCEPT ![held.block] = [heap[held.block] EXCEPT ![held.index + 1] = e]]
      /\ UNCHANGED <<data, count, capacity, lost, held>>
  BY DEF Write, VectorInv, PointerType
<1>2. /\ heap \in [Blocks -> Seq(Cells)] /\ data \in Blocks
      /\ heap[data] \in Seq(Cells) /\ Len(heap[data]) = capacity
      /\ count \in Nat /\ capacity \in Nat /\ count <= capacity
  BY Stays
<1>3. ASSUME Good
      PROVE  /\ VectorInv'
             /\ held.index + 1 \in 1 .. Len(Contents)
             /\ Container!Replace("v", held.index + 1, e)
  BY <1>1, <1>3, ReplacedHolds DEF Good
<1>4. ASSUME ~Good
      PROVE  VectorInv' /\ Contents' = Contents
  <2> DEFINE old == heap[held.block]
             cells == [old EXCEPT ![held.index + 1] = e]
  <2>1. old \in Seq(Cells)
    BY <1>1, <1>2
  <2>2. /\ cells \in Seq(Cells) /\ Len(cells) = Len(old)
        /\ \A i \in 1 .. Len(old) : cells[i] = IF i = held.index + 1 THEN e ELSE old[i]
    <3> HIDE DEF old
    <3> QED BY <1>1, <2>1, CellReplaced DEF old
  <2> HIDE DEF cells
  <2>3. heap' = [heap EXCEPT ![held.block] = cells] /\ heap' \in [Blocks -> Seq(Cells)]
    BY <1>1, <1>2, <2>2 DEF cells
  <2>4. cells # <<>> /\ heap[held.block] # <<>>
    BY <1>1, <2>1, <2>2
  <2>5. Len(heap'[data]) = capacity /\ \A i \in 1 .. count : heap'[data][i] = heap[data][i]
    <3>1. CASE held.block = data
      <4>1. \A i \in 1 .. count : i \in 1 .. Len(old) /\ i # held.index + 1
        BY <1>1, <1>2, <1>4, <3>1 DEF Good
      <4> QED BY <1>1, <1>2, <2>2, <2>3, <3>1, <4>1
    <3>2. CASE held.block # data
      BY <1>1, <1>2, <2>3, <3>2
    <3> QED BY <3>1, <3>2
  <2>6. \A b \in Blocks : heap'[b] # <<>> <=> heap[b] # <<>>
    BY <1>1, <1>2, <2>3, <2>4
  <2>7. Sound(heap, data, count, capacity, lost)'
    <3>1. /\ capacity \in Nat \ {0} /\ lost \subseteq Blocks /\ data \notin lost
          /\ \A b \in Blocks : heap[b] # <<>> <=> b = data \/ b \in lost
      BY DEF VectorInv, Sound
    <3> QED BY <1>1, <1>2, <2>3, <2>5, <2>6, <3>1 DEF Sound
  <2>8. VectorInv'
    BY <1>1, <2>7 DEF VectorInv, PointerType
  <2>9. Contents' = Contents
    <3>1. heap'[data] \in Seq(Cells)
      BY <1>2, <2>3
    <3> DEFINE s == SubSeq(heap'[data], 1, count)
    <3>2. s \in Seq(Cells) /\ Len(s) = count /\ \A i \in 1 .. count : s[i] = heap'[data][i]
      BY <1>2, <2>5, <3>1, Beginning
    <3>3. /\ Contents \in Seq(Cells) /\ Len(Contents) = count
          /\ \A i \in 1 .. count : Contents[i] = heap[data][i]
      BY ContentsAre
    <3> HIDE DEF s
    <3>4. s = Contents
      BY <2>5, <3>2, <3>3, SeqEqual
    <3> QED BY <1>1, <3>4 DEF Contents, s
  <2> QED BY <2>8, <2>9
<1> QED BY <1>3, <1>4, Zenon

\* Other cells, and m of them elements, in the buffer there was.
LEMMA LeavesHere ==
    ASSUME VectorInv, NEW cells \in Seq(Cells), Len(cells) = capacity,
           NEW m \in Nat, m <= capacity,
           heap' = [heap EXCEPT ![data] = cells], count' = m,
           UNCHANGED <<data, capacity, lost, held>>
    PROVE  VectorInv' /\ Contents' = SubSeq(cells, 1, m)
<1>1. /\ Same(V) /\ heap' = [V.heap EXCEPT ![V.data] = cells] /\ data' = V.data
      /\ capacity' = V.capacity /\ lost' = V.lost /\ UNCHANGED held
      /\ Len(cells) = V.capacity /\ m <= V.capacity
  BY Stays
<1> QED BY <1>1, Leaves, Zenon

\* The first elements of the vector are the first cells of its buffer.
LEMMA Shortened ==
    ASSUME VectorInv, NEW m \in Nat, m <= count, count' = m,
           UNCHANGED <<heap, data, capacity, lost, held>>
    PROVE  VectorInv' /\ Contents' = SubSeq(Contents, 1, m)
<1>1. /\ heap \in [Blocks -> Seq(Cells)] /\ data \in Blocks
      /\ heap[data] \in Seq(Cells) /\ Len(heap[data]) = capacity
      /\ count \in Nat /\ capacity \in Nat /\ count <= capacity
  BY Stays
<1>2. heap' = [heap EXCEPT ![data] = heap[data]] /\ m <= capacity
  BY <1>1
<1>3. UNCHANGED <<data, capacity, lost, held>>
  OBVIOUS
<1>4. VectorInv' /\ Contents' = SubSeq(heap[data], 1, m)
  BY <1>1, <1>2, <1>3, LeavesHere
<1>5. /\ Contents \in Seq(Cells) /\ Len(Contents) = count
      /\ \A i \in 1 .. count : Contents[i] = heap[data][i]
  BY ContentsAre
<1> DEFINE s == SubSeq(heap[data], 1, m)
           t == SubSeq(Contents, 1, m)
<1>6. s \in Seq(Cells) /\ Len(s) = m /\ \A i \in 1 .. m : s[i] = heap[data][i]
  BY <1>1, <1>2, Beginning
<1>7. t \in Seq(Cells) /\ Len(t) = m /\ \A i \in 1 .. m : t[i] = Contents[i]
  BY <1>5, Beginning
<1> HIDE DEF s, t
<1>8. \A i \in 1 .. m : s[i] = t[i]
  <2>1. \A i \in 1 .. m : i \in 1 .. count
    BY <1>1
  <2> QED BY <1>5, <1>6, <1>7, <2>1
<1>9. s = t
  BY <1>6, <1>7, <1>8, SeqEqual
<1> QED BY <1>4, <1>9 DEF s, t

\* vector_remove: the cells behind index move one to the left.
LEMMA Closed ==
    ASSUME VectorInv, NEW index \in Nat, index < count
    PROVE  /\ CloseGap(index) \in Seq(Cells) /\ Len(CloseGap(index)) = capacity
           /\ \A j \in 1 .. count - 1 :
                 CloseGap(index)[j] = IF j < index + 1 THEN heap[data][j] ELSE heap[data][j + 1]
<1> DEFINE s == heap[data]
           m == index + 2
           a == SubSeq(s, 1, index)
           b == SubSeq(s, m, count)
           c == SubSeq(s, count, Len(s))
           t == a \o b \o c
<1>1. /\ s \in Seq(Cells) /\ Len(s) = capacity
      /\ count \in Nat \ {0} /\ capacity \in Nat /\ count <= capacity
  BY Stays
<1>2. CloseGap(index) = t
  BY DEF CloseGap
<1> HIDE DEF s
<1>3. /\ a \in Seq(Cells) /\ Len(a) = index
      /\ \A j \in 1 .. index : a[j] = s[j]
  BY <1>1, Beginning
<1>4. /\ m \in Nat \ {0} /\ m <= count + 1 /\ count - m + 1 = count - index - 1
      /\ \A j \in 1 .. count - index - 1 : m + j - 1 = index + j + 1
  BY <1>1
<1> HIDE DEF m
<1>5. /\ b \in Seq(Cells) /\ Len(b) = count - index - 1
      /\ \A j \in 1 .. count - index - 1 : b[j] = s[index + j + 1]
  <2>1. /\ b \in Seq(Cells) /\ Len(b) = count - m + 1
        /\ \A j \in 1 .. count - m + 1 : b[j] = s[m + j - 1]
    BY <1>1, <1>4, Part
  <2> HIDE DEF b
  <2> QED BY <1>4, <2>1
<1>6. c \in Seq(Cells) /\ Len(c) = Len(s) - count + 1
  BY <1>1, Part
<1> HIDE DEF a, b, c
<1>7. Join(Cells, t, a, b, c)
  BY <1>3, <1>5, <1>6, Joined
<1> HIDE DEF t
<1>8. t \in Seq(Cells) /\ Len(t) = capacity
  BY <1>1, <1>3, <1>5, <1>6, <1>7 DEF Join
<1>9. ASSUME NEW j \in 1 .. count - 1
      PROVE  t[j] = IF j < index + 1 THEN s[j] ELSE s[j + 1]
  <2>1. j \in 1 .. Len(a) + Len(b) + Len(c)
    BY <1>1, <1>3, <1>5, <1>6
  <2>2. CASE j < index + 1
    <3>1. j <= Len(a) /\ j \in 1 .. index
      BY <1>3, <2>2
    <3> QED BY <1>3, <1>7, <2>1, <2>2, <3>1 DEF Join
  <2>3. CASE ~(j < index + 1)
    <3>1. /\ ~(j <= Len(a)) /\ j <= Len(a) + Len(b) /\ j - Len(a) \in 1 .. count - index - 1
          /\ index + (j - Len(a)) + 1 = j + 1
      BY <1>1, <1>3, <1>5, <2>3
    <3>2. t[j] = b[j - Len(a)]
      BY <1>7, <2>1, <3>1 DEF Join
    <3>3. b[j - Len(a)] = s[index + (j - Len(a)) + 1]
      BY <1>5, <3>1
    <3> QED BY <2>3, <3>1, <3>2, <3>3
  <2> QED BY <2>2, <2>3
<1> QED BY <1>2, <1>8, <1>9 DEF s

\* What the container calls erasing.
LEMMA EraseHolds ==
    ASSUME NEW i, Contents' = RemoveAt(Contents, i)
    PROVE  Container!Erase("v", i)
<1>1. Container!Holds("v", RemoveAt(Contents, i))
  BY HeldBecomes
<1> QED BY <1>1 DEF Container!Erase, Container!RemoveAt, RemoveAt

\* vector_remove.
LEMMA RemoveStep ==
    ASSUME VectorInv, NEW index \in Nat, vector_remove(index)
    PROVE  /\ VectorInv' /\ Container!Erase("v", index + 1)
           /\ index + 1 \in 1 .. Len(Contents)
<1> DEFINE cells == CloseGap(index)
<1>1. /\ index < count /\ heap \in [Blocks -> Seq(Cells)] /\ data \in Blocks
      /\ heap[data] \in Seq(Cells) /\ Len(heap[data]) = capacity
      /\ count \in Nat /\ capacity \in Nat /\ count <= capacity
  BY Stays DEF vector_remove
<1>2. /\ cells \in Seq(Cells) /\ Len(cells) = capacity
      /\ \A j \in 1 .. count - 1 :
            cells[j] = IF j < index + 1 THEN heap[data][j] ELSE heap[data][j + 1]
  BY <1>1, Closed
<1> HIDE DEF cells
<1>3. /\ heap' = [heap EXCEPT ![data] = cells] /\ count' = count - 1
      /\ UNCHANGED <<data, capacity, lost, held>>
  BY DEF vector_remove, Becomes, V, cells
<1>4. count - 1 \in Nat /\ count - 1 <= capacity /\ count - 1 <= Len(cells)
  BY <1>1, <1>2
<1>5. VectorInv' /\ Contents' = SubSeq(cells, 1, count - 1)
  BY <1>2, <1>3, <1>4, LeavesHere
<1>6. /\ Contents \in Seq(Cells) /\ Len(Contents) = count
      /\ \A i \in 1 .. count : Contents[i] = heap[data][i]
  BY ContentsAre
<1> DEFINE m == count - 1
           t == SubSeq(cells, 1, m)
<1>7. t \in Seq(Cells) /\ Len(t) = m /\ \A i \in 1 .. m : t[i] = cells[i]
  <2> HIDE DEF m
  <2> QED BY <1>2, <1>4, Beginning DEF m
<1> HIDE DEF t
<1>8. ASSUME NEW j \in 1 .. count - 1
      PROVE  t[j] = IF j < index + 1 THEN Contents[j] ELSE Contents[j + 1]
  <2>1. j \in 1 .. count /\ j + 1 \in 1 .. count
    BY <1>1
  <2> QED BY <1>2, <1>6, <1>7, <2>1
<1>9. t = RemoveAt(Contents, index + 1)
  <2> DEFINE i == index + 1
  <2>1. i \in 1 .. Len(Contents) /\ Len(t) = Len(Contents) - 1
    BY <1>1, <1>6, <1>7
  <2>2. \A j \in 1 .. Len(Contents) - 1 : t[j] = IF j < i THEN Contents[j] ELSE Contents[j + 1]
    BY <1>6, <1>8
  <2> HIDE DEF i
  <2>3. t = RemoveAt(Contents, i)
    BY <1>6, <1>7, <2>1, <2>2, RemovedIs
  <2> QED BY <2>3 DEF i
<1>10. Contents' = RemoveAt(Contents, index + 1)
  BY <1>5, <1>9 DEF t
<1> QED BY <1>1, <1>5, <1>6, <1>10, EraseHolds

\* vector_pop erases the last element.
LEMMA PopStep ==
    ASSUME VectorInv, vector_pop
    PROVE  /\ VectorInv' /\ Container!Erase("v", count)
           /\ count \in 1 .. Len(Contents)
<1> DEFINE m == count - 1
           t == SubSeq(Contents, 1, m)
<1>1. count \in Nat \ {0}
  BY Stays DEF vector_pop
<1>2. /\ Contents \in Seq(Cells) /\ Len(Contents) = count
  BY ContentsAre
<1>3. count' = m /\ UNCHANGED <<heap, data, capacity, lost, held>>
  BY DEF vector_pop, Becomes, V
<1>4. m \in Nat /\ m <= count
  BY <1>1
<1>5. VectorInv' /\ Contents' = t
  <2> HIDE DEF m
  <2> QED BY <1>3, <1>4, Shortened
<1>6. t \in Seq(Cells) /\ Len(t) = m /\ \A i \in 1 .. m : t[i] = Contents[i]
  <2>1. m <= Len(Contents)
    BY <1>1, <1>2
  <2> HIDE DEF m
  <2> QED BY <1>2, <1>4, <2>1, Beginning
<1> HIDE DEF t
<1>7. count \in 1 .. Len(Contents) /\ Len(t) = Len(Contents) - 1
  BY <1>1, <1>2, <1>6
<1>8. \A j \in 1 .. Len(Contents) - 1 :
         t[j] = IF j < count THEN Contents[j] ELSE Contents[j + 1]
  BY <1>1, <1>2, <1>6
<1>9. t = RemoveAt(Contents, count)
  BY <1>2, <1>6, <1>7, <1>8, RemovedIs
<1> QED BY <1>5, <1>7, <1>9, EraseHolds

\* vector_clear.
LEMMA ClearStep ==
    ASSUME VectorInv, vector_clear
    PROVE  VectorInv' /\ Container!Clear("v")
<1>1. count \in Nat
  BY Stays
<1>2. count' = 0 /\ UNCHANGED <<heap, data, capacity, lost, held>>
  BY DEF vector_clear, Becomes, V
<1>3. VectorInv' /\ Contents' = SubSeq(Contents, 1, 0)
  BY <1>1, <1>2, Shortened
<1>4. SubSeq(Contents, 1, 0) = <<>>
  BY SubSeqEmpty
<1> QED BY <1>3, <1>4, HeldBecomes DEF Container!Clear

\* A vector that only changes its buffer holds what it held.
LEMMA MovedStep ==
    ASSUME VectorInv, NEW v, Same(v), Becomes(v)
    PROVE  VectorInv' /\ Contents' = Contents
<1> DEFINE cells == v.heap[v.data]
           t == SubSeq(cells, 1, count)
<1>1. /\ v.heap \in [Blocks -> Seq(Cells)] /\ v.data \in Blocks
      /\ cells \in Seq(Cells) /\ Len(cells) = v.capacity /\ v.capacity \in Nat
      /\ count \in Nat /\ count <= v.capacity /\ v.count = count
      /\ \A i \in 1 .. count : cells[i] = heap[data][i]
  BY DEF Same, SoundRecord, Sound
<1>2. heap' = [v.heap EXCEPT ![v.data] = cells]
  BY <1>1 DEF Becomes
<1> HIDE DEF cells
<1>3. VectorInv' /\ Contents' = t
  <2>1. /\ data' = v.data /\ count' = count /\ capacity' = v.capacity
        /\ lost' = v.lost /\ UNCHANGED held
    BY <1>1 DEF Becomes
  <2> QED BY <1>1, <1>2, <2>1, Leaves, Zenon
<1>4. t \in Seq(Cells) /\ Len(t) = count /\ \A i \in 1 .. count : t[i] = cells[i]
  BY <1>1, Beginning
<1>5. /\ Contents \in Seq(Cells) /\ Len(Contents) = count
      /\ \A i \in 1 .. count : Contents[i] = heap[data][i]
  BY ContentsAre
<1> HIDE DEF t
<1>6. t = Contents
  BY <1>1, <1>4, <1>5, SeqEqual, SMTT(40)
<1> QED BY <1>3, <1>6

\* vector_reserve and vector_shrink_to_fit.
LEMMA ResizeStep ==
    ASSUME VectorInv, \/ \E n \in Nat : vector_reserve(n)
                      \/ vector_shrink_to_fit
    PROVE  VectorInv' /\ Contents' = Contents
<1>1. CASE \E n \in Nat : vector_reserve(n)
  <2>1. PICK n \in Nat : vector_reserve(n)
    BY <1>1
  <2>2. PICK v \in vector_grow(n) : Becomes(v)
    BY <2>1 DEF vector_reserve
  <2>3. Same(v)
    BY Grown
  <2> QED BY <2>2, <2>3, MovedStep
<1>2. CASE vector_shrink_to_fit
  <2>1. count > 0 /\ Room /\ Becomes(Moved(count, TRUE))
    BY <1>2, Zenon DEF vector_shrink_to_fit
  <2>2. Same(Moved(count, TRUE))
    <3>1. count \in Nat \ {0} /\ count <= count /\ TRUE \in BOOLEAN
      BY <2>1, Stays
    <3> QED BY <2>1, <3>1, MovedSame
  <2> QED BY <2>1, <2>2, MovedStep
<1> QED BY <1>1, <1>2

\* vector_at gives a pointer into the vector's buffer.
LEMMA AtStep ==
    ASSUME VectorInv, NEW index \in Nat, vector_at(index)
    PROVE  VectorInv' /\ Contents' = Contents
<1>1. UNCHANGED <<heap, data, count, capacity, lost>> /\ held' = [block |-> data, index |-> index]
  BY DEF vector_at, vector
<1>2. Sound(heap, data, count, capacity, lost)' /\ data \in Blocks
  BY <1>1 DEF VectorInv, Sound
<1>3. PointerType'
  BY <1>1, <1>2 DEF PointerType
<1> QED BY <1>1, <1>2, <1>3 DEF VectorInv, Contents

-----------------------------------------------------------------------------

\* A new vector has one buffer of the smallest capacity and no elements.
LEMMA InitSound == Init => VectorInv /\ Container!Init
<1> SUFFICES ASSUME Init PROVE VectorInv /\ Container!Init
  OBVIOUS
<1>1. 1 \in Blocks
  BY SizesAssumption DEF Blocks
<1>2. mm_alloc(MIN_CAPACITY) \in Seq(Cells) /\ Len(mm_alloc(MIN_CAPACITY)) = MIN_CAPACITY
  BY SizesAssumption, Allocated
<1>3. /\ heap = [b \in Blocks |-> IF b = 1 THEN mm_alloc(MIN_CAPACITY) ELSE <<>>]
      /\ data = 1 /\ count = 0 /\ capacity = MIN_CAPACITY /\ held = NoPointer /\ lost = {}
  BY DEF Init, Freed
<1>4. mm_alloc(MIN_CAPACITY) # <<>> /\ <<>> \in Seq(Cells)
  BY <1>2, SizesAssumption
<1>5. heap \in [Blocks -> Seq(Cells)] /\ heap[1] = mm_alloc(MIN_CAPACITY)
  <2> HIDE DEF mm_alloc
  <2> QED BY <1>1, <1>2, <1>3, <1>4
<1>6. \A b \in Blocks : heap[b] # <<>> <=> b = 1
  BY <1>3, <1>4
<1>7. Sound(heap, data, count, capacity, lost)
  BY <1>1, <1>2, <1>3, <1>5, <1>6, SizesAssumption DEF Sound
<1>8. VectorInv
  BY <1>3, <1>7 DEF VectorInv, PointerType
<1>9. Contents = <<>>
  BY <1>3, SubSeqEmpty DEF Contents
<1> QED BY <1>8, <1>9 DEF Container!Init

\* A call of the container.
Operation ==
    \/ \E i \in 1 .. Len(Contents) + 1, e \in Elems : Container!InsertBefore("v", i, e)
    \/ \E i \in 1 .. Len(Contents) : Container!Erase("v", i)
    \/ \E i \in 1 .. Len(Contents), e \in Elems : Container!Replace("v", i, e)
    \/ Container!Clear("v")

\* Every step keeps the vector sound, and is one of the container or changes no element.
LEMMA NextStep ==
    ASSUME VectorInv, Next
    PROVE  VectorInv' /\ (Operation \/ Contents' = Contents)
<1>1. Len(Contents) = count /\ count \in Nat
  BY ContentsAre, Stays
<1>2. \A i \in 0 .. MaxCount : i \in Nat
  OBVIOUS
<1>3. ASSUME NEW src \in Sources, vector_push(src)
      PROVE  VectorInv' /\ Operation
  <2>1. VectorInv' /\ \E e \in Elems : Container!InsertBefore("v", count + 1, e)
    BY <1>3, PushStep, Zenon
  <2>2. count + 1 \in 1 .. Len(Contents) + 1
    BY <1>1
  <2> QED BY <2>1, <2>2 DEF Operation
<1>4. ASSUME NEW src \in Sources, NEW index \in Nat, vector_insert(index, src)
      PROVE  VectorInv' /\ Operation
  <2>1. /\ VectorInv' /\ index + 1 \in 1 .. count + 1
        /\ \E e \in Elems : Container!InsertBefore("v", index + 1, e)
    BY <1>4, InsertStep, Zenon
  <2> QED BY <1>1, <2>1 DEF Operation
<1>5. ASSUME NEW src \in Sources, NEW index \in Nat, vector_set(index, src)
      PROVE  VectorInv' /\ Operation
  <2>1. /\ VectorInv' /\ index + 1 \in 1 .. Len(Contents)
        /\ \E e \in Elems : Container!Replace("v", index + 1, e)
    BY <1>5, SetStep, Zenon
  <2> QED BY <2>1 DEF Operation
<1>6. ASSUME NEW index \in Nat, vector_remove(index)
      PROVE  VectorInv' /\ Operation
  BY <1>6, RemoveStep DEF Operation
<1>7. ASSUME vector_pop
      PROVE  VectorInv' /\ Operation
  BY <1>7, PopStep DEF Operation
<1>8. ASSUME vector_clear
      PROVE  VectorInv' /\ Operation
  BY <1>8, ClearStep DEF Operation
<1>9. ASSUME NEW e \in Elems, Write(e)
      PROVE  VectorInv' /\ (Operation \/ Contents' = Contents)
  BY <1>9, WriteStep DEF Operation
<1>10. ASSUME NEW index \in Nat, vector_at(index)
       PROVE  VectorInv' /\ Contents' = Contents
  BY <1>10, AtStep
<1>11. ASSUME \/ \E index \in 0 .. MaxCount : vector_reserve(index)
              \/ vector_shrink_to_fit
       PROVE  VectorInv' /\ Contents' = Contents
  BY <1>2, <1>11, ResizeStep
<1> QED BY <1>2, <1>3, <1>4, <1>5, <1>6, <1>7, <1>8, <1>9, <1>10, <1>11, Zenon DEF Next

\* Each call does to the container what its index and its element say.
LEMMA CallsAct ==
    ASSUME VectorInv
    PROVE  Acts
<1>1. 0 .. MaxCount \subseteq Nat
  OBVIOUS
<1>2. ASSUME NEW src \in Sources
      PROVE  Puts(src)
  <2>1. vector_push(src) => \E e \in Given(src) : Container!InsertBefore("v", count + 1, e)
    BY <1>2, PushStep, Zenon
  <2>2. ASSUME NEW index \in Nat
        PROVE  /\ vector_insert(index, src) =>
                      \E e \in Given(src) : Container!InsertBefore("v", index + 1, e)
               /\ vector_set(index, src) =>
                      \E e \in Given(src) : Container!Replace("v", index + 1, e)
    BY <1>2, InsertStep, SetStep, Zenon
  <2> QED BY <1>1, <2>1, <2>2, Zenon DEF Puts
<1>3. ASSUME NEW index \in Nat
      PROVE  /\ vector_remove(index) => Container!Erase("v", index + 1)
             /\ vector_reserve(index) \/ vector_at(index) => Container!Look
  <2>1. vector_remove(index) => Container!Erase("v", index + 1)
    BY RemoveStep
  <2>2. vector_reserve(index) \/ vector_at(index) => Contents' = Contents
    BY ResizeStep, AtStep
  <2> QED BY <2>1, <2>2 DEF Container!Look
<1>4. vector_pop => Container!Erase("v", count)
  BY PopStep
<1>5. vector_clear => Container!Clear("v")
  BY ClearStep
<1>6. vector_shrink_to_fit => Container!Look
  <2>1. vector_shrink_to_fit => Contents' = Contents
    BY ResizeStep
  <2> QED BY <2>1 DEF Container!Look
<1>7. ASSUME NEW e \in Elems, Write(e)
      PROVE  IF Good THEN Container!Replace("v", held.index + 1, e) ELSE Container!Look
  BY <1>7, WriteStep DEF Container!Look
<1> QED BY <1>1, <1>2, <1>3, <1>4, <1>5, <1>6, <1>7, Zenon DEF Acts

\* Stuttering included, every step keeps the vector sound.
LEMMA VectorStep == VectorInv /\ [Next]_vars => VectorInv'
<1> SUFFICES ASSUME VectorInv, [Next]_vars
             PROVE  VectorInv'
  OBVIOUS
<1>1. CASE Next
  BY <1>1, NextStep
<1>2. CASE UNCHANGED vars
  <2>1. UNCHANGED <<heap, data, count, capacity, held, lost>>
    BY <1>2 DEF vars
  <2> QED BY <2>1 DEF VectorInv, Sound, PointerType
<1> QED BY <1>1, <1>2

\* The vector always stands in one live buffer, exactly as large as its capacity, with its
\* elements inside it (vector.c:112, 345).
THEOREM VectorAlwaysSound == Spec => []VectorInv
<1>1. Init => VectorInv
  BY InitSound
<1>2. VectorInv /\ [Next]_vars => VectorInv'
  BY VectorStep
<1> QED BY <1>1, <1>2, PTL DEF Spec

\* No other buffer is left allocated than those an emptied vector grew out of
\* (vector.c:115).
THEOREM OneBufferAlways == Spec => []OneBuffer
<1>1. VectorInv => OneBuffer
  BY DEF VectorInv, Sound, OneBuffer, Freed
<1> QED BY <1>1, VectorAlwaysSound, PTL

\* Across every change of buffer the vector is the sequence an ordered container promises,
\* and each call does to it what its index and its element say (vector.c:166, 238).
THEOREM VectorIsAContainer == Spec => ImplementsContainer
<1>1. Init => Container!Init
  BY InitSound
<1>2. VectorInv => Acts
  BY CallsAct
<1>3. VectorInv /\ [Next]_vars => [Acts]_vars
  BY <1>2
<1> QED BY <1>1, <1>3, VectorAlwaysSound, PTL DEF Spec, ImplementsContainer

-----------------------------------------------------------------------------
(* The vector's own element as the argument of a call. *)

\* What the container holds after a call is what the vector holds.
LEMMA HoldsMeans ==
    ASSUME NEW s, Container!Holds("v", s)
    PROVE  Contents' = s
<1>1. [o \in {"v"} |-> Contents'] = [o \in {"v"} |-> s]
  BY DEF Container!Holds
<1>2. [o \in {"v"} |-> Contents']["v"] = [o \in {"v"} |-> s]["v"]
  BY <1>1
<1> QED BY <1>2

\* Every element was put there by the program: no call makes a cell nobody wrote one.
LEMMA ElementsStay ==
    ASSUME Contents \in Seq(Elems), Operation \/ Contents' = Contents
    PROVE  Contents' \in Seq(Elems)
<1> DEFINE s == Contents
<1>0. s \in Seq(Elems) /\ Len(s) \in Nat
  OBVIOUS
<1>1. ASSUME NEW i \in 1 .. Len(s) + 1, NEW e \in Elems, Container!InsertBefore("v", i, e)
      PROVE  Contents' \in Seq(Elems)
  <2>1. Contents' = SubSeq(s, 1, i - 1) \o <<e>> \o SubSeq(s, i, Len(s))
    BY <1>1, HoldsMeans DEF Container!InsertBefore, Container!InsertAt
  <2> HIDE DEF s
  <2>2. SubSeq(s, 1, i - 1) \in Seq(Elems)
    BY <1>0, Beginning
  <2>3. SubSeq(s, i, Len(s)) \in Seq(Elems)
    BY <1>0, Part
  <2>4. <<e>> \in Seq(Elems)
    OBVIOUS
  <2>5. Join(Elems, SubSeq(s, 1, i - 1) \o <<e>> \o SubSeq(s, i, Len(s)),
             SubSeq(s, 1, i - 1), <<e>>, SubSeq(s, i, Len(s)))
    BY <2>2, <2>3, <2>4, Joined
  <2> QED BY <2>1, <2>5 DEF Join
<1>2. ASSUME NEW i \in 1 .. Len(s), Container!Erase("v", i)
      PROVE  Contents' \in Seq(Elems)
  <2>1. Contents' = SubSeq(s, 1, i - 1) \o SubSeq(s, i + 1, Len(s))
    BY <1>2, HoldsMeans DEF Container!Erase, Container!RemoveAt
  <2> HIDE DEF s
  <2>2. SubSeq(s, 1, i - 1) \in Seq(Elems)
    BY <1>0, Beginning
  <2>3. SubSeq(s, i + 1, Len(s)) \in Seq(Elems)
    <3> DEFINE m == i + 1
    <3>1. m \in Nat \ {0} /\ m <= Len(s) + 1
      BY <1>0
    <3> HIDE DEF m
    <3>2. SubSeq(s, m, Len(s)) \in Seq(Elems)
      BY <1>0, <3>1, Part
    <3> QED BY <3>2 DEF m
  <2> QED BY <2>1, <2>2, <2>3, ConcatProperties
<1>3. ASSUME NEW i \in 1 .. Len(s), NEW e \in Elems, Container!Replace("v", i, e)
      PROVE  Contents' \in Seq(Elems)
  <2>1. Contents' = [s EXCEPT ![i] = e]
    BY <1>3, HoldsMeans DEF Container!Replace, Container!ReplaceAt
  <2> HIDE DEF s
  <2> QED BY <1>0, <2>1, ExceptSeq
<1>4. ASSUME Container!Clear("v")
      PROVE  Contents' \in Seq(Elems)
  <2>1. Contents' = <<>>
    BY <1>4, HoldsMeans DEF Container!Clear
  <2> QED BY <2>1
<1> QED BY <1>0, <1>1, <1>2, <1>3, <1>4 DEF Operation

\* A pointer to an element reads that element in every heap whose block still holds it.
LEMMA ReadsOwn ==
    ASSUME VectorInv, Contents \in Seq(Elems), Good,
           NEW h \in [Blocks -> Seq(Cells)], count <= Len(h[data]),
           h[data][held.index + 1] = heap[data][held.index + 1]
    PROVE  /\ Read(Own, h) = {heap[data][held.index + 1]}
           /\ heap[data][held.index + 1] \in Elems
           /\ held.index \in Nat /\ held.index < count
<1>1. data \in Nat \ {0} /\ count \in Nat
  BY Stays, SizesAssumption DEF Blocks
<1>2. held.block = data /\ held.index < count
  BY DEF Good
<1>3. held.index \in Nat
  BY <1>1, <1>2 DEF VectorInv, PointerType, NoPointer
<1>4. Len(Contents) = count /\ \A i \in 1 .. count : Contents[i] = heap[data][i]
  BY ContentsAre
<1>5. held.index + 1 \in 1 .. count
  BY <1>1, <1>2, <1>3
<1>6. heap[data][held.index + 1] \in Elems
  <2>1. Contents[held.index + 1] \in Elems
    BY <1>4, <1>5
  <2> QED BY <1>4, <1>5, <2>1
<1>7. heap[data][held.index + 1] # Unset
  BY <1>6, ElementsAssumption
<1>8. held.index < Len(h[held.block])
  <2>1. h[data] \in Seq(Cells)
    BY Stays
  <2>2. Len(h[data]) \in Nat
    BY <2>1
  <2> QED BY <1>1, <1>2, <1>3, <2>2
<1>9. Deref(h) = {heap[data][held.index + 1]}
  BY <1>2, <1>7, <1>8 DEF Deref
<1> QED BY <1>2, <1>3, <1>6, <1>9 DEF Read, Own

\* While there is room, nothing grows.
LEMMA NoGrowth ==
    ASSUME VectorInv, count < capacity
    PROVE  vector_grow(count + 1) = {V}
<1>1. count \in Nat /\ capacity \in Nat
  BY Stays
<1>2. capacity >= count + 1
  BY <1>1
<1> QED BY <1>2 DEF vector_grow

\* Pushed by its own address, an element is stored as it was.
LEMMA OwnPushed ==
    ASSUME VectorInv, Contents \in Seq(Elems), Good, count < capacity, vector_push(Own)
    PROVE  Last(Contents') = heap[data][held.index + 1]
<1> DEFINE e == heap[data][held.index + 1]
           cells == [heap[data] EXCEPT ![count + 1] = e]
<1>1. /\ heap \in [Blocks -> Seq(Cells)] /\ data \in Blocks
      /\ heap[data] \in Seq(Cells) /\ Len(heap[data]) = capacity
      /\ count \in Nat /\ capacity \in Nat /\ count <= capacity
      /\ V.heap = heap /\ V.data = data /\ V.count = count
  BY Stays
<1>2. Read(Own, heap) = {e} /\ e \in Elems
  BY <1>1, ReadsOwn
<1>3. Becomes([Store(V, count, e) EXCEPT !.count = @ + 1])
  <2>1. \E v \in {V} : \E x \in Read(Own, v.heap) :
            Becomes([Store(v, count, x) EXCEPT !.count = @ + 1])
    BY NoGrowth, Zenon DEF vector_push
  <2>2. \E x \in Read(Own, V.heap) : Becomes([Store(V, count, x) EXCEPT !.count = @ + 1])
    BY <2>1, Zenon
  <2> HIDE DEF e
  <2>3. \E x \in {e} : Becomes([Store(V, count, x) EXCEPT !.count = @ + 1])
    BY <1>1, <1>2, <2>2, Zenon
  <2> QED BY <2>3, Zenon
<1>4. /\ heap' = [heap EXCEPT ![data] = cells] /\ count' = count + 1
      /\ UNCHANGED <<data, capacity, lost, held>>
  <2> HIDE DEF e
  <2> QED BY <1>1, <1>3 DEF Becomes, Store, V
<1>5. /\ cells \in Seq(Cells) /\ Len(cells) = capacity
      /\ cells[count + 1] = e
  <2> HIDE DEF e
  <2>1. count < Len(heap[data]) /\ count + 1 \in 1 .. Len(heap[data])
    BY <1>1
  <2> QED BY <1>1, <1>2, <2>1, CellReplaced
<1> DEFINE m == count + 1
<1>6. m \in Nat \ {0} /\ m <= capacity
  BY <1>1
<1> HIDE DEF cells, e
<1>7. Contents' = SubSeq(cells, 1, m)
  BY <1>4, <1>5, <1>6, LeavesHere
<1> HIDE DEF m
<1>8. Len(SubSeq(cells, 1, m)) = m /\ SubSeq(cells, 1, m)[m] = cells[m]
  <2>1. m \in 1 .. m
    BY <1>6
  <2> QED BY <1>5, <1>6, <2>1, Beginning
<1> QED BY <1>5, <1>7, <1>8 DEF Last, m, e

\* Inserted by its own address where it is not shifted away, an element is stored as it was.
LEMMA OwnInserted ==
    ASSUME VectorInv, Contents \in Seq(Elems), Good, count < capacity,
           NEW index \in held.index .. count, vector_insert(index, Own)
    PROVE  Contents'[index + 1] = heap[data][held.index + 1]
<1> DEFINE e == heap[data][held.index + 1]
           old == heap[data]
           gap == SubSeq(old, 1, index + 1) \o SubSeq(old, index + 1, count)
                     \o SubSeq(old, count + 2, Len(old))
           open == OpenGap(V, index)
           moved == [heap EXCEPT ![data] = gap]
           cells == [gap EXCEPT ![index + 1] = e]
<1>1. /\ heap \in [Blocks -> Seq(Cells)] /\ data \in Blocks
      /\ old \in Seq(Cells) /\ Len(old) = capacity
      /\ count \in Nat /\ capacity \in Nat /\ count <= capacity
      /\ V.heap = heap /\ V.data = data /\ V.count = count
  BY Stays
<1>2. /\ held.index \in Nat /\ held.index < count
      /\ e \in Elems
  BY <1>1, ReadsOwn
<1>3. index \in 0 .. count /\ held.index <= index
  BY <1>1, <1>2
<1> HIDE DEF e
<1>4. /\ gap \in Seq(Cells) /\ Len(gap) = capacity
      /\ \A j \in 1 .. count + 1 : gap[j] = IF j <= index + 1 THEN old[j] ELSE old[j - 1]
  <2>1. count + 1 <= Len(old)
    BY <1>1
  <2> HIDE DEF old
  <2> QED BY <1>1, <1>3, <2>1, Opened
<1>5. open.heap = moved /\ open.data = data /\ open.count = count
      /\ open.capacity = capacity /\ open.lost = lost
  BY DEF OpenGap, V
<1> HIDE DEF gap, open
<1>6. moved \in [Blocks -> Seq(Cells)] /\ moved[data] = gap
  BY <1>1, <1>4
<1>7. Read(Own, moved) = {e}
  <2>1. held.index + 1 \in 1 .. count + 1 /\ held.index + 1 <= index + 1
    BY <1>1, <1>2, <1>3
  <2>2. moved[data][held.index + 1] = heap[data][held.index + 1]
    BY <1>4, <1>6, <2>1
  <2>3. count <= Len(moved[data])
    BY <1>1, <1>4, <1>6
  <2> HIDE DEF moved
  <2> QED BY <1>6, <2>2, <2>3, ReadsOwn DEF e
<1> HIDE DEF moved
<1>8. Becomes([Store(open, index, e) EXCEPT !.count = @ + 1])
  <2>1. \E v \in {V} : \E x \in Read(Own, OpenGap(v, index).heap) :
            Becomes([Store(OpenGap(v, index), index, x) EXCEPT !.count = @ + 1])
    BY NoGrowth, Zenon DEF vector_insert
  <2>2. \E x \in Read(Own, open.heap) :
            Becomes([Store(open, index, x) EXCEPT !.count = @ + 1])
    BY <2>1, Zenon DEF open
  <2>3. \E x \in {e} : Becomes([Store(open, index, x) EXCEPT !.count = @ + 1])
    BY <1>5, <1>7, <2>2, Zenon
  <2> QED BY <2>3, Zenon
<1>9. /\ heap' = [heap EXCEPT ![data] = cells] /\ count' = count + 1
      /\ UNCHANGED <<data, capacity, lost, held>>
  <2>1. heap' = [open.heap EXCEPT ![open.data][index + 1] = e]
    BY <1>8 DEF Becomes, Store
  <2>2. heap' = [heap EXCEPT ![data] = cells]
    BY <1>1, <1>5, <1>6, <2>1 DEF moved
  <2>3. /\ data' = open.data /\ count' = open.count + 1
        /\ capacity' = open.capacity /\ lost' = open.lost /\ UNCHANGED held
    BY <1>8 DEF Becomes, Store
  <2> QED BY <1>5, <2>2, <2>3
<1>10. /\ cells \in Seq(Cells) /\ Len(cells) = capacity
       /\ cells[index + 1] = e
  <2>1. index \in Nat /\ index < Len(gap) /\ index + 1 \in 1 .. Len(gap)
    BY <1>1, <1>3, <1>4
  <2> QED BY <1>2, <1>4, <2>1, CellReplaced
<1> DEFINE m == count + 1
<1>11. m \in Nat /\ m <= capacity /\ index + 1 \in 1 .. m
  BY <1>1, <1>3
<1> HIDE DEF cells
<1>12. Contents' = SubSeq(cells, 1, m)
  BY <1>9, <1>10, <1>11, LeavesHere
<1> HIDE DEF m
<1>13. SubSeq(cells, 1, m)[index + 1] = cells[index + 1]
  BY <1>10, <1>11, Beginning
<1> QED BY <1>10, <1>12, <1>13 DEF e

\* Every element of the vector is one the program gave it.
THEOREM ElementsAlwaysWritten == Spec => [](Contents \in Seq(Elems))
<1>1. Init => Contents \in Seq(Elems)
  BY SubSeqEmpty DEF Init, Contents
<1>2. VectorInv /\ Contents \in Seq(Elems) /\ [Next]_vars => (Contents \in Seq(Elems))'
  <2>1. SUFFICES ASSUME VectorInv, Contents \in Seq(Elems), [Next]_vars
                 PROVE  Contents' \in Seq(Elems)
    OBVIOUS
  <2>2. CASE Next
    BY <2>1, <2>2, NextStep, ElementsStay
  <2>3. CASE UNCHANGED vars
    <3>1. Contents' = Contents
      BY <2>3 DEF vars, Contents
    <3> QED BY <2>1, <3>1
  <2> QED BY <2>1, <2>2, <2>3
<1> QED BY <1>1, <1>2, VectorAlwaysSound, PTL DEF Spec

\* An element of the vector can be pushed or inserted again by its own address as long as
\* there is room and the insertion does not shift it (vector.c:180, 238).
THEOREM OwnElementAlwaysStored == Spec => OwnElementStored
<1> DEFINE Stored ==
        Good /\ count < capacity =>
          LET e == heap[data][held.index + 1]
          IN  /\ vector_push(Own) => Last(Contents') = e
              /\ \A index \in held.index .. count :
                    vector_insert(index, Own) => Contents'[index + 1] = e
<1>1. VectorInv /\ Contents \in Seq(Elems) /\ [Next]_vars => [Stored]_vars
  BY OwnPushed, OwnInserted
<1> QED BY <1>1, VectorAlwaysSound, ElementsAlwaysWritten, PTL DEF Spec, OwnElementStored
=============================================================================

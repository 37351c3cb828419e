-------------------------- MODULE LinkedListProofs --------------------------
(***************************************************************************)
(* The lists, for every set of lists and of elements and a heap of any     *)
(* size.                                                                   *)
(*                                                                         *)
(* The links say which chain of nodes a list goes through; the argument    *)
(* is about those chains.  ListsOK: there is a chain for each list, no two *)
(* of them share a node, and a node that is in none is free or was lost;   *)
(* and while its node lives, what the iterator has passed is before it in  *)
(* one of the chains and what it owes behind it.  Every operation moves    *)
(* one chain to another, which is found loop by loop where the code has a  *)
(* loop; a merge joins two.                                                *)
(***************************************************************************)
EXTENDS LinkedList, SequenceLemmas

-----------------------------------------------------------------------------
(* A list and its chain. *)

Heaps == [Nodes -> [next : Links, prev : Links, data : Elems \cup {NULL}]]

\* The node at place i of a chain, or no node beyond its ends.
At(c, i) == IF i \in 1 .. Len(c) THEN c[i] ELSE NULL

\* The list s goes through the nodes of c, in that order.
IsList(s, c) ==
    /\ s.node \in Heaps
    /\ c \in Seq(Nodes)
    /\ \A i, j \in 1 .. Len(c) : c[i] = c[j] => i = j
    /\ s.head = At(c, 1) /\ s.tail = At(c, Len(c)) /\ s.count = Len(c)
    /\ \A i \in 1 .. Len(c) : /\ s.node[c[i]].next = At(c, i + 1)
                              /\ s.node[c[i]].prev = At(c, i - 1)
                              /\ s.node[c[i]].data \in Elems

\* What the nodes of a chain hold.
Data(heap, c) == [i \in 1 .. Len(c) |-> heap[c[i]].data]

\* NULL is no node.
LEMMA NoNode == NODES \in Nat /\ NULL \notin Nodes /\ NULL \in Links /\ Nodes \subseteq Links
  BY SizesAssumption DEF Nodes, Links, NULL

\* A chain is no longer than there are nodes.
LEMMA ChainFits ==
    ASSUME NEW c \in Seq(Nodes), \A i, j \in 1 .. Len(c) : c[i] = c[j] => i = j
    PROVE  Len(c) \in 0 .. NODES
<1> DEFINE D == 1 .. Len(c)
<1>1. Len(c) \in Nat /\ NODES \in Nat  BY NoNode
<1>2. IsFiniteSet(D) /\ Cardinality(D) = Len(c)
      /\ IsFiniteSet(Nodes) /\ Cardinality(Nodes) = NODES
  <2>1. ASSUME NEW n \in Nat  PROVE IsFiniteSet(1 .. n) /\ Cardinality(1 .. n) = n
    <3>1. 1 \in Int /\ n \in Int /\ ~(1 > n) => n - 1 + 1 = n  BY <2>1
    <3>2. IsFiniteSet(1 .. n) /\ Cardinality(1 .. n) = IF 1 > n THEN 0 ELSE n - 1 + 1
      BY <3>1, FS_Interval
    <3> QED  BY <3>2
  <2> QED  BY <1>1, <2>1 DEF Nodes
<1>3. c \in Injection(D, Nodes)
  BY DEF Injection, IsInjective
<1>4. Cardinality(D) <= Cardinality(Nodes)
  BY <1>2, <1>3, FS_Injection DEF ExistsInjection
<1> QED  BY <1>1, <1>2, <1>4

\* What is left of a sequence from place p on.
LEMMA RestIs ==
    ASSUME NEW S, NEW c \in Seq(S), NEW n, n = Len(c), NEW p \in 1 .. n + 1
    PROVE  /\ SubSeq(c, p, n) \in Seq(S) /\ Len(SubSeq(c, p, n)) = n - p + 1
           /\ \A i \in 1 .. n - p + 1 : SubSeq(c, p, n)[i] = c[p + i - 1]
  BY Part

\* The rest from p on is the element at p and the rest behind it.
LEMMA RestOneLess ==
    ASSUME NEW S, NEW c \in Seq(S), NEW n, n = Len(c), NEW p \in 1 .. n
    PROVE  SubSeq(c, p, n) = <<c[p]>> \o SubSeq(c, p + 1, n)
<1> DEFINE m == p + 1
           r == SubSeq(c, p, n)
           q == SubSeq(c, m, n)
           one == <<c[p]>>
           w == one \o q
<1>1. n \in Nat /\ p \in 1 .. n + 1 /\ m \in 1 .. n + 1 /\ n - m + 1 = n - p
      /\ \A i \in 1 .. n - p : m + i - 1 = p + i
  OBVIOUS
<1>2. r \in Seq(S) /\ Len(r) = n - p + 1 /\ \A i \in 1 .. n - p + 1 : r[i] = c[p + i - 1]
  <2> HIDE DEF m
  <2> QED  BY <1>1, RestIs
<1>3. q \in Seq(S) /\ Len(q) = n - p /\ \A i \in 1 .. n - p : q[i] = c[p + i]
  <2> HIDE DEF m
  <2>1. q \in Seq(S) /\ Len(q) = n - m + 1 /\ \A i \in 1 .. n - m + 1 : q[i] = c[m + i - 1]
    BY <1>1, RestIs
  <2> HIDE DEF q
  <2> QED  BY <1>1, <2>1
<1>4. one \in Seq(S) /\ Len(one) = 1 /\ one[1] = c[p]
  BY <1>1, ElementOfSeq
<1> HIDE DEF r, q, one
<1>5. w \in Seq(S) /\ Len(w) = n - p + 1
      /\ \A i \in 1 .. n - p + 1 : w[i] = IF i <= 1 THEN one[i] ELSE q[i - 1]
  <2>1. w \in Seq(S) /\ Len(w) = 1 + Len(q)
        /\ \A i \in 1 .. 1 + Len(q) : w[i] = IF i <= 1 THEN one[i] ELSE q[i - 1]
    <3>1. one \o q \in Seq(S) /\ Len(one \o q) = Len(one) + Len(q)
          /\ \A i \in 1 .. Len(one) + Len(q) :
                (one \o q)[i] = IF i <= Len(one) THEN one[i] ELSE q[i - Len(one)]
      BY <1>3, <1>4, ConcatProperties
    <3> QED  BY <1>4, <3>1
  <2>2. 1 + Len(q) = n - p + 1  BY <1>1, <1>3
  <2> HIDE DEF w
  <2> QED  BY <2>1, <2>2
<1> HIDE DEF w
<1>6. ASSUME NEW i \in 1 .. n - p + 1  PROVE r[i] = w[i]
  <2>1. r[i] = c[p + i - 1]  BY <1>2
  <2>2. CASE i = 1  BY <1>1, <1>4, <1>5, <2>1, <2>2
  <2>3. CASE i # 1
    <3>1. i - 1 \in 1 .. n - p /\ p + (i - 1) = p + i - 1 /\ ~(i <= 1)  BY <1>1, <2>3
    <3> QED  BY <1>3, <1>5, <2>1, <3>1
  <2> QED  BY <2>2, <2>3
<1>7. r = w  BY <1>2, <1>5, <1>6, SeqEqual
<1> QED  BY <1>7 DEF r, w, q, one, m

\* From the first node of a chain whose links follow it, a walk meets the chain.
LEMMA WalkAlong ==
    ASSUME NEW c \in Seq(Nodes), Len(c) <= NODES, NEW links \in [Nodes -> Links],
           \A i \in 1 .. Len(c) : links[c[i]] = At(c, i + 1)
    PROVE  Walk(At(c, 1), links) = c
<1> DEFINE S == [Links -> Seq(Nodes)]
           a == [n \in Links |-> <<>>]
           On(f, n) == IF n = NULL THEN <<>> ELSE <<n>> \o f[links[n]]
           step == [i \in Nat |-> [f \in S |-> [n \in Links |-> On(f, n)]]]
           Body(g) == [left \in 0 .. NODES |->
                         [n \in Links |-> IF n = NULL \/ left = 0 THEN <<>>
                                          ELSE <<n>> \o g[left - 1][links[n]]]]
           All(g) == g = Body(g)
<1>1. NODES \in Nat /\ Len(c) \in Nat  BY NoNode
<1>2. ASSUME NEW f \in S, NEW n \in Links  PROVE On(f, n) \in Seq(Nodes)
  <2>1. CASE n = NULL  BY <2>1
  <2>2. CASE n # NULL
    <3>1. n \in Nodes /\ links[n] \in Links  BY <2>2 DEF Links
    <3>2. f[links[n]] \in Seq(Nodes) /\ <<n>> \in Seq(Nodes)  BY <3>1
    <3> QED  BY <2>2, <3>2
  <2> QED  BY <2>1, <2>2
<1>3. a \in S  OBVIOUS
<1>4. step \in [Nat -> [S -> S]]
  <2> SUFFICES ASSUME NEW f \in S  PROVE [n \in Links |-> On(f, n)] \in S  OBVIOUS
  <2> HIDE DEF On
  <2> QED  BY <1>2
<1>5. PICK f \in [0 .. NODES -> S] : Goes(f, a, step, NODES)
  <2> HIDE DEF step, a, S
  <2> QED  BY <1>1, <1>3, <1>4, Iterated
<1>6. f[0] = a /\ \A i \in 1 .. NODES : f[i] = [n \in Links |-> On(f[i - 1], n)]
  <2>1. f[0] = a /\ \A i \in 1 .. NODES : f[i] = step[i][f[i - 1]]
    BY <1>5 DEF Goes
  <2>2. ASSUME NEW i \in 1 .. NODES  PROVE f[i] = [n \in Links |-> On(f[i - 1], n)]
    <3>1. f[i - 1] \in S /\ i \in Nat  BY <1>1, <1>5
    <3>2. step[i][f[i - 1]] = [n \in Links |-> On(f[i - 1], n)]  BY <3>1
    <3> QED  BY <2>1, <3>2
  <2> QED  BY <2>1, <2>2
<1>7. All(f)
  <2>1. ASSUME NEW left \in 0 .. NODES
        PROVE  f[left] = [n \in Links |-> IF n = NULL \/ left = 0 THEN <<>>
                                          ELSE <<n>> \o f[left - 1][links[n]]]
    <3>1. CASE left = 0  BY <1>6, <3>1
    <3>2. CASE left # 0
      <4>1. left \in 1 .. NODES  BY <1>1, <3>2
      <4> QED  BY <1>6, <3>2, <4>1
    <3> QED  BY <3>1, <3>2
  <2>2. f = [left \in 0 .. NODES |-> f[left]]  BY <1>5
  <2> QED  BY <2>1, <2>2
<1> DEFINE g == CHOOSE h : All(h)
<1>8. All(g)
  <2> HIDE DEF All
  <2> QED  BY <1>7, Zenon
<1>9. Walk(At(c, 1), links) = g[NODES][At(c, 1)]
  BY Zenon DEF Walk
<1> HIDE DEF g
<1>10. \A left \in 0 .. NODES, m \in Links :
          g[left][m] = IF m = NULL \/ left = 0 THEN <<>> ELSE <<m>> \o g[left - 1][links[m]]
  <2> DEFINE B == Body(g)
  <2>1. g = B  BY <1>8
  <2>2. \A left \in 0 .. NODES, n \in Links :
          B[left][n] = IF n = NULL \/ left = 0 THEN <<>> ELSE <<n>> \o g[left - 1][links[n]]
    OBVIOUS
  <2> HIDE DEF B
  <2> QED  BY <2>1, <2>2, Zenon
<1> DEFINE n == Len(c)
           Rest(p) == SubSeq(c, p, n)
           Good(left) == \A p \in 1 .. n + 1 : n + 1 - p <= left => g[left][At(c, p)] = Rest(p)
           Bad == {left \in 0 .. NODES : ~Good(left)}
<1>11. Bad = {}
  <2> SUFFICES ASSUME Bad # {}  PROVE FALSE  OBVIOUS
  <2>1. PICK left \in Bad : \A j \in Bad : left <= j
    <3>1. Bad \subseteq Nat  BY <1>1
    <3> HIDE DEF Bad
    <3> QED  BY <3>1, HasLeast
  <2>2. PICK p \in 1 .. n + 1 : n + 1 - p <= left /\ g[left][At(c, p)] # Rest(p)
    BY <2>1
  <2>3. left \in 0 .. NODES /\ n \in Nat  BY <1>1, <2>1
  <2>a. \A j \in 0 .. NODES : Good(j) \/ left <= j  BY <2>1
  <2> HIDE DEF n, Bad, Good
  <2>4. CASE p = n + 1
    <3>1. At(c, p) = NULL  BY <2>3, <2>4 DEF At, n
    <3>2. Rest(p) = <<>>
      <4>1. Rest(p) \in Seq(Nodes) /\ Len(Rest(p)) = n - p + 1  BY RestIs DEF n
      <4> HIDE DEF Rest
      <4>2. Len(Rest(p)) = 0  BY <2>3, <2>4, <4>1
      <4> QED  BY <4>1, <4>2
    <3>3. g[left][NULL] = <<>>  BY <1>10, <2>3, NoNode
    <3> QED  BY <2>2, <3>1, <3>2, <3>3
  <2>5. CASE p # n + 1
    <3> DEFINE q == p + 1
    <3>1. p \in 1 .. n /\ q \in 1 .. n + 1 /\ left # 0 /\ left - 1 \in 0 .. NODES
          /\ n + 1 - q <= left - 1 /\ ~(left <= left - 1)
      BY <1>1, <2>2, <2>3, <2>5
    <3>2. At(c, p) = c[p] /\ c[p] \in Nodes /\ c[p] # NULL /\ c[p] \in Links
      BY <3>1, NoNode, ElementOfSeq DEF At, n
    <3>3. links[c[p]] = At(c, q)  BY <3>1 DEF n
    <3> HIDE DEF q
    <3>4. g[left - 1][At(c, q)] = Rest(q)
      <4>1. Good(left - 1)  BY <2>a, <3>1
      <4> QED  BY <3>1, <4>1 DEF Good
    <3>5. g[left][c[p]] = <<c[p]>> \o Rest(q)
      <4> HIDE DEF Rest
      <4> QED  BY <1>10, <2>3, <3>1, <3>2, <3>3, <3>4
    <3>6. Rest(p) = <<c[p]>> \o Rest(q)
      BY <3>1, RestOneLess DEF n, q
    <3> HIDE DEF Rest
    <3> QED  BY <2>2, <3>2, <3>5, <3>6
  <2> QED  BY <2>4, <2>5
<1>12. g[NODES][At(c, 1)] = Rest(1)
  <2>1. Good(NODES)
    <3>1. NODES \in 0 .. NODES  BY <1>1
    <3> HIDE DEF Good
    <3> QED  BY <1>11, <3>1
  <2>2. 1 \in 1 .. n + 1 /\ n + 1 - 1 <= NODES  BY <1>1
  <2> HIDE DEF Rest
  <2> QED  BY <2>1, <2>2
<1>13. Rest(1) = c
  <2>1. Rest(1) \in Seq(Nodes) /\ Len(Rest(1)) = Len(c)
        /\ \A i \in 1 .. Len(c) : Rest(1)[i] = c[i]
    BY <1>1, Beginning
  <2> QED  BY <2>1
<1> QED  BY <1>9, <1>12, <1>13

\* The walks of a list, forwards and backwards.
LEMMA WalksAre ==
    ASSUME NEW s, NEW c, IsList(s, c)
    PROVE  /\ Walk(s.head, [n \in Nodes |-> s.node[n].next]) = c
           /\ Walk(s.tail, [n \in Nodes |-> s.node[n].prev]) = Reverse(c)
<1> DEFINE len == Len(c)
           d == Reverse(c)
           nexts == [n \in Nodes |-> s.node[n].next]
           prevs == [n \in Nodes |-> s.node[n].prev]
<1>1. c \in Seq(Nodes) /\ len \in Nat /\ len <= NODES
  BY ChainFits, NoNode DEF IsList
<1>2. nexts \in [Nodes -> Links] /\ prevs \in [Nodes -> Links]
  BY DEF IsList, Heaps
<1>3. \A i \in 1 .. len : c[i] \in Nodes  BY ElementOfSeq, <1>1
<1>4. \A i \in 1 .. len : nexts[c[i]] = At(c, i + 1) /\ prevs[c[i]] = At(c, i - 1)
  BY <1>3 DEF IsList
<1>5. d \in Seq(Nodes) /\ Len(d) = len /\ \A i \in 1 .. len : d[i] = c[len - i + 1]
  BY <1>1, <1>3 DEF Reverse
<1> HIDE DEF nexts, prevs, d, len
<1>6. ASSUME NEW i \in 1 .. len  PROVE prevs[d[i]] = At(d, i + 1)
  <2> DEFINE j == len - i + 1
  <2>1. j \in 1 .. len /\ j - 1 = len - i  BY <1>1
  <2>2. d[i] = c[j]  BY <1>5
  <2>3. prevs[c[j]] = At(c, j - 1)
    <3> HIDE DEF j
    <3> QED  BY <1>4, <2>1
  <2>4. At(c, len - i) = At(d, i + 1)
    <3>1. CASE i = len
      <4>1. len - i \notin 1 .. Len(c) /\ i + 1 \notin 1 .. Len(d)  BY <1>1, <1>5, <3>1 DEF len
      <4> QED  BY <4>1 DEF At
    <3>2. CASE i # len
      <4>1. len - i \in 1 .. len /\ i + 1 \in 1 .. len /\ len - (i + 1) + 1 = len - i
        BY <1>1, <3>2
      <4>2. d[i + 1] = c[len - i]  BY <1>5, <4>1
      <4> QED  BY <1>5, <4>1, <4>2 DEF At, len
    <3> QED  BY <3>1, <3>2
  <2> QED  BY <2>1, <2>2, <2>3, <2>4
<1>7. Walk(At(c, 1), nexts) = c
  BY <1>1, <1>2, <1>4, WalkAlong DEF len
<1>8. Walk(At(d, 1), prevs) = d
  <2>1. Len(d) <= NODES /\ \A i \in 1 .. Len(d) : prevs[d[i]] = At(d, i + 1)
    BY <1>1, <1>5, <1>6
  <2> QED  BY <1>2, <1>5, <2>1, WalkAlong
<1>9. At(d, 1) = s.tail /\ At(c, 1) = s.head
  <2>1. s.tail = At(c, len) /\ s.head = At(c, 1)  BY DEF IsList, len
  <2>2. At(d, 1) = At(c, len)
    <3>1. CASE len = 0  BY <1>5, <3>1 DEF At, len
    <3>2. CASE len # 0
      <4>1. 1 \in 1 .. len /\ len \in 1 .. len /\ len - 1 + 1 = len  BY <1>1, <3>2
      <4>2. d[1] = c[len]  BY <1>5, <4>1
      <4> QED  BY <1>5, <4>1, <4>2 DEF At, len
    <3> QED  BY <3>1, <3>2
  <2> QED  BY <2>1, <2>2
<1> QED  BY <1>7, <1>8, <1>9 DEF nexts, prevs, d

-----------------------------------------------------------------------------
(* The links around a node that comes or goes. *)

\* m comes before n in the chain c.
Before(c, m, n) == \E i, j \in 1 .. Len(c) : i < j /\ c[i] = m /\ c[j] = n

\* The nodes that c and d share come in the same order in both.
OrderKept(c, d) ==
    \A m, n \in ToSet(d) : Before(c, m, n) => Before(d, m, n)

\* The list s with chain c becomes the list t with chain d, and nothing else in the
\* heap changes: what joins was free, what leaves becomes free.
Changes(s, c, t, d) ==
    /\ IsList(t, d)
    /\ \A m \in Nodes : m \notin ToSet(c) /\ m \notin ToSet(d) => t.node[m] = s.node[m]
    /\ \A m \in ToSet(d) : m \notin ToSet(c) => s.node[m] = Free
    /\ \A m \in ToSet(c) : m \notin ToSet(d) => t.node[m] = Free

\* The heap when node n is taken out from between its neighbours.
Without(heap, n) ==
    [m \in Nodes |->
        IF m = n THEN Free
        ELSE [next |-> IF m = heap[n].prev THEN heap[n].next ELSE heap[m].next,
              prev |-> IF m = heap[n].next THEN heap[n].prev ELSE heap[m].prev,
              data |-> heap[m].data]]

\* The heap when the free node n, holding e, comes between nodes b and a.
With(heap, n, e, b, a) ==
    [m \in Nodes |->
        IF m = n THEN [next |-> a, prev |-> b, data |-> e]
        ELSE [next |-> IF m = b THEN n ELSE heap[m].next,
              prev |-> IF m = a THEN n ELSE heap[m].prev,
              data |-> heap[m].data]]

\* A node is its three fields.
LEMMA NodeIs ==
    ASSUME NEW heap \in Heaps, NEW m \in Nodes
    PROVE  /\ heap[m] = [next |-> heap[m].next, prev |-> heap[m].prev, data |-> heap[m].data]
           /\ heap[m].next \in Links /\ heap[m].prev \in Links
           /\ heap[m].data \in Elems \cup {NULL}
  BY DEF Heaps

\* What setting one link does to each node.
LEMMA SetIs ==
    ASSUME NEW heap \in Heaps, NEW x \in Links, NEW y \in Links
    PROVE  /\ SetNext(heap, x, y) \in Heaps
           /\ SetPrev(heap, x, y) \in Heaps
           /\ \A m \in Nodes :
                 /\ SetNext(heap, x, y)[m].next = IF m = x THEN y ELSE heap[m].next
                 /\ SetNext(heap, x, y)[m].prev = heap[m].prev
                 /\ SetNext(heap, x, y)[m].data = heap[m].data
                 /\ SetPrev(heap, x, y)[m].next = heap[m].next
                 /\ SetPrev(heap, x, y)[m].prev = IF m = x THEN y ELSE heap[m].prev
                 /\ SetPrev(heap, x, y)[m].data = heap[m].data
<1>1. CASE x = NULL
  <2>1. SetNext(heap, x, y) = heap /\ SetPrev(heap, x, y) = heap
        /\ \A m \in Nodes : m # x
    BY <1>1, NoNode DEF SetNext, SetPrev
  <2> QED  BY <2>1
<1>2. CASE x # NULL
  <2>1. x \in Nodes  BY <1>2 DEF Links
  <2>2. SetNext(heap, x, y) = [heap EXCEPT ![x].next = y]
        /\ SetPrev(heap, x, y) = [heap EXCEPT ![x].prev = y]
    BY <1>2 DEF SetNext, SetPrev
  <2>3. [heap EXCEPT ![x].next = y] \in Heaps /\ [heap EXCEPT ![x].prev = y] \in Heaps
    BY <2>1 DEF Heaps
  <2>4. ASSUME NEW m \in Nodes
        PROVE  /\ [heap EXCEPT ![x].next = y][m].next = IF m = x THEN y ELSE heap[m].next
               /\ [heap EXCEPT ![x].next = y][m].prev = heap[m].prev
               /\ [heap EXCEPT ![x].next = y][m].data = heap[m].data
               /\ [heap EXCEPT ![x].prev = y][m].next = heap[m].next
               /\ [heap EXCEPT ![x].prev = y][m].prev = IF m = x THEN y ELSE heap[m].prev
               /\ [heap EXCEPT ![x].prev = y][m].data = heap[m].data
    <3>1. heap[m] \in [next : Links, prev : Links, data : Elems \cup {NULL}]  BY DEF Heaps
    <3> QED  BY <2>1, <3>1 DEF Heaps
  <2> QED  BY <2>2, <2>3, <2>4
<1> QED  BY <1>1, <1>2

\* A heap is known by its nodes' fields.
LEMMA SameHeap ==
    ASSUME NEW g \in Heaps, NEW h \in Heaps,
           \A m \in Nodes : g[m].next = h[m].next /\ g[m].prev = h[m].prev
                            /\ g[m].data = h[m].data
    PROVE  g = h
<1>1. \A m \in Nodes : g[m] = h[m]
  <2> SUFFICES ASSUME NEW m \in Nodes  PROVE g[m] = h[m]  OBVIOUS
  <2>1. /\ g[m] = [next |-> g[m].next, prev |-> g[m].prev, data |-> g[m].data]
        /\ h[m] = [next |-> h[m].next, prev |-> h[m].prev, data |-> h[m].data]
    BY NodeIs
  <2> QED  BY <2>1
<1> QED  BY <1>1 DEF Heaps

\* The fields of a heap without a node.
LEMMA WithoutIs ==
    ASSUME NEW heap \in Heaps, NEW n \in Nodes
    PROVE  /\ Without(heap, n) \in Heaps
           /\ Without(heap, n)[n] = Free
           /\ \A m \in Nodes \ {n} :
                 /\ Without(heap, n)[m].next =
                       IF m = heap[n].prev THEN heap[n].next ELSE heap[m].next
                 /\ Without(heap, n)[m].prev =
                       IF m = heap[n].next THEN heap[n].prev ELSE heap[m].prev
                 /\ Without(heap, n)[m].data = heap[m].data
                 /\ m # heap[n].prev /\ m # heap[n].next => Without(heap, n)[m] = heap[m]
<1> DEFINE b == heap[n].prev
           a == heap[n].next
           Cell(m) == [next |-> IF m = b THEN a ELSE heap[m].next,
                       prev |-> IF m = a THEN b ELSE heap[m].prev,
                       data |-> heap[m].data]
<1>1. Without(heap, n) = [m \in Nodes |-> IF m = n THEN Free ELSE Cell(m)]
  BY DEF Without
<1>2. b \in Links /\ a \in Links  BY NodeIs
<1> HIDE DEF a, b
<1>3. Free \in [next : Links, prev : Links, data : Elems \cup {NULL}]
  BY NoNode DEF Free
<1>4. ASSUME NEW m \in Nodes
      PROVE  /\ Cell(m) \in [next : Links, prev : Links, data : Elems \cup {NULL}]
             /\ Cell(m).next = IF m = b THEN a ELSE heap[m].next
             /\ Cell(m).prev = IF m = a THEN b ELSE heap[m].prev
             /\ Cell(m).data = heap[m].data
             /\ m # b /\ m # a => Cell(m) = heap[m]
  BY <1>2, NodeIs
<1> HIDE DEF Cell
<1> QED  BY <1>1, <1>3, <1>4 DEF Heaps, a, b

\* Taking a node out gives the heap without it.
LEMMA UnlinkHeap ==
    ASSUME NEW s, s.node \in Heaps, NEW n \in Nodes
    PROVE  Unlink(s, n).node = Without(s.node, n)
<1> DEFINE h == s.node
           b == h[n].prev
           a == h[n].next
           g == SetNext(h, b, a)
           k == SetPrev(g, a, b)
           u == [k EXCEPT ![n] = Free]
           w == Without(h, n)
<1>1. b \in Links /\ a \in Links  BY NodeIs
<1>2. Unlink(s, n).node = u  BY DEF Unlink
<1>3. Free \in [next : Links, prev : Links, data : Elems \cup {NULL}]
  BY NoNode DEF Free
<1>a. w \in Heaps /\ w[n] = Free
      /\ \A m \in Nodes \ {n} : /\ w[m].next = IF m = b THEN a ELSE h[m].next
                                /\ w[m].prev = IF m = a THEN b ELSE h[m].prev
                                /\ w[m].data = h[m].data
  BY WithoutIs
<1> HIDE DEF b, a, w
<1>5. g \in Heaps /\ \A m \in Nodes : /\ g[m].next = IF m = b THEN a ELSE h[m].next
                                      /\ g[m].prev = h[m].prev /\ g[m].data = h[m].data
  <2>1. h \in Heaps  OBVIOUS
  <2> HIDE DEF h
  <2> QED  BY <1>1, <2>1, SetIs
<1> HIDE DEF h, g
<1>6. k \in Heaps /\ \A m \in Nodes : /\ k[m].next = g[m].next
                                      /\ k[m].prev = IF m = a THEN b ELSE g[m].prev
                                      /\ k[m].data = g[m].data
  BY <1>1, <1>5, SetIs
<1> HIDE DEF k
<1>7. u \in Heaps  BY <1>3, <1>6 DEF Heaps
<1>8. \A m \in Nodes : u[m] = IF m = n THEN Free ELSE k[m]  BY <1>6 DEF Heaps
<1> HIDE DEF u
<1>9. ASSUME NEW m \in Nodes
      PROVE  u[m].next = w[m].next /\ u[m].prev = w[m].prev /\ u[m].data = w[m].data
  <2>1. CASE m = n  BY <1>a, <1>8, <2>1
  <2>2. CASE m # n
    <3>1. u[m] = k[m]  BY <1>8, <2>2
    <3>2. k[m].next = w[m].next /\ k[m].prev = w[m].prev /\ k[m].data = w[m].data
      BY <1>a, <1>5, <1>6, <2>2
    <3> QED  BY <3>1, <3>2
  <2> QED  BY <2>1, <2>2
<1>10. u = w  BY <1>a, <1>7, <1>9, SameHeap
<1> QED  BY <1>2, <1>10 DEF w, h

\* A node is at one place of a chain only.
LEMMA AtOnce ==
    ASSUME NEW s, NEW c, IsList(s, c)
    PROVE  /\ Len(c) \in Nat
           /\ \A j \in 1 .. Len(c) : c[j] \in Nodes /\ c[j] # NULL /\ At(c, j) = c[j]
           /\ \A j \in 1 .. Len(c), k \in Int : c[j] = At(c, k) <=> j = k
           /\ \A k \in Int : At(c, k) \in Links
           /\ ToSet(c) = {c[j] : j \in 1 .. Len(c)}
<1>1. c \in Seq(Nodes) /\ Len(c) \in Nat /\ DOMAIN c = 1 .. Len(c)
      /\ \A i, j \in 1 .. Len(c) : c[i] = c[j] => i = j
  BY DEF IsList
<1>2. \A j \in 1 .. Len(c) : c[j] \in Nodes /\ c[j] # NULL  BY <1>1, NoNode, ElementOfSeq
<1>3. ToSet(c) = {c[j] : j \in 1 .. Len(c)}  BY <1>1 DEF ToSet
<1> QED  BY <1>1, <1>2, <1>3, NoNode DEF At

\* The nodes of a list are not free.
LEMMA ChainInUse ==
    ASSUME NEW s, NEW c, IsList(s, c)
    PROVE  \A m \in ToSet(c) : m \in Nodes /\ s.node[m] # Free
<1>1. \A j \in 1 .. Len(c) : c[j] \in Nodes /\ s.node[c[j]].data \in Elems
  BY AtOnce DEF IsList
<1>2. Free.data \notin Elems  BY ElemsAssumption DEF Free
<1> QED  BY <1>1, <1>2, AtOnce

\* The places of a sequence that lost the element at p.
LEMMA AtWithout ==
    ASSUME NEW c \in Seq(Nodes), NEW p \in 1 .. Len(c), NEW d \in Seq(Nodes),
           Len(d) = Len(c) - 1,
           \A i \in 1 .. Len(c) - 1 : d[i] = IF i < p THEN c[i] ELSE c[i + 1]
    PROVE  \A i \in Int : At(d, i) = IF i < p THEN At(c, i) ELSE At(c, i + 1)
<1> SUFFICES ASSUME NEW i \in Int
             PROVE  At(d, i) = IF i < p THEN At(c, i) ELSE At(c, i + 1)
  OBVIOUS
<1> DEFINE n == Len(c)
<1>1. n \in Nat  OBVIOUS
<1>2. CASE i < p
  <2>1. i \in 1 .. n - 1 <=> i \in 1 .. n  BY <1>1, <1>2
  <2> QED  BY <1>1, <1>2, <2>1 DEF At
<1>3. CASE ~(i < p)
  <2>1. i \in 1 .. n - 1 <=> i + 1 \in 1 .. n  BY <1>1, <1>3
  <2> QED  BY <1>1, <1>3, <2>1 DEF At
<1> QED  BY <1>2, <1>3

\* t is the list s without the node at place p of its chain c.
Took(s, c, p, t) ==
    /\ t.node = Without(s.node, c[p])
    /\ t.count = s.count - 1
    /\ t.head = IF p = 1 THEN At(c, 2) ELSE s.head
    /\ t.tail = IF p = Len(c) THEN At(c, Len(c) - 1) ELSE s.tail

\* A list whose node at place p is taken out, with the heap and the ends set to suit,
\* is the list of the others.
LEMMA TakenOut ==
    ASSUME NEW s, NEW c, IsList(s, c), NEW p \in 1 .. Len(c), NEW t, Took(s, c, p, t),
           NEW d, d = RemoveAt(c, p)
    PROVE  /\ Changes(s, c, t, d) /\ OrderKept(c, d)
           /\ ToSet(d) = ToSet(c) \ {c[p]}
           /\ \A m \in ToSet(d) : t.node[m].data = s.node[m].data
           /\ Data(t.node, d) = RemoveAt(Data(s.node, c), p)
<1> DEFINE n == Len(c)
           h == s.node
           g == Without(h, c[p])
           From(i) == IF i < p THEN i ELSE i + 1
           e == [i \in 1 .. n - 1 |-> c[From(i)]]
<1>1. /\ n \in Nat /\ c \in Seq(Nodes)
      /\ \A j \in 1 .. n : c[j] \in Nodes /\ c[j] # NULL /\ At(c, j) = c[j]
      /\ \A j \in 1 .. n, k \in Int : c[j] = At(c, k) <=> j = k
      /\ \A k \in Int : At(c, k) \in Links
      /\ ToSet(c) = {c[j] : j \in 1 .. n}
  <2>1. c \in Seq(Nodes)  BY DEF IsList
  <2> QED  BY <2>1, AtOnce
<1>2. /\ h \in Heaps
      /\ \A i \in 1 .. n : /\ h[c[i]].next = At(c, i + 1)
                           /\ h[c[i]].prev = At(c, i - 1)
                           /\ h[c[i]].data \in Elems
      /\ s.head = At(c, 1) /\ s.tail = At(c, n) /\ s.count = n
  BY DEF IsList
<1>3. /\ g \in Heaps /\ g[c[p]] = Free
      /\ \A m \in Nodes \ {c[p]} :
            /\ g[m].next = IF m = At(c, p - 1) THEN At(c, p + 1) ELSE h[m].next
            /\ g[m].prev = IF m = At(c, p + 1) THEN At(c, p - 1) ELSE h[m].prev
            /\ g[m].data = h[m].data
            /\ m # At(c, p - 1) /\ m # At(c, p + 1) => g[m] = h[m]
  <2>1. c[p] \in Nodes /\ h[c[p]].next = At(c, p + 1) /\ h[c[p]].prev = At(c, p - 1)
    BY <1>1, <1>2
  <2> HIDE DEF h
  <2> QED  BY <1>2, <2>1, WithoutIs
<1>4. t.node = g /\ t.count = n - 1
      /\ t.head = (IF p = 1 THEN At(c, 2) ELSE s.head)
      /\ t.tail = (IF p = n THEN At(c, n - 1) ELSE s.tail)
  BY <1>2 DEF Took
<1> HIDE DEF g, h
<1>5. /\ p \in 1 .. n
      /\ \A i \in 1 .. n - 1 : From(i) \in 1 .. n /\ From(i) # p /\ From(i) \in Int
      /\ \A i, j \in 1 .. n - 1 : From(i) = From(j) => i = j
      /\ \A j \in 1 .. n : j # p => \E i \in 1 .. n - 1 : j = From(i)
  <2>1. ASSUME NEW j \in 1 .. n, j # p  PROVE \E i \in 1 .. n - 1 : j = From(i)
    <3>1. CASE j < p
      <4>1. j \in 1 .. n - 1 /\ From(j) = j  BY <1>1, <3>1
      <4> QED  BY <4>1
    <3>2. CASE ~(j < p)
      <4>1. j - 1 \in 1 .. n - 1 /\ ~(j - 1 < p) /\ j = j - 1 + 1  BY <1>1, <2>1, <3>2
      <4>2. From(j - 1) = j  BY <4>1
      <4> QED  BY <4>1, <4>2
    <3> QED  BY <3>1, <3>2
  <2> QED  BY <1>1, <2>1
<1>6. e \in Seq(Nodes) /\ Len(e) = n - 1 /\ \A i \in 1 .. n - 1 : e[i] = c[From(i)]
  <2> HIDE DEF From
  <2>1. \A i \in 1 .. n - 1 : c[From(i)] \in Nodes  BY <1>1, <1>5
  <2>2. n - 1 \in Nat  BY <1>1
  <2>3. e \in [1 .. n - 1 -> Nodes]  BY <2>1
  <2>4. e \in Seq(Nodes)  BY <2>2, <2>3
  <2> QED  BY <2>2, <2>4, LenProperties
<1> HIDE DEF e
<1>7. e = d
  <2>1. \A j \in 1 .. n - 1 : e[j] = IF j < p THEN c[j] ELSE c[j + 1]  BY <1>6
  <2> QED  BY <1>1, <1>6, <2>1, RemovedIs
<1>8. \A i \in Int : At(e, i) = IF i < p THEN At(c, i) ELSE At(c, i + 1)
  <2>1. \A j \in 1 .. n - 1 : e[j] = IF j < p THEN c[j] ELSE c[j + 1]  BY <1>6
  <2> QED  BY <1>1, <1>6, <2>1, AtWithout, SMTT(30)
<1>9. ToSet(e) = {e[i] : i \in 1 .. n - 1}  BY <1>6 DEF ToSet
<1>10. ToSet(e) = ToSet(c) \ {c[p]}
  <2>1. ASSUME NEW i \in 1 .. n - 1  PROVE e[i] \in ToSet(c) \ {c[p]}
    <3>1. e[i] = c[From(i)] /\ From(i) \in 1 .. n /\ From(i) # p  BY <1>5, <1>6
    <3>2. c[From(i)] # c[p]
      <4> HIDE DEF From
      <4> QED  BY <3>1 DEF IsList
    <3> HIDE DEF From
    <3> QED  BY <1>1, <3>1, <3>2
  <2>2. ASSUME NEW j \in 1 .. n, c[j] # c[p]  PROVE c[j] \in ToSet(e)
    <3>1. PICK i \in 1 .. n - 1 : j = From(i)  BY <1>5, <2>2
    <3> QED  BY <1>6, <1>9, <3>1
  <2>3. \A m \in ToSet(c) \ {c[p]} : m \in ToSet(e)  BY <1>1, <2>2
  <2>4. \A m \in ToSet(e) : m \in ToSet(c) \ {c[p]}  BY <1>9, <2>1
  <2> QED  BY <2>3, <2>4
<1>11. IsList(t, e)
  <2>1. \A i, j \in 1 .. n - 1 : e[i] = e[j] => i = j
    <3> SUFFICES ASSUME NEW i \in 1 .. n - 1, NEW j \in 1 .. n - 1, e[i] = e[j]  PROVE i = j
      OBVIOUS
    <3>1. From(i) \in 1 .. n /\ From(j) \in 1 .. n /\ c[From(i)] = c[From(j)]  BY <1>5, <1>6
    <3>2. From(i) = From(j)
      <4> HIDE DEF From
      <4> QED  BY <3>1 DEF IsList
    <3> HIDE DEF From
    <3> QED  BY <1>5, <3>2
  <2>2. t.head = At(e, 1) /\ t.tail = At(e, n - 1)
    <3>1. At(e, 1) = IF 1 < p THEN At(c, 1) ELSE At(c, 2)  BY <1>8
    <3>2. At(e, n - 1) = IF n - 1 < p THEN At(c, n - 1) ELSE At(c, n)
      <4>1. n - 1 \in Int /\ n - 1 + 1 = n  BY <1>1
      <4> QED  BY <1>8, <4>1
    <3>3. (1 < p <=> p # 1) /\ (n - 1 < p <=> p = n)  BY <1>1
    <3> QED  BY <1>2, <1>4, <3>1, <3>2, <3>3
  <2>3. ASSUME NEW i \in 1 .. n - 1
        PROVE  /\ g[e[i]].next = At(e, i + 1)
               /\ g[e[i]].prev = At(e, i - 1)
               /\ g[e[i]].data \in Elems
    <3> DEFINE j == From(i)
    <3>1. j \in 1 .. n /\ j # p /\ e[i] = c[j] /\ j = (IF i < p THEN i ELSE i + 1)
          /\ j \in Int /\ i \in Int /\ p \in Int
      BY <1>1, <1>5, <1>6
    <3> HIDE DEF j, From
    <3>2. c[j] \in Nodes \ {c[p]}
      BY <1>1, <1>5, <3>1 DEF IsList
    <3>3. (c[j] = At(c, p - 1) <=> j = p - 1) /\ (c[j] = At(c, p + 1) <=> j = p + 1)
      <4>1. p - 1 \in Int /\ p + 1 \in Int  BY <3>1
      <4> QED  BY <1>1, <3>1, <4>1
    <3>4. /\ g[c[j]].next = IF j = p - 1 THEN At(c, p + 1) ELSE At(c, j + 1)
          /\ g[c[j]].prev = IF j = p + 1 THEN At(c, p - 1) ELSE At(c, j - 1)
          /\ g[c[j]].data \in Elems
      BY <1>2, <1>3, <3>1, <3>2, <3>3, ZenonT(60)
    <3>5. /\ At(e, i + 1) = IF i + 1 < p THEN At(c, i + 1) ELSE At(c, i + 2)
          /\ At(e, i - 1) = IF i - 1 < p THEN At(c, i - 1) ELSE At(c, i)
      <4>1. i + 1 \in Int /\ i - 1 \in Int /\ i + 1 + 1 = i + 2 /\ i - 1 + 1 = i  BY <3>1
      <4> QED  BY <1>8, <4>1
    <3>6. (IF j = p - 1 THEN p + 1 ELSE j + 1) = (IF i + 1 < p THEN i + 1 ELSE i + 2)
          /\ (IF j = p + 1 THEN p - 1 ELSE j - 1) = (IF i - 1 < p THEN i - 1 ELSE i)
      BY <3>1
    <3>7. g[c[j]].next = At(c, IF j = p - 1 THEN p + 1 ELSE j + 1)
          /\ g[c[j]].prev = At(c, IF j = p + 1 THEN p - 1 ELSE j - 1)
          /\ At(e, i + 1) = At(c, IF i + 1 < p THEN i + 1 ELSE i + 2)
          /\ At(e, i - 1) = At(c, IF i - 1 < p THEN i - 1 ELSE i)
      BY <3>4, <3>5
    <3> QED  BY <3>1, <3>4, <3>6, <3>7
  <2> QED  BY <1>3, <1>4, <1>6, <2>1, <2>2, <2>3 DEF IsList
<1>12. \A m \in Nodes : m \notin ToSet(c) => g[m] = h[m]
  <2> SUFFICES ASSUME NEW m \in Nodes, m \notin ToSet(c)  PROVE g[m] = h[m]  OBVIOUS
  <2>1. m # NULL  BY NoNode
  <2>2. \A k \in Int : m # At(c, k)
    <3> SUFFICES ASSUME NEW k \in Int  PROVE m # At(c, k)  OBVIOUS
    <3>1. CASE k \in 1 .. n  BY <1>1, <3>1
    <3>2. CASE k \notin 1 .. n  BY <2>1, <3>2 DEF At
    <3> QED  BY <3>1, <3>2
  <2>3. p - 1 \in Int /\ p + 1 \in Int  BY <1>1
  <2>4. m \in Nodes \ {c[p]}  BY <1>1
  <2> QED  BY <1>3, <2>2, <2>3, <2>4
<1>13. Changes(s, c, t, e)
  <2>1. \A m \in ToSet(c) : m \notin ToSet(e) => m = c[p]  BY <1>10
  <2> QED  BY <1>3, <1>4, <1>10, <1>11, <1>12, <2>1 DEF Changes, h
<1>14. OrderKept(c, e)
  <2> SUFFICES ASSUME NEW i \in 1 .. n, NEW j \in 1 .. n, i < j,
                      c[i] \in ToSet(e), c[j] \in ToSet(e)
               PROVE  Before(e, c[i], c[j])
    BY DEF OrderKept, Before
  <2>1. i # p /\ j # p  BY <1>10
  <2>2. PICK x \in 1 .. n - 1 : i = From(x)  BY <1>5, <2>1
  <2>3. PICK y \in 1 .. n - 1 : j = From(y)  BY <1>5, <2>1
  <2>4. x < y  BY <1>1, <2>2, <2>3
  <2>5. e[x] = c[i] /\ e[y] = c[j]  BY <1>6, <2>2, <2>3
  <2> QED  BY <1>6, <2>4, <2>5 DEF Before
<1>15. \A m \in ToSet(e) : g[m].data = h[m].data
  <2>1. \A m \in ToSet(e) : m \in Nodes \ {c[p]}  BY <1>1, <1>10
  <2> QED  BY <1>3, <2>1
<1>16. Data(g, e) = RemoveAt(Data(h, c), p)
  <2> DEFINE old == Data(h, c)
             new == Data(g, e)
  <2>1. old \in Seq(Elems) /\ Len(old) = n /\ \A i \in 1 .. n : old[i] = h[c[i]].data
    <3>1. old \in [1 .. n -> Elems]  BY <1>2 DEF Data
    <3>2. old \in Seq(Elems)  BY <1>1, <3>1
    <3> QED  BY <1>1, <3>1, <3>2, LenProperties DEF Data
  <2>2. new \in Seq(Elems) /\ Len(new) = n - 1
        /\ \A i \in 1 .. n - 1 : new[i] = g[e[i]].data
    <3>1. new \in [1 .. n - 1 -> Elems]  BY <1>4, <1>6, <1>11 DEF Data, IsList
    <3>2. n - 1 \in Nat  BY <1>1
    <3>3. new \in Seq(Elems)  BY <3>1, <3>2
    <3> QED  BY <1>6, <3>1, <3>2, <3>3, LenProperties DEF Data
  <2> HIDE DEF old, new
  <2>3. \A i \in 1 .. n - 1 : new[i] = IF i < p THEN old[i] ELSE old[i + 1]
    <3> SUFFICES ASSUME NEW i \in 1 .. n - 1
                 PROVE  new[i] = IF i < p THEN old[i] ELSE old[i + 1]
      OBVIOUS
    <3>1. e[i] = c[From(i)] /\ From(i) \in 1 .. n  BY <1>5, <1>6
    <3>2. new[i] = h[e[i]].data  BY <1>9, <1>15, <2>2
    <3> QED  BY <2>1, <3>1, <3>2
  <2>4. new = RemoveAt(old, p)  BY <1>1, <2>1, <2>2, <2>3, RemovedIs
  <2> QED  BY <2>4 DEF old, new
<1> QED  BY <1>4, <1>7, <1>10, <1>13, <1>14, <1>15, <1>16 DEF h

\* What the neighbours of a node of a list are.
LEMMA Neighbours ==
    ASSUME NEW s, NEW c, IsList(s, c), NEW p \in 1 .. Len(c)
    PROVE  /\ s.node \in Heaps /\ c[p] \in Nodes /\ Len(c) \in Nat /\ s.count = Len(c)
           /\ s.node[c[p]].prev = At(c, p - 1) /\ s.node[c[p]].next = At(c, p + 1)
           /\ s.node[c[p]].data \in Elems
           /\ At(c, p - 1) \in Links /\ At(c, p + 1) \in Links
           /\ At(c, p - 1) # c[p] /\ At(c, p + 1) # c[p]
           /\ At(c, p - 1) = NULL <=> p = 1
           /\ At(c, p + 1) = NULL <=> p = Len(c)
           /\ At(c, p - 1) = At(c, p + 1) => At(c, p - 1) = NULL
           /\ s.head = At(c, 1) /\ s.tail = At(c, Len(c))
<1>1. Len(c) \in Nat /\ p - 1 \in Int /\ p + 1 \in Int /\ p - 1 # p /\ p + 1 # p /\ p - 1 # p + 1
      /\ (p - 1 \in 1 .. Len(c) <=> p # 1) /\ (p + 1 \in 1 .. Len(c) <=> p # Len(c))
  BY AtOnce
<1>2. /\ s.node \in Heaps /\ s.count = Len(c)
      /\ s.node[c[p]].prev = At(c, p - 1) /\ s.node[c[p]].next = At(c, p + 1)
      /\ s.node[c[p]].data \in Elems
      /\ s.head = At(c, 1) /\ s.tail = At(c, Len(c))
  BY DEF IsList
<1>3. c[p] \in Nodes /\ At(c, p - 1) \in Links /\ At(c, p + 1) \in Links  BY <1>1, AtOnce
<1>4. At(c, p - 1) # c[p] /\ At(c, p + 1) # c[p]  BY <1>1, AtOnce
<1>5. (At(c, p - 1) = NULL <=> p = 1) /\ (At(c, p + 1) = NULL <=> p = Len(c))
  <2>1. \A j \in 1 .. Len(c) : c[j] # NULL  BY AtOnce
  <2>2. At(c, p - 1) = NULL <=> p - 1 \notin 1 .. Len(c)  BY <2>1 DEF At
  <2>3. At(c, p + 1) = NULL <=> p + 1 \notin 1 .. Len(c)  BY <2>1 DEF At
  <2> QED  BY <1>1, <2>2, <2>3
<1>6. At(c, p - 1) = At(c, p + 1) => At(c, p - 1) = NULL
  <2> SUFFICES ASSUME At(c, p - 1) = At(c, p + 1), p # 1  PROVE FALSE  BY <1>5
  <2>1. p - 1 \in 1 .. Len(c) /\ c[p - 1] = At(c, p - 1)  BY <1>1 DEF At
  <2>2. p - 1 = p + 1  BY <1>1, <2>1, AtOnce
  <2> QED  BY <1>1, <2>2
<1> QED  BY <1>1, <1>2, <1>3, <1>4, <1>5, <1>6

\* Unlink takes the node out, wherever it is.
LEMMA UnlinkTakes ==
    ASSUME NEW s, NEW c, IsList(s, c), NEW p \in 1 .. Len(c)
    PROVE  Took(s, c, p, Unlink(s, c[p]))
<1> DEFINE b == At(c, p - 1)
           a == At(c, p + 1)
           t == Unlink(s, c[p])
<1>1. /\ s.node \in Heaps /\ c[p] \in Nodes /\ s.count = Len(c) /\ Len(c) \in Nat
      /\ s.node[c[p]].prev = b /\ s.node[c[p]].next = a
      /\ b = NULL <=> p = 1
      /\ a = NULL <=> p = Len(c)
  BY Neighbours
<1>2. /\ t.head = IF b = NULL THEN a ELSE s.head
      /\ t.tail = IF a = NULL THEN b ELSE s.tail
      /\ t.count = s.count - 1
  BY <1>1 DEF Unlink
<1>3. t.node = Without(s.node, c[p])  BY <1>1, UnlinkHeap
<1>4. (p = 1 => a = At(c, 2)) /\ (p = Len(c) => b = At(c, Len(c) - 1))  OBVIOUS
<1> QED  BY <1>1, <1>2, <1>3, <1>4 DEF Took

\* A node freed, and one link of its neighbour cleared.
LEMMA FreedIs ==
    ASSUME NEW h \in Heaps, NEW n \in Nodes, NEW x \in Links, x # n
    PROVE  /\ h[n].next = x /\ h[n].prev = NULL =>
                 SetPrev([h EXCEPT ![n] = Free], x, NULL) = Without(h, n)
           /\ h[n].prev = x /\ h[n].next = NULL =>
                 SetNext([h EXCEPT ![n] = Free], x, NULL) = Without(h, n)
<1> DEFINE g == [h EXCEPT ![n] = Free]
           w == Without(h, n)
<1>1. g \in Heaps /\ \A m \in Nodes : g[m] = IF m = n THEN Free ELSE h[m]
  <2>1. Free \in [next : Links, prev : Links, data : Elems \cup {NULL}]  BY NoNode DEF Free
  <2> QED  BY <2>1 DEF Heaps
<1>2. /\ w \in Heaps /\ w[n] = Free
      /\ \A m \in Nodes \ {n} :
            /\ w[m].next = IF m = h[n].prev THEN h[n].next ELSE h[m].next
            /\ w[m].prev = IF m = h[n].next THEN h[n].prev ELSE h[m].prev
            /\ w[m].data = h[m].data
  BY WithoutIs
<1>3. NULL \in Links /\ \A m \in Nodes : m # NULL  BY NoNode
<1> HIDE DEF g, w
<1>4. ASSUME h[n].next = x, h[n].prev = NULL  PROVE SetPrev(g, x, NULL) = w
  <2> DEFINE u == SetPrev(g, x, NULL)
  <2>1. u \in Heaps /\ \A m \in Nodes : /\ u[m].next = g[m].next
                                        /\ u[m].prev = IF m = x THEN NULL ELSE g[m].prev
                                        /\ u[m].data = g[m].data
    BY <1>1, <1>3, SetIs
  <2> HIDE DEF u
  <2>2. ASSUME NEW m \in Nodes
        PROVE  u[m].next = w[m].next /\ u[m].prev = w[m].prev /\ u[m].data = w[m].data
    <3>1. CASE m = n  BY <1>1, <1>2, <2>1, <3>1
    <3>2. CASE m # n  BY <1>1, <1>2, <1>3, <1>4, <2>1, <3>2
    <3> QED  BY <3>1, <3>2
  <2>3. u = w  BY <1>2, <2>1, <2>2, SameHeap
  <2> QED  BY <2>3 DEF u
<1>5. ASSUME h[n].prev = x, h[n].next = NULL  PROVE SetNext(g, x, NULL) = w
  <2> DEFINE u == SetNext(g, x, NULL)
  <2>1. u \in Heaps /\ \A m \in Nodes : /\ u[m].next = IF m = x THEN NULL ELSE g[m].next
                                        /\ u[m].prev = g[m].prev
                                        /\ u[m].data = g[m].data
    BY <1>1, <1>3, SetIs
  <2> HIDE DEF u
  <2>2. ASSUME NEW m \in Nodes
        PROVE  u[m].next = w[m].next /\ u[m].prev = w[m].prev /\ u[m].data = w[m].data
    <3>1. CASE m = n  BY <1>1, <1>2, <2>1, <3>1
    <3>2. CASE m # n  BY <1>1, <1>2, <1>3, <1>5, <2>1, <3>2
    <3> QED  BY <3>1, <3>2
  <2>3. u = w  BY <1>2, <2>1, <2>2, SameHeap
  <2> QED  BY <2>3 DEF u
<1> QED  BY <1>4, <1>5 DEF g, w

\* Dropping the first or the last node is taking it out.
LEMMA DropTakes ==
    ASSUME NEW s, NEW c, IsList(s, c), Len(c) # 0
    PROVE  Took(s, c, 1, DropFirst(s)) /\ Took(s, c, Len(c), DropLast(s))
<1> DEFINE n == Len(c)
<1>1. n \in Nat /\ 1 \in 1 .. n /\ n \in 1 .. n  BY AtOnce
<1>2. At(c, 0) = NULL /\ At(c, n + 1) = NULL  BY <1>1 DEF At
<1>3. /\ s.node \in Heaps /\ s.count = n
      /\ s.head = At(c, 1) /\ s.tail = At(c, n)
  BY DEF IsList
<1>4. c[1] = At(c, 1) /\ c[n] = At(c, n)  BY <1>1 DEF At
<1>5. Took(s, c, 1, DropFirst(s))
  <2> DEFINE x == At(c, 2)
             t == DropFirst(s)
  <2>1. /\ c[1] \in Nodes /\ x \in Links /\ x # c[1]
        /\ s.node[c[1]].next = x /\ s.node[c[1]].prev = NULL
        /\ x = NULL <=> 1 = n
    <3> DEFINE j == 1
    <3>1. j \in 1 .. n /\ j - 1 = 0 /\ j + 1 = 2  BY <1>1
    <3> HIDE DEF j
    <3>2. /\ c[j] \in Nodes /\ At(c, 2) \in Links /\ At(c, 2) # c[j]
          /\ s.node[c[j]].next = At(c, 2) /\ s.node[c[j]].prev = At(c, 0)
          /\ At(c, 2) = NULL <=> j = n
      <4>1. /\ c[j] \in Nodes /\ At(c, j + 1) \in Links /\ At(c, j + 1) # c[j]
            /\ s.node[c[j]].next = At(c, j + 1) /\ s.node[c[j]].prev = At(c, j - 1)
            /\ At(c, j + 1) = NULL <=> j = n
        BY <3>1, Neighbours
      <4> QED  BY <3>1, <4>1
    <3> QED  BY <1>2, <3>2 DEF j
  <2>2. SetPrev([s.node EXCEPT ![c[1]] = Free], x, NULL) = Without(s.node, c[1])
    BY <1>3, <2>1, FreedIs
  <2>3. /\ t.node = SetPrev([s.node EXCEPT ![c[1]] = Free], x, NULL)
        /\ t.head = x
        /\ t.tail = IF x = NULL THEN NULL ELSE s.tail
        /\ t.count = s.count - 1
    BY <1>3, <1>4, <2>1 DEF DropFirst
  <2>4. n = 1 => At(c, n - 1) = NULL  BY <1>2
  <2> QED  BY <2>1, <2>2, <2>3, <2>4 DEF Took
<1>6. Took(s, c, n, DropLast(s))
  <2> DEFINE x == At(c, n - 1)
             t == DropLast(s)
  <2>1. /\ c[n] \in Nodes /\ x \in Links /\ x # c[n]
        /\ s.node[c[n]].prev = x /\ s.node[c[n]].next = NULL
        /\ x = NULL <=> n = 1
    BY <1>1, <1>2, Neighbours
  <2>2. SetNext([s.node EXCEPT ![c[n]] = Free], x, NULL) = Without(s.node, c[n])
    BY <1>3, <2>1, FreedIs
  <2>3. /\ t.node = SetNext([s.node EXCEPT ![c[n]] = Free], x, NULL)
        /\ t.head = IF x = NULL THEN NULL ELSE s.head
        /\ t.tail = x
        /\ t.count = s.count - 1
    BY <1>3, <1>4, <2>1 DEF DropLast
  <2>4. n = 1 => At(c, 2) = NULL  BY <1>2
  <2> QED  BY <2>1, <2>2, <2>3, <2>4 DEF Took
<1> QED  BY <1>5, <1>6

\* Dropping the node behind another is taking it out.
LEMMA DropAfterTakes ==
    ASSUME NEW s, NEW c, IsList(s, c), NEW p \in 1 .. Len(c), p + 1 <= Len(c)
    PROVE  Took(s, c, p + 1, DropAfter(s, c[p]))
<1> DEFINE q == p + 1
           t == DropAfter(s, c[p])
           u == Unlink(s, c[q])
<1>1. q \in 1 .. Len(c) /\ q - 1 = p /\ q # 1 /\ Len(c) \in Nat  BY AtOnce
<1>2. At(c, q) = c[q] /\ At(c, q - 1) = c[p]  BY <1>1 DEF At
<1>3. s.node[c[p]].next = c[q]  BY <1>2, Neighbours
<1>4. /\ s.node \in Heaps /\ c[q] \in Nodes
      /\ s.node[c[q]].prev = c[p]
      /\ c[p] # NULL
  <2> HIDE DEF q
  <2> QED  BY <1>1, <1>2, Neighbours
<1> HIDE DEF q
<1>5. t.node = u.node /\ t.count = u.count /\ t.tail = u.tail /\ t.head = s.head
  BY <1>3, <1>4 DEF DropAfter, Unlink
<1>6. Took(s, c, q, u)  BY <1>1, UnlinkTakes
<1>7. u.head = s.head  BY <1>1, <1>6 DEF Took
<1> HIDE DEF t, u
<1>8. Took(s, c, q, t)  BY <1>1, <1>5, <1>6, <1>7 DEF Took
<1> QED  BY <1>8 DEF q, t

\* What every step of a loop keeps is so after each.
LEMMA LoopKeeps ==
    ASSUME NEW m \in Nat, NEW n \in Nat, NEW I, NEW g, g[m] \in I[m],
           \A i \in m + 1 .. n : g[i - 1] \in I[i - 1] => g[i] \in I[i]
    PROVE  \A i \in m .. n : g[i] \in I[i]
<1> DEFINE Bad == {i \in m .. n : g[i] \notin I[i]}
<1> SUFFICES ASSUME Bad # {}  PROVE FALSE  OBVIOUS
<1>1. PICK i \in Bad : \A j \in Bad : i <= j
  <2>1. Bad \subseteq Nat  OBVIOUS
  <2> HIDE DEF Bad
  <2> QED  BY <2>1, HasLeast
<1>2. i \in m .. n /\ g[i] \notin I[i]  BY <1>1
<1>3. i # m  BY <1>2
<1>4. i \in m + 1 .. n /\ i - 1 \in m .. n /\ ~(i <= i - 1)  BY <1>2, <1>3
<1>5. i - 1 \notin Bad  BY <1>1, <1>4
<1>6. g[i - 1] \in I[i - 1]  BY <1>4, <1>5
<1> QED  BY <1>2, <1>4, <1>6

\* The steps of a loop from m to n take values of I[i - 1] to values of I[i].
Keeps(S, m, n, I, a, step) ==
    /\ m \in Nat /\ n \in Nat /\ m <= n
    /\ a \in I[m]
    /\ \A i \in m .. n : I[i] \subseteq S
    /\ \A i \in m + 1 .. n : \A x \in I[i - 1] : step[i][x] \in I[i]

\* f holds the values of such a loop.
Values(f, S, m, n, I, a, step) ==
    /\ f \in [m .. n -> S]
    /\ f[m] = a
    /\ \A i \in m + 1 .. n : f[i - 1] \in I[i - 1] /\ f[i] = step[i][f[i - 1]]

\* A loop whose steps keep to sets of values has values all the way.
LEMMA LoopRuns ==
    ASSUME NEW S, NEW m, NEW n, NEW I, NEW a, NEW step, Keeps(S, m, n, I, a, step)
    PROVE  \E f : Values(f, S, m, n, I, a, step)
<1>0. /\ m \in Nat /\ n \in Nat /\ m <= n /\ a \in I[m]
      /\ \A i \in m .. n : I[i] \subseteq S
      /\ \A i \in m + 1 .. n : \A x \in I[i - 1] : step[i][x] \in I[i]
  BY DEF Keeps
<1> DEFINE Next1(i, x) == IF i \in m + 1 .. n /\ x \in I[i - 1] THEN step[i][x] ELSE a
           go == [i \in Nat |-> [x \in S |-> Next1(i, x)]]
<1>1. a \in S  BY <1>0
<1>2. ASSUME NEW i \in Nat, NEW x \in S  PROVE Next1(i, x) \in S
  <2>1. CASE i \in m + 1 .. n /\ x \in I[i - 1]
    <3>1. i \in m .. n /\ step[i][x] \in I[i]  BY <1>0, <2>1
    <3> QED  BY <1>0, <2>1, <3>1
  <2>2. CASE ~(i \in m + 1 .. n /\ x \in I[i - 1])  BY <1>1, <2>2
  <2> QED  BY <2>1, <2>2
<1>3. go \in [Nat -> [S -> S]]
  <2> HIDE DEF Next1
  <2> QED  BY <1>2
<1>4. PICK f \in [0 .. n -> S] : Goes(f, a, go, n)
  <2> HIDE DEF go
  <2> QED  BY <1>0, <1>1, <1>3, Iterated
<1>5. f[0] = a /\ \A i \in 1 .. n : f[i] = Next1(i, f[i - 1])
  <2> SUFFICES ASSUME NEW i \in 1 .. n  PROVE f[i] = Next1(i, f[i - 1])
    BY <1>4 DEF Goes
  <2>1. f[i] = go[i][f[i - 1]]  BY <1>4 DEF Goes
  <2>2. i \in Nat /\ f[i - 1] \in S  BY <1>0
  <2> HIDE DEF Next1
  <2> QED  BY <2>1, <2>2
<1>6. f[m] = a
  <2>1. CASE m = 0  BY <1>5, <2>1
  <2>2. CASE m # 0
    <3>1. m \in 1 .. n /\ m \notin m + 1 .. n  BY <1>0, <2>2
    <3> QED  BY <1>5, <3>1
  <2> QED  BY <2>1, <2>2
<1>7. \A i \in m + 1 .. n : f[i - 1] \in I[i - 1] => f[i] \in I[i]
  <2> SUFFICES ASSUME NEW i \in m + 1 .. n, f[i - 1] \in I[i - 1]  PROVE f[i] \in I[i]
    OBVIOUS
  <2>1. i \in 1 .. n  BY <1>0
  <2> QED  BY <1>0, <1>5, <2>1
<1>8. \A i \in m .. n : f[i] \in I[i]
  <2>1. f[m] \in I[m]  BY <1>0, <1>6
  <2> QED  BY <1>0, <1>7, <2>1, LoopKeeps
<1> DEFINE g == [i \in m .. n |-> f[i]]
<1>9. g \in [m .. n -> S]  BY <1>0
<1>10. g[m] = a  BY <1>0, <1>6
<1>11. ASSUME NEW i \in m + 1 .. n
       PROVE  g[i - 1] \in I[i - 1] /\ g[i] = step[i][g[i - 1]]
  <2>1. i \in 1 .. n /\ i \in m .. n /\ i - 1 \in m .. n  BY <1>0
  <2>2. f[i - 1] \in I[i - 1]  BY <1>8, <2>1
  <2>3. f[i] = step[i][f[i - 1]]  BY <1>5, <2>1, <2>2
  <2> QED  BY <2>1, <2>2, <2>3
<1> HIDE DEF g
<1>12. Values(g, S, m, n, I, a, step)  BY <1>9, <1>10, <1>11 DEF Values
<1> QED  BY <1>12

-----------------------------------------------------------------------------
(* Lists that only lose nodes. *)

\* t is s after some of its nodes were taken out.
Loses(s, c, t, d) ==
    /\ Changes(s, c, t, d) /\ OrderKept(c, d)
    /\ ToSet(d) \subseteq ToSet(c)
    /\ \A m \in ToSet(d) : t.node[m].data = s.node[m].data

\* A list loses nothing when nothing happens.
LEMMA LosesNone ==
    ASSUME NEW s, NEW c, IsList(s, c)
    PROVE  Loses(s, c, s, c)
  BY DEF Loses, Changes, OrderKept

\* What loses nodes twice loses nodes.
LEMMA LosesTwice ==
    ASSUME NEW s, NEW c, NEW t, NEW d, NEW u, NEW e, Loses(s, c, t, d), Loses(t, d, u, e),
           IsList(s, c)
    PROVE  Loses(s, c, u, e)
<1>1. ToSet(d) \subseteq ToSet(c) /\ ToSet(e) \subseteq ToSet(d)  BY DEF Loses
<1>2. \A m \in ToSet(c) : m \in Nodes  BY ChainInUse
<1>3. OrderKept(c, e)
  <2> SUFFICES ASSUME NEW m \in ToSet(e), NEW n \in ToSet(e), Before(c, m, n)
               PROVE  Before(e, m, n)
    BY DEF OrderKept
  <2>1. m \in ToSet(d) /\ n \in ToSet(d)  BY <1>1
  <2>2. Before(d, m, n)  BY <2>1 DEF Loses, OrderKept
  <2> QED  BY <2>2 DEF Loses, OrderKept
<1>4. \A m \in ToSet(e) : u.node[m].data = s.node[m].data  BY <1>1 DEF Loses
<1>5. IsList(u, e)  BY DEF Loses, Changes
<1>6. \A m \in Nodes : m \notin ToSet(c) /\ m \notin ToSet(e) => u.node[m] = s.node[m]
  <2> SUFFICES ASSUME NEW m \in Nodes, m \notin ToSet(c), m \notin ToSet(e)
               PROVE  u.node[m] = s.node[m]
    OBVIOUS
  <2>1. m \notin ToSet(d)  BY <1>1
  <2> QED  BY <2>1 DEF Loses, Changes
<1>7. \A m \in ToSet(e) : m \notin ToSet(c) => s.node[m] = Free  BY <1>1
<1>8. \A m \in ToSet(c) : m \notin ToSet(e) => u.node[m] = Free
  <2> SUFFICES ASSUME NEW m \in ToSet(c), m \notin ToSet(e)  PROVE u.node[m] = Free
    OBVIOUS
  <2>1. CASE m \in ToSet(d)  BY <2>1 DEF Loses, Changes
  <2>2. CASE m \notin ToSet(d)
    <3>1. t.node[m] = Free  BY <2>2 DEF Loses, Changes
    <3>2. u.node[m] = t.node[m]  BY <1>2, <2>2 DEF Loses, Changes
    <3> QED  BY <3>1, <3>2
  <2> QED  BY <2>1, <2>2
<1> QED  BY <1>1, <1>3, <1>4, <1>5, <1>6, <1>7, <1>8 DEF Loses, Changes

\* A list without one of its nodes.
LEMMA LosesOne ==
    ASSUME NEW s, NEW c, IsList(s, c), NEW p \in 1 .. Len(c), NEW t, Took(s, c, p, t)
    PROVE  Loses(s, c, t, RemoveAt(c, p))
  BY TakenOut DEF Loses

\* What a list holds.
LEMMA DataIs ==
    ASSUME NEW s, NEW c, IsList(s, c)
    PROVE  /\ Data(s.node, c) \in Seq(Elems) /\ Len(Data(s.node, c)) = Len(c)
           /\ \A i \in 1 .. Len(c) : Data(s.node, c)[i] = s.node[c[i]].data
<1>1. Len(c) \in Nat  BY AtOnce
<1>2. Data(s.node, c) \in [1 .. Len(c) -> Elems]  BY DEF Data, IsList
<1>3. Data(s.node, c) \in Seq(Elems)  BY <1>1, <1>2
<1> QED  BY <1>1, <1>2, <1>3, LenProperties DEF Data

\* The states a list may be in.
ListStates == [node : Heaps, head : Links, tail : Links, count : Nat]

\* A list, as its four fields, is such a state.
LEMMA ListState ==
    ASSUME NEW s, NEW c, IsList(s, c)
    PROVE  [node |-> s.node, head |-> s.head, tail |-> s.tail, count |-> s.count] \in ListStates
<1>1. Len(c) \in Nat /\ At(c, 1) \in Links /\ At(c, Len(c)) \in Links  BY AtOnce
<1> QED  BY <1>1 DEF IsList, ListStates

\* Taking a node out of a list in such a state gives such a state.
LEMMA TakenState ==
    ASSUME NEW s \in ListStates, NEW c, IsList(s, c), NEW p \in 1 .. Len(c), NEW t,
           Took(s, c, p, t),
           t = [node |-> t.node, head |-> t.head, tail |-> t.tail, count |-> t.count]
    PROVE  t \in ListStates
<1> DEFINE d == RemoveAt(c, p)
<1>1. IsList(t, d)  BY LosesOne DEF Loses, Changes
<1> HIDE DEF d
<1> QED  BY <1>1, ListState

\* The list s after its first node was dropped up to n times, as long as there was one.
FirstGone(s, n) ==
    LET left[i \in 0 .. n] ==
            IF i = 0 THEN s
            ELSE IF left[i - 1].head = NULL THEN left[i - 1] ELSE DropFirst(left[i - 1])
    IN  left[n]

\* d is c without its first n nodes.
RestOf(c, n, d) ==
    /\ Len(d) = IF n < Len(c) THEN Len(c) - n ELSE 0
    /\ \A j \in 1 .. Len(d) : d[j] = c[n + j]

\* Then the list has lost its first n nodes.
LEMMA FirstGoneIs ==
    ASSUME NEW s \in ListStates, NEW c, IsList(s, c), NEW n \in Nat
    PROVE  \E d \in Seq(Nodes) : Loses(s, c, FirstGone(s, n), d) /\ RestOf(c, n, d)
<1> DEFINE len == Len(c)
           Is(d, i) == /\ Len(d) = IF i < len THEN len - i ELSE 0
                       /\ \A j \in 1 .. Len(d) : d[j] = c[i + j]
           In(i) == {x \in ListStates : \E d \in Seq(Nodes) : Loses(s, c, x, d) /\ Is(d, i)}
           I == [i \in 0 .. n |-> In(i)]
           One(x) == IF x.head = NULL THEN x ELSE DropFirst(x)
           step == [i \in 1 .. n |-> [x \in ListStates |-> One(x)]]
           Body(g) == [i \in 0 .. n |->
                         IF i = 0 THEN s
                         ELSE IF g[i - 1].head = NULL THEN g[i - 1] ELSE DropFirst(g[i - 1])]
           All(g) == g = Body(g)
           g == CHOOSE h : All(h)
<1>1. len \in Nat /\ c \in Seq(Nodes)  BY AtOnce DEF IsList
<1>2. FirstGone(s, n) = g[n]  BY Zenon DEF FirstGone
<1>3. s \in In(0)
  <2>1. Is(c, 0)  BY <1>1
  <2> QED  BY <1>1, <2>1, LosesNone
<1>4. ASSUME NEW i \in 1 .. n, NEW x \in In(i - 1)
      PROVE  One(x) \in In(i)
  <2>1. PICK d \in Seq(Nodes) : Loses(s, c, x, d) /\ Is(d, i - 1)  OBVIOUS
  <2>2. x \in ListStates /\ IsList(x, d) /\ x.head = At(d, 1) /\ Len(d) \in Nat
    BY <2>1 DEF Loses, Changes, IsList
  <2>3. CASE Len(d) = 0
    <3>1. x.head = NULL  BY <2>2, <2>3 DEF At
    <3>2. ~(i - 1 < len)  BY <1>1, <2>1, <2>3
    <3>3. Is(d, i)  BY <1>1, <2>3, <3>2
    <3> HIDE DEF Is
    <3> QED  BY <2>1, <2>2, <3>1, <3>3
  <2>4. CASE Len(d) # 0
    <3> DEFINE t == DropFirst(x)
               e == RemoveAt(d, 1)
    <3>1. 1 \in 1 .. Len(d) /\ At(d, 1) # NULL
      BY <2>2, <2>4, NoNode, AtOnce DEF At
    <3>2. Took(x, d, 1, t)  BY <2>2, <2>4, DropTakes
    <3>3. t \in ListStates
      <4>1. t = [node |-> t.node, head |-> t.head, tail |-> t.tail, count |-> t.count]
        BY DEF DropFirst
      <4> HIDE DEF t
      <4> QED  BY <2>2, <3>1, <3>2, <4>1, TakenState
    <3>4. Loses(x, d, t, e)  BY <2>2, <3>1, <3>2, LosesOne
    <3>5. Loses(s, c, t, e)  BY <2>1, <3>4, LosesTwice
    <3>6. e \in Seq(Nodes) /\ Len(e) = Len(d) - 1 /\ \A j \in 1 .. Len(d) - 1 : e[j] = d[j + 1]
      <4> DEFINE r == SubSeq(d, 2, Len(d))
      <4>1. r \in Seq(Nodes) /\ Len(r) = Len(d) - 1 /\ \A j \in 1 .. Len(d) - 1 : r[j] = d[j + 1]
        <5>1. r \in Seq(Nodes) /\ Len(r) = Len(d) - 2 + 1
              /\ \A j \in 1 .. Len(d) - 2 + 1 : r[j] = d[2 + j - 1]
          <6> DEFINE m == 2
                     k == Len(d)
          <6>1. m \in 1 .. k + 1 /\ k = Len(d)  BY <2>2, <2>4
          <6> HIDE DEF m, k
          <6>2. SubSeq(d, m, k) \in Seq(Nodes) /\ Len(SubSeq(d, m, k)) = k - m + 1
                /\ \A j \in 1 .. k - m + 1 : SubSeq(d, m, k)[j] = d[m + j - 1]
            BY <6>1, RestIs
          <6> QED  BY <6>2 DEF m, k
        <5>2. Len(d) - 2 + 1 = Len(d) - 1 /\ \A j \in 1 .. Len(d) - 1 : 2 + j - 1 = j + 1
          BY <2>2
        <5> HIDE DEF r
        <5> QED  BY <5>1, <5>2
      <4> HIDE DEF r
      <4>2. r = RemoveAt(d, 1)
        <5>1. \A j \in 1 .. Len(d) - 1 : r[j] = IF j < 1 THEN d[j] ELSE d[j + 1]  BY <2>2, <4>1
        <5> QED  BY <3>1, <4>1, <5>1, RemovedIs, ZenonT(60)
      <4> QED  BY <4>1, <4>2
    <3> HIDE DEF e, t
    <3>7. Is(e, i)
      <4>1. Len(d) = IF i - 1 < len THEN len - (i - 1) ELSE 0  BY <2>1
      <4>2. i - 1 < len /\ Len(d) = len - (i - 1)  BY <2>4, <4>1
      <4>3. Len(e) = IF i < len THEN len - i ELSE 0  BY <1>1, <3>6, <4>2
      <4>4. ASSUME NEW j \in 1 .. Len(e)  PROVE e[j] = c[i + j]
        <5>1. j \in 1 .. Len(d) - 1 /\ j + 1 \in 1 .. Len(d) /\ i - 1 + (j + 1) = i + j
          BY <1>1, <2>2, <3>6
        <5>2. d[j + 1] = c[i - 1 + (j + 1)]  BY <2>1, <5>1
        <5> QED  BY <3>6, <5>1, <5>2
      <4> QED  BY <4>3, <4>4
    <3>8. One(x) = t  BY <2>2, <3>1 DEF t
    <3> HIDE DEF Is, One
    <3> QED  BY <3>3, <3>5, <3>6, <3>7, <3>8
  <2> QED  BY <2>3, <2>4
<1>5. \A i \in 0 .. n : I[i] = In(i) /\ I[i] \subseteq ListStates  OBVIOUS
<1>6. \A i \in 1 .. n : \A x \in I[i - 1] : step[i][x] \in I[i]
  <2> SUFFICES ASSUME NEW i \in 1 .. n, NEW x \in I[i - 1]  PROVE step[i][x] \in I[i]
    OBVIOUS
  <2>1. i \in 0 .. n /\ i - 1 \in 0 .. n  OBVIOUS
  <2> HIDE DEF In, I, One
  <2>2. x \in In(i - 1) /\ x \in ListStates  BY <1>5, <2>1
  <2>3. step[i][x] = One(x)  BY <2>2
  <2> QED  BY <1>4, <1>5, <2>1, <2>2, <2>3
<1> HIDE DEF In, I
<1>7. PICK f \in [0 .. n -> ListStates] :
         f[0] = s /\ \A i \in 1 .. n : f[i - 1] \in I[i - 1] /\ f[i] = step[i][f[i - 1]]
  <2>1. Keeps(ListStates, 0, n, I, s, step)
    <3>1. 0 + 1 = 1 /\ s \in I[0]  BY <1>3, <1>5
    <3> HIDE DEF step
    <3> QED  BY <1>5, <1>6, <3>1 DEF Keeps
  <2> HIDE DEF step
  <2>2. PICK f : Values(f, ListStates, 0, n, I, s, step)  BY <2>1, LoopRuns
  <2>3. 0 + 1 = 1  OBVIOUS
  <2> QED  BY <2>2, <2>3 DEF Values
<1>8. All(f)
  <2>1. ASSUME NEW i \in 0 .. n
        PROVE  f[i] = IF i = 0 THEN s
                      ELSE IF f[i - 1].head = NULL THEN f[i - 1] ELSE DropFirst(f[i - 1])
    <3>1. CASE i = 0  BY <1>7, <3>1
    <3>2. CASE i # 0
      <4>1. i \in 1 .. n /\ i - 1 \in 0 .. n  BY <3>2
      <4>2. f[i] = step[i][f[i - 1]] /\ f[i - 1] \in ListStates  BY <1>7, <4>1
      <4>3. step[i][f[i - 1]] = One(f[i - 1])  BY <4>1, <4>2
      <4> QED  BY <3>2, <4>2, <4>3
    <3> QED  BY <3>1, <3>2
  <2>2. f = [i \in 0 .. n |-> f[i]]  BY <1>7
  <2> QED  BY <2>1, <2>2
<1>9. All(g)
  <2> HIDE DEF All
  <2> QED  BY <1>8, Zenon
<1>10. g[0] = s /\ \A i \in 1 .. n : g[i] = One(g[i - 1])
  <2> DEFINE B == Body(g)
  <2>1. g = B  BY <1>9
  <2>2. B[0] = s /\ \A i \in 1 .. n : B[i] = One(g[i - 1])
    <3> HIDE DEF g
    <3> QED  OBVIOUS
  <2> HIDE DEF B
  <2> QED  BY <2>1, <2>2, Zenon
<1> HIDE DEF g
<1>11. g[n] \in In(n)
  <2>1. g[0] \in I[0]  BY <1>3, <1>5, <1>10
  <2>2. \A i \in 0 + 1 .. n : g[i - 1] \in I[i - 1] => g[i] \in I[i]
    <3> SUFFICES ASSUME NEW i \in 1 .. n, g[i - 1] \in I[i - 1]  PROVE g[i] \in I[i]
      OBVIOUS
    <3>1. i \in 0 .. n /\ i - 1 \in 0 .. n  OBVIOUS
    <3>2. g[i - 1] \in In(i - 1)  BY <1>5, <3>1
    <3> HIDE DEF One
    <3>3. One(g[i - 1]) \in In(i)  BY <1>4, <3>2
    <3> QED  BY <1>5, <1>10, <3>1, <3>3
  <2>3. \A i \in 0 .. n : g[i] \in I[i]  BY <2>1, <2>2, LoopKeeps
  <2> QED  BY <1>5, <2>3
<1> QED  BY <1>2, <1>11 DEF In, RestOf

\* d is k, x and r: where x is, and what is left without it.
Middle(S, k, x, r, d) ==
    /\ d \in Seq(S) /\ Len(k) \in Nat /\ Len(k) + 1 \in 1 .. Len(d)
    /\ d[Len(k) + 1] = x
    /\ Len(k) # 0 => Len(k) \in 1 .. Len(d) /\ d[Len(k)] = k[Len(k)]
    /\ RemoveAt(d, Len(k) + 1) = k \o r
    /\ Append(k, x) \in Seq(S) /\ Append(k, x) \o r = d

\* A sequence with x behind k and before r is such a d.
LEMMA MiddleOf ==
    ASSUME NEW S, NEW k \in Seq(S), NEW x \in S, NEW r \in Seq(S)
    PROVE  Middle(S, k, x, r, k \o (<<x>> \o r))
<1> DEFINE d == k \o (<<x>> \o r)
<1> DEFINE one == <<x>>
           n == Len(k)
           t == k \o r
<1>1. one \in Seq(S) /\ Len(one) = 1 /\ one[1] = x  OBVIOUS
<1>2. n \in Nat /\ Len(r) \in Nat  OBVIOUS
<1>3. Append(k, x) \in Seq(S) /\ Append(k, x) = k \o one  BY AppendProperties, AppendIsConcat
<1> HIDE DEF one
<1>4. (k \o one) \o r = d  BY <1>1, ConcatAssociative DEF one
<1>5. Join(S, d, k, one, r)
  <2> HIDE DEF d
  <2>1. Join(S, k \o one \o r, k, one, r)  BY <1>1, Joined
  <2> QED  BY <1>4, <2>1
<1> HIDE DEF d
<1>6. /\ d \in Seq(S) /\ Len(d) = n + 1 + Len(r)
      /\ \A i \in 1 .. n + 1 + Len(r) :
            d[i] = IF i <= n THEN k[i] ELSE IF i <= n + 1 THEN one[i - n] ELSE r[i - n - 1]
  BY <1>1, <1>5 DEF Join
<1>7. /\ t \in Seq(S) /\ Len(t) = n + Len(r)
      /\ \A i \in 1 .. n + Len(r) : t[i] = IF i <= n THEN k[i] ELSE r[i - n]
  BY ConcatProperties
<1> HIDE DEF n, t
<1>8. /\ n + 1 \in 1 .. Len(d) /\ d[n + 1] = x
      /\ n # 0 => n \in 1 .. Len(d) /\ d[n] = k[n]
  <2>1. n + 1 \in 1 .. n + 1 + Len(r) /\ ~(n + 1 <= n) /\ n + 1 - n = 1  BY <1>2
  <2>2. n # 0 => n \in 1 .. n + 1 + Len(r)  BY <1>2
  <2>3. d[n + 1] = one[1]
    <3> DEFINE j == n + 1
    <3>1. j \in 1 .. n + 1 + Len(r) /\ ~(j <= n) /\ j <= n + 1 /\ j - n = 1  BY <1>2
    <3> HIDE DEF j
    <3>2. d[j] = one[1]  BY <1>6, <3>1
    <3> QED  BY <3>2 DEF j
  <2>4. n # 0 => d[n] = k[n]  BY <1>2, <1>6, <2>2
  <2> QED  BY <1>1, <1>6, <2>1, <2>2, <2>3, <2>4
<1>9. t = RemoveAt(d, n + 1)
  <2>1. ASSUME NEW i \in 1 .. Len(d) - 1
        PROVE  t[i] = IF i < n + 1 THEN d[i] ELSE d[i + 1]
    <3>1. i \in 1 .. n + Len(r) /\ i \in 1 .. n + 1 + Len(r) /\ i + 1 \in 1 .. n + 1 + Len(r)
      BY <1>2, <1>6
    <3>2. CASE i <= n  BY <1>2, <1>6, <1>7, <3>1, <3>2
    <3>3. CASE ~(i <= n)
      <4>1. ~(i < n + 1) /\ ~(i + 1 <= n) /\ ~(i + 1 <= n + 1) /\ i + 1 - n - 1 = i - n
        BY <1>2, <3>3
      <4>2. d[i + 1] = r[i - n]
        <5> DEFINE j == i + 1
        <5>1. j \in 1 .. n + 1 + Len(r) /\ ~(j <= n) /\ ~(j <= n + 1) /\ j - n - 1 = i - n
          BY <1>2, <3>1, <4>1
        <5> HIDE DEF j
        <5>2. d[j] = r[j - n - 1]  BY <1>6, <5>1
        <5> QED  BY <5>1, <5>2 DEF j
      <4> QED  BY <1>7, <3>1, <3>3, <4>1, <4>2
    <3> QED  BY <3>2, <3>3
  <2>2. Len(t) = Len(d) - 1  BY <1>2, <1>6, <1>7
  <2> HIDE DEF t
  <2> QED  BY <1>6, <1>7, <1>8, <2>1, <2>2, RemovedIs
<1>10. Middle(S, k, x, r, d)  BY <1>2, <1>3, <1>4, <1>6, <1>8, <1>9 DEF n, t, Middle
<1> QED  BY <1>10 DEF d

\* What stays of data when every e is left out.
Kept(data, e) ==
    LET kept[i \in 0 .. Len(data)] ==
            IF i = 0 THEN <<>>
            ELSE IF data[i] = e THEN kept[i - 1] ELSE Append(kept[i - 1], data[i])
    IN  kept[Len(data)]

\* It comes about step by step.
LEMMA KeptSteps ==
    ASSUME NEW data \in Seq(Elems), NEW e
    PROVE  \E g : /\ g[0] = <<>> /\ g[Len(data)] = Kept(data, e)
                  /\ \A i \in 1 .. Len(data) :
                        g[i] = IF data[i] = e THEN g[i - 1] ELSE Append(g[i - 1], data[i])
<1> DEFINE n == Len(data)
           S == Seq(Elems)
           One(i, x) == IF data[i] = e THEN x ELSE Append(x, data[i])
           I == [i \in 0 .. n |-> S]
           step == [i \in 1 .. n |-> [x \in S |-> One(i, x)]]
           Body(g) == [i \in 0 .. n |->
                         IF i = 0 THEN <<>>
                         ELSE IF data[i] = e THEN g[i - 1] ELSE Append(g[i - 1], data[i])]
           All(g) == g = Body(g)
           g == CHOOSE h : All(h)
<1>1. n \in Nat /\ <<>> \in S  OBVIOUS
<1>2. Kept(data, e) = g[n]  BY Zenon DEF Kept
<1>3. ASSUME NEW i \in 1 .. n, NEW x \in S  PROVE One(i, x) \in S
  <2>1. data[i] \in Elems  BY ElementOfSeq
  <2> QED  BY <2>1, AppendProperties
<1>4. Keeps(S, 0, n, I, <<>>, step)
  <2>1. \A i \in 0 .. n : I[i] = S  OBVIOUS
  <2>2. ASSUME NEW i \in 1 .. n, NEW x \in I[i - 1]  PROVE step[i][x] \in I[i]
    <3>1. i \in 0 .. n /\ i - 1 \in 0 .. n  BY <1>1
    <3>2. x \in S  BY <3>1
    <3>3. step[i][x] = One(i, x)
      <4> HIDE DEF One, S
      <4> QED  BY <3>2
    <3> HIDE DEF One, S, step
    <3> QED  BY <1>3, <3>1, <3>2, <3>3
  <2>3. 0 + 1 = 1 /\ 0 \in 0 .. n /\ 0 <= n  BY <1>1
  <2> HIDE DEF step, I, S
  <2> QED  BY <1>1, <2>1, <2>2, <2>3 DEF Keeps
<1>5. PICK f : /\ f \in [0 .. n -> S] /\ f[0] = <<>>
               /\ \A i \in 1 .. n : f[i] = step[i][f[i - 1]]
  <2> HIDE DEF step, I, S
  <2>1. PICK f : Values(f, S, 0, n, I, <<>>, step)  BY <1>4, LoopRuns
  <2>2. 0 + 1 = 1  OBVIOUS
  <2> QED  BY <2>1, <2>2 DEF Values
<1>6. All(f)
  <2>1. ASSUME NEW i \in 0 .. n
        PROVE  f[i] = IF i = 0 THEN <<>>
                      ELSE IF data[i] = e THEN f[i - 1] ELSE Append(f[i - 1], data[i])
    <3>1. CASE i = 0  BY <1>5, <3>1
    <3>2. CASE i # 0
      <4>1. i \in 1 .. n /\ i - 1 \in 0 .. n  BY <1>1, <3>2
      <4>2. f[i] = step[i][f[i - 1]] /\ f[i - 1] \in S
        <5> HIDE DEF step, S
        <5> QED  BY <1>5, <4>1
      <4>3. step[i][f[i - 1]] = One(i, f[i - 1])
        <5> HIDE DEF S, One
        <5> QED  BY <4>1, <4>2
      <4> QED  BY <3>2, <4>2, <4>3
    <3> QED  BY <3>1, <3>2
  <2>2. f = [i \in 0 .. n |-> f[i]]  BY <1>5
  <2> QED  BY <2>1, <2>2
<1>7. All(g)
  <2> HIDE DEF All
  <2> QED  BY <1>6, Zenon
<1>8. g[0] = <<>> /\ \A i \in 1 .. n : g[i] = One(i, g[i - 1])
  <2> DEFINE B == Body(g)
  <2>1. g = B  BY <1>7
  <2>2. B[0] = <<>> /\ \A i \in 1 .. n : B[i] = One(i, g[i - 1])
    <3> HIDE DEF g
    <3> QED  BY <1>1
  <2> HIDE DEF B
  <2> QED  BY <2>1, <2>2, Zenon
<1> HIDE DEF g
<1> QED  BY <1>2, <1>8

\* The list s after each of its nodes that holds e was unlinked.
IfGone(s, mine, e) ==
    LET left[i \in 0 .. Len(mine)] ==
            IF i = 0 THEN s
            ELSE IF left[i - 1].node[mine[i]].data = e THEN Unlink(left[i - 1], mine[i])
            ELSE left[i - 1]
    IN  left[Len(mine)]

\* A longer chain of kept nodes holds what the shorter held, and one element more.
LEMMA DataAppend ==
    ASSUME NEW heap, NEW k \in Seq(Nodes), NEW x \in Nodes, heap[x].data \in Elems,
           Data(heap, k) \in Seq(Elems)
    PROVE  Data(heap, Append(k, x)) = Append(Data(heap, k), heap[x].data)
<1> DEFINE a == Append(k, x)
           old == Data(heap, k)
           v == heap[x].data
           b == Append(old, v)
           new == Data(heap, a)
           n == Len(k)
<1>1. a \in Seq(Nodes) /\ Len(a) = n + 1 /\ n \in Nat
      /\ (\A i \in 1 .. n : a[i] = k[i]) /\ a[n + 1] = x
  BY AppendProperties
<1>2. Len(old) = n /\ \A i \in 1 .. n : old[i] = heap[k[i]].data
  BY <1>1 DEF Data
<1> HIDE DEF a, old
<1>3. old \in Seq(Elems)  BY DEF old
<1>4. b \in Seq(Elems) /\ Len(b) = n + 1 /\ (\A i \in 1 .. n : b[i] = old[i]) /\ b[n + 1] = v
  <2>1. v \in Elems  OBVIOUS
  <2> HIDE DEF v
  <2>2. b \in Seq(Elems) /\ Len(b) = Len(old) + 1 /\ (\A i \in 1 .. Len(old) : b[i] = old[i])
        /\ b[Len(old) + 1] = v
    BY <1>3, <2>1, AppendProperties
  <2> HIDE DEF b
  <2> QED  BY <1>2, <2>2
<1>5. new = [i \in 1 .. n + 1 |-> heap[a[i]].data]  BY <1>1 DEF Data
<1>6. b = [i \in 1 .. n + 1 |-> b[i]]
  <2> HIDE DEF b
  <2> QED  BY <1>4
<1> HIDE DEF b, new
<1>7. ASSUME NEW i \in 1 .. n + 1  PROVE heap[a[i]].data = b[i]
  <2>1. CASE i = n + 1  BY <1>1, <1>4, <2>1
  <2>2. CASE i # n + 1
    <3>1. i \in 1 .. n  BY <1>1, <2>2
    <3> QED  BY <1>1, <1>2, <1>4, <3>1
  <2> QED  BY <2>1, <2>2
<1>8. new = b  BY <1>5, <1>6, <1>7
<1> QED  BY <1>8 DEF new, b, a, old

\* Then the list has lost exactly those, and holds what stays.
LEMMA IfGoneIs ==
    ASSUME NEW s \in ListStates, NEW c, IsList(s, c), NEW e
    PROVE  \E d \in Seq(Nodes) : /\ Loses(s, c, IfGone(s, c, e), d)
                                 /\ IfGone(s, c, e) \in ListStates
                                 /\ Data(s.node, d) = Kept(Data(s.node, c), e)
<1> DEFINE n == Len(c)
           h == s.node
           data == Data(h, c)
           Rest(i) == SubSeq(c, i, n)
<1>1. n \in Nat /\ c \in Seq(Nodes) /\ \A i \in 1 .. n : c[i] \in Nodes /\ c[i] \in ToSet(c)
  <2>1. n \in Nat /\ (\A i \in 1 .. n : c[i] \in Nodes) /\ ToSet(c) = {c[i] : i \in 1 .. n}
    BY AtOnce
  <2>2. c \in Seq(Nodes)  BY DEF IsList
  <2> QED  BY <2>1, <2>2
<1>2. data \in Seq(Elems) /\ Len(data) = n /\ \A i \in 1 .. n : data[i] = h[c[i]].data
  BY DataIs
<1>3. PICK kept : /\ kept[0] = <<>> /\ kept[n] = Kept(data, e)
                  /\ \A i \in 1 .. n :
                        kept[i] = IF data[i] = e THEN kept[i - 1] ELSE Append(kept[i - 1], data[i])
  <2> HIDE DEF data
  <2> QED  BY <1>2, KeptSteps
<1> HIDE DEF data
<1> DEFINE Is(x, k, i) == /\ Loses(s, c, x, k \o Rest(i + 1))
                          /\ Data(h, k) = kept[i] /\ Data(h, k) \in Seq(Elems)
           In(i) == {x \in ListStates : \E k \in Seq(Nodes) : Is(x, k, i)}
           I == [i \in 0 .. n |-> In(i)]
           One(i, x) == IF x.node[c[i]].data = e THEN Unlink(x, c[i]) ELSE x
           step == [i \in 1 .. n |-> [x \in ListStates |-> One(i, x)]]
           Body(g) == [i \in 0 .. n |->
                         IF i = 0 THEN s
                         ELSE IF g[i - 1].node[c[i]].data = e THEN Unlink(g[i - 1], c[i])
                         ELSE g[i - 1]]
           All(g) == g = Body(g)
           g == CHOOSE f : All(f)
<1>4. IfGone(s, c, e) = g[n]  BY Zenon DEF IfGone
<1>5. s \in In(0)
  <2>1. <<>> \o Rest(0 + 1) = c
    <3>1. Rest(1) = c  BY <1>1, SubSeqFull
    <3>2. 0 + 1 = 1  OBVIOUS
    <3> HIDE DEF Rest
    <3> QED  BY <1>1, <3>1, <3>2, ConcatEmptySeq
  <2>2. Data(h, <<>>) = <<>>  BY DEF Data
  <2>3. Is(s, <<>>, 0)
    <3>1. <<>> \in Seq(Elems) /\ Loses(s, c, s, c)  BY LosesNone
    <3> HIDE DEF Rest, h
    <3> QED  BY <1>3, <2>1, <2>2, <3>1
  <2> HIDE DEF Is
  <2>4. <<>> \in Seq(Nodes)  OBVIOUS
  <2> QED  BY <2>3, <2>4
<1>6. ASSUME NEW i \in 1 .. n, NEW x \in In(i - 1)  PROVE One(i, x) \in In(i)
  <2>1. x \in ListStates  OBVIOUS
  <2>2. PICK k \in Seq(Nodes) : Is(x, k, i - 1)  OBVIOUS
  <2> DEFINE d == k \o Rest(i)
             r == Rest(i + 1)
             m == c[i]
  <2>3. m \in Nodes /\ m \in ToSet(c)  BY <1>1
  <2>4. i - 1 + 1 = i  BY <1>1
  <2>5. Loses(s, c, x, d) /\ Data(h, k) = kept[i - 1] /\ Data(h, k) \in Seq(Elems)
    <3> HIDE DEF Rest
    <3> QED  BY <2>2, <2>4
  <2>6. r \in Seq(Nodes) /\ d = k \o (<<m>> \o r)
    <3>1. Rest(i) = <<m>> \o r  BY <1>1, RestOneLess
    <3>2. r \in Seq(Nodes)
      <4> DEFINE j == i + 1
      <4>1. j \in 1 .. n + 1  BY <1>1
      <4> HIDE DEF j
      <4>2. SubSeq(c, j, n) \in Seq(Nodes)  BY <1>1, <4>1, RestIs
      <4> QED  BY <4>2 DEF j
    <3> QED  BY <3>1, <3>2
  <2> HIDE DEF d, r
  <2>7. /\ d \in Seq(Nodes) /\ Len(k) + 1 \in 1 .. Len(d) /\ d[Len(k) + 1] = m
        /\ RemoveAt(d, Len(k) + 1) = k \o r
        /\ Append(k, m) \in Seq(Nodes) /\ Append(k, m) \o r = d
    <3> HIDE DEF m
    <3>1. m \in Nodes /\ k \in Seq(Nodes) /\ r \in Seq(Nodes) /\ d = k \o (<<m>> \o r)
      BY <2>3, <2>6
    <3>2. Middle(Nodes, k, m, r, k \o (<<m>> \o r))  BY <3>1, MiddleOf
    <3> QED  BY <3>1, <3>2 DEF Middle
  <2>8. m \in ToSet(d)  BY <2>7 DEF ToSet
  <2>9. x.node[m].data = data[i] /\ h[m].data = data[i] /\ data[i] \in Elems
    <3>1. x.node[m].data = h[m].data  BY <2>5, <2>8 DEF Loses
    <3>2. data[i] \in Elems  BY <1>2, ElementOfSeq
    <3> QED  BY <1>2, <3>1, <3>2
  <2>10. kept[i] = IF data[i] = e THEN kept[i - 1] ELSE Append(kept[i - 1], data[i])
    BY <1>3
  <2>11. CASE data[i] = e
    <3> DEFINE t == Unlink(x, m)
               p == Len(k) + 1
    <3>1. IsList(x, d)  BY <2>5 DEF Loses, Changes
    <3>2. p \in 1 .. Len(d) /\ d[p] = m  BY <2>7
    <3> HIDE DEF p
    <3>3. Took(x, d, p, t)  BY <3>1, <3>2, UnlinkTakes
    <3>4. Loses(x, d, t, RemoveAt(d, p))
      <4> HIDE DEF t
      <4> QED  BY <3>1, <3>2, <3>3, LosesOne
    <3>5. RemoveAt(d, p) = k \o r  BY <2>7 DEF p
    <3>6. Loses(s, c, t, k \o r)
      <4> HIDE DEF t, m
      <4> QED  BY <2>5, <3>4, <3>5, LosesTwice
    <3>7. t \in ListStates
      <4>1. t = [node |-> t.node, head |-> t.head, tail |-> t.tail, count |-> t.count]
        BY DEF Unlink
      <4> HIDE DEF t, m
      <4> QED  BY <2>1, <3>1, <3>2, <3>3, <4>1, TakenState
    <3>8. One(i, x) = t  BY <2>9, <2>11
    <3>9. Is(t, k, i)
      <4> HIDE DEF t, m
      <4> QED  BY <2>5, <2>10, <2>11, <3>6 DEF r
    <3> HIDE DEF t, Is, One
    <3> QED  BY <3>7, <3>8, <3>9
  <2>12. CASE data[i] # e
    <3> DEFINE a == Append(k, m)
    <3>1. Data(h, a) = Append(Data(h, k), h[m].data)
      <4> HIDE DEF h, m
      <4> QED  BY <2>3, <2>5, <2>9, DataAppend
    <3>2. Data(h, a) \in Seq(Elems)
      <4> HIDE DEF a, m, h
      <4> QED  BY <2>5, <2>9, <3>1, AppendProperties
    <3>3. Is(x, a, i)
      <4>1. Loses(s, c, x, a \o r)  BY <2>5, <2>7
      <4> HIDE DEF a, m, h
      <4> QED  BY <2>5, <2>9, <2>10, <2>12, <3>1, <3>2, <4>1 DEF r
    <3>4. One(i, x) = x  BY <2>9, <2>12
    <3>5. a \in Seq(Nodes)  BY <2>7
    <3> HIDE DEF a, Is, One
    <3> QED  BY <2>1, <3>3, <3>4, <3>5
  <2> QED  BY <2>11, <2>12
<1>7. \A i \in 0 .. n : I[i] = In(i) /\ I[i] \subseteq ListStates  OBVIOUS
<1>8. \A i \in 1 .. n : \A x \in I[i - 1] : step[i][x] \in I[i]
  <2> SUFFICES ASSUME NEW i \in 1 .. n, NEW x \in I[i - 1]  PROVE step[i][x] \in I[i]
    OBVIOUS
  <2>1. i \in 0 .. n /\ i - 1 \in 0 .. n  BY <1>1
  <2> HIDE DEF In, I, One
  <2>2. x \in In(i - 1) /\ x \in ListStates  BY <1>7, <2>1
  <2>3. step[i][x] = One(i, x)  BY <2>2
  <2> HIDE DEF step
  <2> QED  BY <1>6, <1>7, <2>1, <2>2, <2>3
<1> HIDE DEF In, I
<1>9. PICK f : /\ f \in [0 .. n -> ListStates] /\ f[0] = s
               /\ \A i \in 1 .. n : f[i] = step[i][f[i - 1]]
  <2>1. Keeps(ListStates, 0, n, I, s, step)
    <3>1. 0 + 1 = 1 /\ s \in I[0] /\ 0 <= n  BY <1>1, <1>5, <1>7
    <3> HIDE DEF step
    <3> QED  BY <1>1, <1>7, <1>8, <3>1 DEF Keeps
  <2> HIDE DEF step
  <2>2. PICK f : Values(f, ListStates, 0, n, I, s, step)  BY <2>1, LoopRuns
  <2>3. 0 + 1 = 1  OBVIOUS
  <2> QED  BY <2>2, <2>3 DEF Values
<1>10. All(f)
  <2>1. ASSUME NEW i \in 0 .. n
        PROVE  f[i] = IF i = 0 THEN s
                      ELSE IF f[i - 1].node[c[i]].data = e THEN Unlink(f[i - 1], c[i])
                      ELSE f[i - 1]
    <3>1. CASE i = 0  BY <1>9, <3>1
    <3>2. CASE i # 0
      <4>1. i \in 1 .. n /\ i - 1 \in 0 .. n  BY <1>1, <3>2
      <4>2. f[i] = step[i][f[i - 1]] /\ f[i - 1] \in ListStates
        <5> HIDE DEF step
        <5> QED  BY <1>9, <4>1
      <4>3. step[i][f[i - 1]] = One(i, f[i - 1])
        <5> HIDE DEF One
        <5> QED  BY <4>1, <4>2
      <4>4. f[i] = One(i, f[i - 1])
        <5> HIDE DEF step, One
        <5> QED  BY <4>2, <4>3
      <4> QED  BY <3>2, <4>4
    <3> QED  BY <3>1, <3>2
  <2>2. f = [i \in 0 .. n |-> f[i]]  BY <1>9
  <2> QED  BY <2>1, <2>2
<1>11. All(g)
  <2> HIDE DEF All
  <2> QED  BY <1>10, Zenon
<1>12. g[0] = s /\ \A i \in 1 .. n : g[i] = One(i, g[i - 1])
  <2> DEFINE B == Body(g)
  <2>1. g = B  BY <1>11
  <2>2. B[0] = s /\ \A i \in 1 .. n : B[i] = One(i, g[i - 1])
    <3> HIDE DEF g
    <3> QED  BY <1>1
  <2> HIDE DEF B
  <2> QED  BY <2>1, <2>2, Zenon
<1> HIDE DEF g
<1>13. g[n] \in In(n)
  <2>1. g[0] \in I[0]  BY <1>1, <1>5, <1>7, <1>12
  <2>2. \A i \in 0 + 1 .. n : g[i - 1] \in I[i - 1] => g[i] \in I[i]
    <3> SUFFICES ASSUME NEW i \in 1 .. n, g[i - 1] \in I[i - 1]  PROVE g[i] \in I[i]
      OBVIOUS
    <3>1. i \in 0 .. n /\ i - 1 \in 0 .. n  BY <1>1
    <3>2. g[i - 1] \in In(i - 1)  BY <1>7, <3>1
    <3> HIDE DEF One
    <3>3. One(i, g[i - 1]) \in In(i)  BY <1>6, <3>2
    <3> QED  BY <1>7, <1>12, <3>1, <3>3
  <2>3. \A i \in 0 .. n : g[i] \in I[i]  BY <1>1, <2>1, <2>2, LoopKeeps
  <2> QED  BY <1>1, <1>7, <2>3
<1>14. PICK k \in Seq(Nodes) : Is(g[n], k, n)  BY <1>13 DEF In
<1>15. k \o Rest(n + 1) = k
  <2>1. Rest(n + 1) = <<>>  BY <1>1, SubSeqEmpty
  <2> HIDE DEF Rest
  <2> QED  BY <2>1, ConcatEmptySeq
<1>16. g[n] \in ListStates  BY <1>13 DEF In
<1> HIDE DEF Rest
<1> QED  BY <1>3, <1>4, <1>14, <1>15, <1>16 DEF data

\* What stays of data when of equal neighbours the first stays.
Firsts(data) ==
    LET kept[i \in 0 .. Len(data)] ==
            IF i = 0 THEN <<>>
            ELSE IF i > 1 /\ data[i - 1] = data[i] THEN kept[i - 1]
            ELSE Append(kept[i - 1], data[i])
    IN  kept[Len(data)]

\* It comes about step by step.
LEMMA FirstsSteps ==
    ASSUME NEW data \in Seq(Elems)
    PROVE  \E g : /\ g[0] = <<>> /\ g[Len(data)] = Firsts(data)
                  /\ \A i \in 1 .. Len(data) :
                        g[i] = IF i > 1 /\ data[i - 1] = data[i] THEN g[i - 1]
                               ELSE Append(g[i - 1], data[i])
<1> DEFINE n == Len(data)
           S == Seq(Elems)
           One(i, x) == IF i > 1 /\ data[i - 1] = data[i] THEN x ELSE Append(x, data[i])
           I == [i \in 0 .. n |-> S]
           step == [i \in 1 .. n |-> [x \in S |-> One(i, x)]]
           Body(g) == [i \in 0 .. n |->
                         IF i = 0 THEN <<>>
                         ELSE IF i > 1 /\ data[i - 1] = data[i] THEN g[i - 1]
                         ELSE Append(g[i - 1], data[i])]
           All(g) == g = Body(g)
           g == CHOOSE h : All(h)
<1>1. n \in Nat /\ <<>> \in S  OBVIOUS
<1>2. Firsts(data) = g[n]  BY Zenon DEF Firsts
<1>3. ASSUME NEW i \in 1 .. n, NEW x \in S  PROVE One(i, x) \in S
  <2>1. data[i] \in Elems  BY ElementOfSeq
  <2> QED  BY <2>1, AppendProperties
<1>4. Keeps(S, 0, n, I, <<>>, step)
  <2>1. \A i \in 0 .. n : I[i] = S  OBVIOUS
  <2>2. ASSUME NEW i \in 1 .. n, NEW x \in I[i - 1]  PROVE step[i][x] \in I[i]
    <3>1. i \in 0 .. n /\ i - 1 \in 0 .. n  BY <1>1
    <3>2. x \in S  BY <3>1
    <3>3. step[i][x] = One(i, x)
      <4> HIDE DEF One, S
      <4> QED  BY <3>2
    <3> HIDE DEF One, S, step
    <3> QED  BY <1>3, <3>1, <3>2, <3>3
  <2>3. 0 + 1 = 1 /\ 0 \in 0 .. n /\ 0 <= n  BY <1>1
  <2> HIDE DEF step, I, S
  <2> QED  BY <1>1, <2>1, <2>2, <2>3 DEF Keeps
<1>5. PICK f : /\ f \in [0 .. n -> S] /\ f[0] = <<>>
               /\ \A i \in 1 .. n : f[i] = step[i][f[i - 1]]
  <2> HIDE DEF step, I, S
  <2>1. PICK f : Values(f, S, 0, n, I, <<>>, step)  BY <1>4, LoopRuns
  <2>2. 0 + 1 = 1  OBVIOUS
  <2> QED  BY <2>1, <2>2 DEF Values
<1>6. All(f)
  <2>1. ASSUME NEW i \in 0 .. n
        PROVE  f[i] = IF i = 0 THEN <<>>
                      ELSE IF i > 1 /\ data[i - 1] = data[i] THEN f[i - 1]
                      ELSE Append(f[i - 1], data[i])
    <3>1. CASE i = 0  BY <1>5, <3>1
    <3>2. CASE i # 0
      <4>1. i \in 1 .. n /\ i - 1 \in 0 .. n  BY <1>1, <3>2
      <4>2. f[i] = step[i][f[i - 1]] /\ f[i - 1] \in S
        <5> HIDE DEF step, S
        <5> QED  BY <1>5, <4>1
      <4>3. step[i][f[i - 1]] = One(i, f[i - 1])
        <5> HIDE DEF S, One
        <5> QED  BY <4>1, <4>2
      <4> QED  BY <3>2, <4>2, <4>3
    <3> QED  BY <3>1, <3>2
  <2>2. f = [i \in 0 .. n |-> f[i]]  BY <1>5
  <2> QED  BY <2>1, <2>2
<1>7. All(g)
  <2> HIDE DEF All
  <2> QED  BY <1>6, Zenon
<1>8. g[0] = <<>> /\ \A i \in 1 .. n : g[i] = One(i, g[i - 1])
  <2> DEFINE B == Body(g)
  <2>1. g = B  BY <1>7
  <2>2. B[0] = <<>> /\ \A i \in 1 .. n : B[i] = One(i, g[i - 1])
    <3> HIDE DEF g
    <3> QED  BY <1>1
  <2> HIDE DEF B
  <2> QED  BY <2>1, <2>2, Zenon
<1> HIDE DEF g
<1> QED  BY <1>2, <1>8

\* The list s after each node equal to the one before it that stays was dropped.
CopiesGone(s, mine) ==
    LET left[i \in 1 .. Len(mine)] ==
            IF i = 1 THEN [s |-> s, kept |-> mine[1]]
            ELSE LET t == left[i - 1].s
                     n == left[i - 1].kept
                 IN  IF t.node[n].data = t.node[mine[i]].data
                     THEN [s |-> DropAfter(t, n), kept |-> n]
                     ELSE [s |-> t, kept |-> mine[i]]
    IN  left[Len(mine)].s

\* Then the list has lost exactly the copies, and holds the first of each run.
LEMMA CopiesGoneIs ==
    ASSUME NEW s \in ListStates, NEW c, IsList(s, c), Len(c) # 0
    PROVE  \E d \in Seq(Nodes) : /\ Loses(s, c, CopiesGone(s, c), d)
                                 /\ Data(s.node, d) = Firsts(Data(s.node, c))
<1> DEFINE n == Len(c)
           h == s.node
           data == Data(h, c)
           Rest(i) == SubSeq(c, i, n)
<1>1. n \in Nat /\ c \in Seq(Nodes) /\ \A i \in 1 .. n : c[i] \in Nodes /\ c[i] \in ToSet(c)
  <2>1. n \in Nat /\ (\A i \in 1 .. n : c[i] \in Nodes) /\ ToSet(c) = {c[i] : i \in 1 .. n}
    BY AtOnce
  <2>2. c \in Seq(Nodes)  BY DEF IsList
  <2> QED  BY <2>1, <2>2
<1>2. data \in Seq(Elems) /\ Len(data) = n /\ \A i \in 1 .. n : data[i] = h[c[i]].data
  BY DataIs
<1>3. PICK kept : /\ kept[0] = <<>> /\ kept[n] = Firsts(data)
                  /\ \A i \in 1 .. n :
                        kept[i] = IF i > 1 /\ data[i - 1] = data[i] THEN kept[i - 1]
                                  ELSE Append(kept[i - 1], data[i])
  <2> HIDE DEF data
  <2> QED  BY <1>2, FirstsSteps
<1> HIDE DEF data
<1> DEFINE Pairs == [s : ListStates, kept : Nodes]
           Is(x, k, i) == /\ Len(k) # 0 /\ x.kept = k[Len(k)] /\ h[x.kept].data = data[i]
                          /\ Loses(s, c, x.s, k \o Rest(i + 1))
                          /\ Data(h, k) = kept[i] /\ Data(h, k) \in Seq(Elems)
           In(i) == {x \in Pairs : \E k \in Seq(Nodes) : Is(x, k, i)}
           I == [i \in 1 .. n |-> In(i)]
           One(i, x) == IF x.s.node[x.kept].data = x.s.node[c[i]].data
                        THEN [s |-> DropAfter(x.s, x.kept), kept |-> x.kept]
                        ELSE [s |-> x.s, kept |-> c[i]]
           first == [s |-> s, kept |-> c[1]]
           step == [i \in 2 .. n |-> [x \in Pairs |-> One(i, x)]]
           Body(g) == [i \in 1 .. n |->
                         IF i = 1 THEN [s |-> s, kept |-> c[1]]
                         ELSE LET t == g[i - 1].s
                                  m == g[i - 1].kept
                              IN  IF t.node[m].data = t.node[c[i]].data
                                  THEN [s |-> DropAfter(t, m), kept |-> m]
                                  ELSE [s |-> t, kept |-> c[i]]]
           All(g) == g = Body(g)
           g == CHOOSE f : All(f)
<1>4. CopiesGone(s, c) = g[n].s  BY Zenon DEF CopiesGone
<1>5. first \in In(1)
  <2> DEFINE k == <<c[1]>>
  <2>0. 1 \in 1 .. n /\ c[1] \in Nodes /\ 1 + 1 = 2  BY <1>1
  <2>1. k \o Rest(2) = c
    <3>1. Rest(1) = c  BY <1>1, SubSeqFull
    <3> DEFINE j == 1
    <3>2. j \in 1 .. n  BY <2>0
    <3> HIDE DEF j
    <3>3. SubSeq(c, j, n) = <<c[j]>> \o SubSeq(c, j + 1, n)  BY <1>1, <3>2, RestOneLess
    <3> QED  BY <2>0, <3>1, <3>3 DEF j
  <2>2. Data(h, k) = kept[1] /\ Data(h, k) \in Seq(Elems)
    <3>1. kept[1] = Append(<<>>, data[1])
      <4>1. kept[1] = IF 1 > 1 /\ data[1 - 1] = data[1] THEN kept[1 - 1]
                      ELSE Append(kept[1 - 1], data[1])
        BY <1>3, <2>0
      <4>2. ~(1 > 1) /\ 1 - 1 = 0  OBVIOUS
      <4> QED  BY <1>3, <4>1, <4>2
    <3>2. data[1] \in Elems /\ data[1] = h[c[1]].data  BY <1>2, <2>0, ElementOfSeq
    <3>3. Append(<<>>, data[1]) = <<data[1]>>  OBVIOUS
    <3>4. Data(h, k) = <<h[c[1]].data>>
      <4> DEFINE x == c[1]
      <4> HIDE DEF x, h
      <4>1. Len(<<x>>) = 1 /\ <<x>>[1] = x  OBVIOUS
      <4>2. Data(h, <<x>>) = [i \in 1 .. 1 |-> h[<<x>>[i]].data]  BY <4>1 DEF Data
      <4>3. Data(h, <<x>>) = <<h[x].data>>  BY <4>1, <4>2
      <4> QED  BY <4>3 DEF x
    <3> HIDE DEF h, k
    <3> QED  BY <3>1, <3>2, <3>3, <3>4
  <2>3. Is(first, k, 1)
    <3>1. Loses(s, c, s, c)  BY LosesNone
    <3>2. first.s = s /\ first.kept = c[1] /\ Len(k) = 1 /\ k[1] = c[1]  OBVIOUS
    <3>3. h[c[1]].data = data[1]  BY <1>2, <2>0
    <3>4. k \o Rest(1 + 1) = c  BY <2>0, <2>1
    <3>5. Loses(s, c, first.s, k \o Rest(1 + 1))
      <4> HIDE DEF Rest, k, first
      <4> QED  BY <3>1, <3>2, <3>4
    <3> HIDE DEF Rest, h, k, first
    <3> QED  BY <2>2, <3>2, <3>3, <3>5
  <2>4. k \in Seq(Nodes) /\ first \in Pairs  BY <2>0
  <2> HIDE DEF Is, first, k, Pairs
  <2> QED  BY <2>3, <2>4
<1>6. ASSUME NEW i \in 2 .. n, NEW x \in In(i - 1)  PROVE One(i, x) \in In(i)
  <2>1. x \in Pairs /\ x.s \in ListStates /\ x.kept \in Nodes  OBVIOUS
  <2>2. PICK k \in Seq(Nodes) : Is(x, k, i - 1)  OBVIOUS
  <2> DEFINE d == k \o Rest(i)
             r == Rest(i + 1)
             m == c[i]
             o == x.kept
  <2>3. i \in 1 .. n /\ i > 1 /\ m \in Nodes /\ m \in ToSet(c)  BY <1>1
  <2>4. i - 1 + 1 = i  BY <1>1
  <2>5. /\ Loses(s, c, x.s, d) /\ Data(h, k) = kept[i - 1] /\ Data(h, k) \in Seq(Elems)
        /\ Len(k) # 0 /\ o = k[Len(k)] /\ h[o].data = data[i - 1]
    <3> HIDE DEF Rest
    <3> QED  BY <2>2, <2>4
  <2>6. r \in Seq(Nodes) /\ d = k \o (<<m>> \o r)
    <3>1. Rest(i) = <<m>> \o r  BY <1>1, <2>3, RestOneLess
    <3>2. r \in Seq(Nodes)
      <4> DEFINE j == i + 1
      <4>1. j \in 1 .. n + 1  BY <1>1
      <4> HIDE DEF j
      <4>2. SubSeq(c, j, n) \in Seq(Nodes)  BY <1>1, <4>1, RestIs
      <4> QED  BY <4>2 DEF j
    <3> QED  BY <3>1, <3>2
  <2> HIDE DEF d, r
  <2>7. /\ d \in Seq(Nodes) /\ Len(k) + 1 \in 1 .. Len(d) /\ d[Len(k) + 1] = m
        /\ Len(k) \in 1 .. Len(d) /\ d[Len(k)] = o
        /\ RemoveAt(d, Len(k) + 1) = k \o r
        /\ Append(k, m) \in Seq(Nodes) /\ Append(k, m) \o r = d
    <3> HIDE DEF m, o
    <3>1. m \in Nodes /\ k \in Seq(Nodes) /\ r \in Seq(Nodes) /\ d = k \o (<<m>> \o r)
      BY <2>3, <2>6
    <3>2. Middle(Nodes, k, m, r, k \o (<<m>> \o r))  BY <3>1, MiddleOf
    <3> QED  BY <2>5, <3>1, <3>2 DEF Middle
  <2>8. m \in ToSet(d) /\ o \in ToSet(d)  BY <2>7 DEF ToSet
  <2>9. /\ x.s.node[m].data = data[i] /\ h[m].data = data[i] /\ data[i] \in Elems
        /\ x.s.node[o].data = data[i - 1]
    <3>1. x.s.node[m].data = h[m].data /\ x.s.node[o].data = h[o].data
      BY <2>5, <2>8 DEF Loses
    <3>2. data[i] \in Elems  BY <1>2, <2>3, ElementOfSeq
    <3> QED  BY <1>2, <2>3, <2>5, <3>1, <3>2
  <2>10. kept[i] = IF data[i - 1] = data[i] THEN kept[i - 1] ELSE Append(kept[i - 1], data[i])
    BY <1>3, <2>3
  <2>11. CASE data[i - 1] = data[i]
    <3> DEFINE t == DropAfter(x.s, o)
               p == Len(k) + 1
               y == [s |-> t, kept |-> o]
    <3>1. IsList(x.s, d)  BY <2>5 DEF Loses, Changes
    <3>2. p \in 1 .. Len(d) /\ d[p] = m  BY <2>7
    <3>3. Took(x.s, d, p, t)
      <4> DEFINE q == Len(k)
                 w == x.s
      <4>1. q \in 1 .. Len(d) /\ q + 1 <= Len(d) /\ d[q] = o /\ IsList(w, d)
        BY <2>7, <3>1
      <4> HIDE DEF q, w, o
      <4>2. Took(w, d, q + 1, DropAfter(w, d[q]))  BY <4>1, DropAfterTakes
      <4> QED  BY <4>1, <4>2 DEF q, w
    <3> HIDE DEF p
    <3>4. Loses(x.s, d, t, RemoveAt(d, p))
      <4> HIDE DEF t
      <4> QED  BY <3>1, <3>2, <3>3, LosesOne
    <3>5. RemoveAt(d, p) = k \o r  BY <2>7 DEF p
    <3>6. Loses(s, c, t, k \o r)
      <4> HIDE DEF t, m, o
      <4> QED  BY <2>5, <3>4, <3>5, LosesTwice
    <3>7. t \in ListStates
      <4>1. t = [node |-> t.node, head |-> t.head, tail |-> t.tail, count |-> t.count]
        BY DEF DropAfter
      <4> HIDE DEF t, m, o
      <4> QED  BY <2>1, <3>1, <3>2, <3>3, <4>1, TakenState
    <3>8. One(i, x) = y  BY <2>9, <2>11
    <3> HIDE DEF t
    <3>9. y.s = t /\ y.kept = o /\ y \in Pairs  BY <2>1, <3>7
    <3>10. Is(y, k, i)
      <4> HIDE DEF m, o, y, h
      <4> QED  BY <2>5, <2>10, <2>11, <3>6, <3>9 DEF r
    <3> HIDE DEF y, Is, One, Pairs
    <3> QED  BY <3>8, <3>9, <3>10
  <2>12. CASE data[i - 1] # data[i]
    <3> DEFINE a == Append(k, m)
               y == [s |-> x.s, kept |-> m]
    <3>1. Data(h, a) = Append(Data(h, k), h[m].data)
      <4> HIDE DEF h, m, o
      <4> QED  BY <2>3, <2>5, <2>9, DataAppend
    <3>2. Data(h, a) \in Seq(Elems)
      <4> HIDE DEF a, m, h, o
      <4> QED  BY <2>5, <2>9, <3>1, AppendProperties
    <3>3. Len(a) # 0 /\ a[Len(a)] = m
      <4>1. Len(a) = Len(k) + 1 /\ a[Len(k) + 1] = m  BY <2>3, AppendProperties
      <4> HIDE DEF a, m
      <4> QED  BY <4>1
    <3>4. y.s = x.s /\ y.kept = m /\ y \in Pairs  BY <2>1, <2>3
    <3>5. Is(y, a, i)
      <4>1. Loses(s, c, x.s, a \o r)  BY <2>5, <2>7
      <4> HIDE DEF a, m, h, o, y
      <4> QED  BY <2>5, <2>9, <2>10, <2>12, <3>1, <3>2, <3>3, <3>4, <4>1 DEF r
    <3>6. One(i, x) = y  BY <2>9, <2>12
    <3>7. a \in Seq(Nodes)  BY <2>7
    <3> HIDE DEF a, Is, One, y, Pairs
    <3> QED  BY <3>4, <3>5, <3>6, <3>7
  <2> QED  BY <2>11, <2>12
<1>7. \A i \in 1 .. n : I[i] = In(i) /\ I[i] \subseteq Pairs  OBVIOUS
<1> HIDE DEF Pairs
<1>8. \A i \in 2 .. n : \A x \in I[i - 1] : step[i][x] \in I[i]
  <2> SUFFICES ASSUME NEW i \in 2 .. n, NEW x \in I[i - 1]  PROVE step[i][x] \in I[i]
    OBVIOUS
  <2>1. i \in 1 .. n /\ i - 1 \in 1 .. n  BY <1>1
  <2> HIDE DEF In, I, One
  <2>2. x \in In(i - 1) /\ x \in Pairs  BY <1>7, <2>1
  <2>3. step[i][x] = One(i, x)  BY <2>2
  <2> HIDE DEF step
  <2> QED  BY <1>6, <1>7, <2>1, <2>2, <2>3
<1> HIDE DEF In, I, first
<1>9. PICK f : /\ f \in [1 .. n -> Pairs] /\ f[1] = first
               /\ \A i \in 2 .. n : f[i] = step[i][f[i - 1]]
  <2>1. Keeps(Pairs, 1, n, I, first, step)
    <3>1. 1 + 1 = 2 /\ first \in I[1] /\ 1 <= n  BY <1>1, <1>5, <1>7
    <3> HIDE DEF step
    <3> QED  BY <1>1, <1>7, <1>8, <3>1 DEF Keeps
  <2> HIDE DEF step
  <2>2. PICK f : Values(f, Pairs, 1, n, I, first, step)  BY <2>1, LoopRuns
  <2>3. 1 + 1 = 2  OBVIOUS
  <2> QED  BY <2>2, <2>3 DEF Values
<1>10. All(f)
  <2>1. ASSUME NEW i \in 1 .. n  PROVE f[i] = IF i = 1 THEN first ELSE One(i, f[i - 1])
    <3>1. CASE i = 1  BY <1>9, <3>1
    <3>2. CASE i # 1
      <4>1. i \in 2 .. n /\ i - 1 \in 1 .. n  BY <1>1, <3>2
      <4>2. f[i] = step[i][f[i - 1]] /\ f[i - 1] \in Pairs
        <5> HIDE DEF step
        <5> QED  BY <1>9, <4>1
      <4>3. step[i][f[i - 1]] = One(i, f[i - 1])
        <5> HIDE DEF One
        <5> QED  BY <4>1, <4>2
      <4> HIDE DEF step, One
      <4> QED  BY <3>2, <4>2, <4>3
    <3> QED  BY <3>1, <3>2
  <2>2. f = [i \in 1 .. n |-> f[i]]
    <3> HIDE DEF step
    <3> QED  BY <1>9
  <2>3. f = [i \in 1 .. n |-> IF i = 1 THEN first ELSE One(i, f[i - 1])]
    <3> HIDE DEF One
    <3> QED  BY <2>1, <2>2
  <2> QED  BY <2>3, Zenon DEF first
<1>11. All(g)
  <2> HIDE DEF All
  <2> QED  BY <1>10, Zenon
<1>12. g[1] = first /\ \A i \in 2 .. n : g[i] = One(i, g[i - 1])
  <2> DEFINE B == [i \in 1 .. n |-> IF i = 1 THEN first ELSE One(i, g[i - 1])]
  <2>1. g = B
    <3> HIDE DEF g
    <3> QED  BY <1>11, Zenon DEF first
  <2>2. B[1] = first /\ \A i \in 2 .. n : B[i] = One(i, g[i - 1])
    <3> HIDE DEF g, One
    <3>1. 1 \in 1 .. n  BY <1>1
    <3>2. \A i \in 2 .. n : i \in 1 .. n /\ i # 1  BY <1>1
    <3> QED  BY <3>1, <3>2
  <2> HIDE DEF B
  <2> QED  BY <2>1, <2>2, Zenon
<1> HIDE DEF g
<1>13. g[n] \in In(n)
  <2>1. g[1] \in I[1] /\ 1 \in Nat /\ n \in 1 .. n /\ 1 + 1 = 2  BY <1>1, <1>5, <1>7, <1>12
  <2>2. \A i \in 1 + 1 .. n : g[i - 1] \in I[i - 1] => g[i] \in I[i]
    <3> SUFFICES ASSUME NEW i \in 2 .. n, g[i - 1] \in I[i - 1]  PROVE g[i] \in I[i]
      BY <2>1
    <3>1. i \in 1 .. n /\ i - 1 \in 1 .. n  BY <1>1
    <3>2. g[i - 1] \in In(i - 1)  BY <1>7, <3>1
    <3> HIDE DEF One
    <3>3. One(i, g[i - 1]) \in In(i)  BY <1>6, <3>2
    <3> QED  BY <1>7, <1>12, <3>1, <3>3
  <2>3. \A i \in 1 .. n : g[i] \in I[i]  BY <1>1, <2>1, <2>2, LoopKeeps
  <2> QED  BY <1>7, <2>1, <2>3
<1>14. PICK k \in Seq(Nodes) : Is(g[n], k, n)  BY <1>13 DEF In
<1>15. k \o Rest(n + 1) = k
  <2>1. Rest(n + 1) = <<>>  BY <1>1, SubSeqEmpty
  <2> HIDE DEF Rest
  <2> QED  BY <2>1, ConcatEmptySeq
<1> HIDE DEF Rest
<1> QED  BY <1>3, <1>4, <1>14, <1>15 DEF data

-----------------------------------------------------------------------------
(* Lists that gain a node. *)

\* The fields of a heap with one node more.
LEMMA WithIs ==
    ASSUME NEW heap \in Heaps, NEW n \in Nodes, NEW e \in Elems, NEW b \in Links, NEW a \in Links
    PROVE  /\ With(heap, n, e, b, a) \in Heaps
           /\ With(heap, n, e, b, a)[n] = [next |-> a, prev |-> b, data |-> e]
           /\ \A m \in Nodes \ {n} :
                 /\ With(heap, n, e, b, a)[m].next = IF m = b THEN n ELSE heap[m].next
                 /\ With(heap, n, e, b, a)[m].prev = IF m = a THEN n ELSE heap[m].prev
                 /\ With(heap, n, e, b, a)[m].data = heap[m].data
                 /\ m # b /\ m # a => With(heap, n, e, b, a)[m] = heap[m]
<1> DEFINE Cell(m) == [next |-> IF m = b THEN n ELSE heap[m].next,
                       prev |-> IF m = a THEN n ELSE heap[m].prev,
                       data |-> heap[m].data]
           new == [next |-> a, prev |-> b, data |-> e]
<1>1. With(heap, n, e, b, a) = [m \in Nodes |-> IF m = n THEN new ELSE Cell(m)]
  BY DEF With
<1>2. new \in [next : Links, prev : Links, data : Elems \cup {NULL}]
  OBVIOUS
<1>3. ASSUME NEW m \in Nodes
      PROVE  /\ Cell(m) \in [next : Links, prev : Links, data : Elems \cup {NULL}]
             /\ Cell(m).next = IF m = b THEN n ELSE heap[m].next
             /\ Cell(m).prev = IF m = a THEN n ELSE heap[m].prev
             /\ Cell(m).data = heap[m].data
             /\ m # b /\ m # a => Cell(m) = heap[m]
  BY NodeIs, NoNode
<1> HIDE DEF Cell, new
<1>4. With(heap, n, e, b, a) \in Heaps /\ With(heap, n, e, b, a)[n] = new
      /\ \A m \in Nodes \ {n} : With(heap, n, e, b, a)[m] = Cell(m)
  BY <1>1, <1>2, <1>3 DEF Heaps
<1> QED  BY <1>3, <1>4 DEF new

\* d is c with n at place p, what was there and behind it one further.
Longer(c, p, n, d) ==
    /\ c \in Seq(Nodes) /\ p \in 1 .. Len(c) + 1 /\ n \in Nodes /\ d \in Seq(Nodes)
    /\ Len(d) = Len(c) + 1
    /\ \A i \in 1 .. Len(c) + 1 : d[i] = IF i < p THEN c[i] ELSE IF i = p THEN n ELSE c[i - 1]

\* The places of a sequence that has n at p.
LEMMA AtWith ==
    ASSUME NEW c, NEW p, NEW n, NEW d, Longer(c, p, n, d)
    PROVE  /\ d = InsertAt(c, p, n)
           /\ \A i \in Int :
                 At(d, i) = IF i < p THEN At(c, i) ELSE IF i = p THEN n ELSE At(c, i - 1)
<1>0. /\ c \in Seq(Nodes) /\ p \in 1 .. Len(c) + 1 /\ n \in Nodes /\ d \in Seq(Nodes)
      /\ Len(d) = Len(c) + 1
      /\ \A i \in 1 .. Len(c) + 1 : d[i] = IF i < p THEN c[i] ELSE IF i = p THEN n ELSE c[i - 1]
  BY DEF Longer
<1>a. d = InsertAt(c, p, n)  BY <1>0, InsertedIs
<1> SUFFICES ASSUME NEW i \in Int
             PROVE  At(d, i) = IF i < p THEN At(c, i) ELSE IF i = p THEN n ELSE At(c, i - 1)
  BY <1>a
<1> DEFINE len == Len(c)
<1>1. len \in Nat  BY <1>0
<1>2. CASE i < p
  <2>1. i \in 1 .. len + 1 <=> i \in 1 .. len  BY <1>0, <1>1, <1>2
  <2> QED  BY <1>0, <1>1, <1>2, <2>1 DEF At
<1>3. CASE i = p  BY <1>0, <1>1, <1>3 DEF At
<1>4. CASE i > p
  <2>1. i \in 1 .. len + 1 <=> i - 1 \in 1 .. len  BY <1>0, <1>1, <1>4
  <2>2. ~(i < p) /\ i # p  BY <1>0, <1>4
  <2> QED  BY <1>0, <1>1, <2>1, <2>2 DEF At
<1>5. i < p \/ i = p \/ i > p  BY <1>0, <1>1
<1> QED  BY <1>2, <1>3, <1>4, <1>5

\* t is the list s with node n, holding e, at place p of its chain c.
Put(s, c, p, n, e, t) ==
    /\ t.node = With(s.node, n, e, At(c, p - 1), At(c, p))
    /\ t.count = s.count + 1
    /\ t.head = IF p = 1 THEN n ELSE s.head
    /\ t.tail = IF p = Len(c) + 1 THEN n ELSE s.tail

\* A list that gets a free node at place p is the list with that node there.
LEMMA PutIn ==
    ASSUME NEW s, NEW c, IsList(s, c), NEW p \in 1 .. Len(c) + 1,
           NEW n \in Nodes, s.node[n] = Free, NEW e \in Elems, NEW t, Put(s, c, p, n, e, t),
           NEW d, d = InsertAt(c, p, n)
    PROVE  /\ Changes(s, c, t, d) /\ OrderKept(c, d)
           /\ ToSet(d) = ToSet(c) \cup {n}
           /\ Data(t.node, d) = InsertAt(Data(s.node, c), p, e)
<1> DEFINE len == Len(c)
           h == s.node
           g == With(h, n, e, At(c, p - 1), At(c, p))
           f == [i \in 1 .. len + 1 |-> IF i < p THEN c[i] ELSE IF i = p THEN n ELSE c[i - 1]]
<1>1. /\ len \in Nat /\ c \in Seq(Nodes)
      /\ \A j \in 1 .. len : c[j] \in Nodes /\ c[j] # NULL /\ At(c, j) = c[j]
      /\ \A j \in 1 .. len, k \in Int : c[j] = At(c, k) <=> j = k
      /\ \A k \in Int : At(c, k) \in Links
      /\ ToSet(c) = {c[j] : j \in 1 .. len}
  <2>1. c \in Seq(Nodes)  BY DEF IsList
  <2> QED  BY <2>1, AtOnce
<1>2. /\ h \in Heaps
      /\ \A i \in 1 .. len : /\ h[c[i]].next = At(c, i + 1)
                             /\ h[c[i]].prev = At(c, i - 1)
                             /\ h[c[i]].data \in Elems
      /\ s.head = At(c, 1) /\ s.tail = At(c, len) /\ s.count = len
  BY DEF IsList
<1>a. n \notin ToSet(c) /\ \A j \in 1 .. len : c[j] # n
  <2>1. \A m \in ToSet(c) : s.node[m] # Free  BY ChainInUse
  <2> QED  BY <1>1, <2>1
<1>b. /\ p \in Int /\ p - 1 \in Int /\ p + 1 \in Int
      /\ At(c, p - 1) # n /\ At(c, p) # n
  <2>1. n # NULL  BY NoNode
  <2>2. \A k \in Int : At(c, k) # n
    <3> SUFFICES ASSUME NEW k \in Int  PROVE At(c, k) # n  OBVIOUS
    <3>1. CASE k \in 1 .. len  BY <1>a, <3>1 DEF At
    <3>2. CASE k \notin 1 .. len  BY <2>1, <3>2 DEF At
    <3> QED  BY <3>1, <3>2
  <2> QED  BY <1>1, <2>2
<1>3. /\ g \in Heaps /\ g[n] = [next |-> At(c, p), prev |-> At(c, p - 1), data |-> e]
      /\ \A m \in Nodes \ {n} :
            /\ g[m].next = IF m = At(c, p - 1) THEN n ELSE h[m].next
            /\ g[m].prev = IF m = At(c, p) THEN n ELSE h[m].prev
            /\ g[m].data = h[m].data
            /\ m # At(c, p - 1) /\ m # At(c, p) => g[m] = h[m]
  <2>1. At(c, p - 1) \in Links /\ At(c, p) \in Links  BY <1>1, <1>b
  <2> HIDE DEF h
  <2> QED  BY <1>2, <2>1, WithIs
<1>4. t.node = g /\ t.count = len + 1
      /\ t.head = (IF p = 1 THEN n ELSE s.head)
      /\ t.tail = (IF p = len + 1 THEN n ELSE s.tail)
  BY <1>2 DEF Put
<1> HIDE DEF g, h
<1>5. /\ f \in Seq(Nodes) /\ Len(f) = len + 1
      /\ \A i \in 1 .. len + 1 : f[i] = IF i < p THEN c[i] ELSE IF i = p THEN n ELSE c[i - 1]
  <2>1. \A i \in 1 .. len + 1 : (IF i < p THEN c[i] ELSE IF i = p THEN n ELSE c[i - 1]) \in Nodes
    <3> SUFFICES ASSUME NEW i \in 1 .. len + 1
                 PROVE  (IF i < p THEN c[i] ELSE IF i = p THEN n ELSE c[i - 1]) \in Nodes
      OBVIOUS
    <3>1. CASE i < p
      <4>1. i \in 1 .. len  BY <1>1, <3>1
      <4> QED  BY <1>1, <3>1, <4>1
    <3>2. CASE i = p  BY <3>2
    <3>3. CASE i > p
      <4>1. i - 1 \in 1 .. len /\ ~(i < p) /\ i # p  BY <1>1, <3>3
      <4> QED  BY <1>1, <4>1
    <3> QED  BY <1>1, <3>1, <3>2, <3>3
  <2>2. f \in [1 .. len + 1 -> Nodes]  BY <2>1
  <2>3. len + 1 \in Nat  BY <1>1
  <2>4. f \in Seq(Nodes)  BY <2>2, <2>3
  <2> QED  BY <2>3, <2>4, LenProperties
<1> HIDE DEF f
<1>c. Longer(c, p, n, f)  BY <1>1, <1>5 DEF Longer
<1>6. f = d  BY <1>c, AtWith
<1>7. \A i \in Int : At(f, i) = IF i < p THEN At(c, i) ELSE IF i = p THEN n ELSE At(c, i - 1)
  BY <1>c, AtWith
<1>8. ToSet(f) = {f[i] : i \in 1 .. len + 1}
  <2>1. f \in Seq(Nodes) /\ Len(f) = len + 1  BY <1>5
  <2> QED  BY <2>1 DEF ToSet
<1> DEFINE To(j) == IF j < p THEN j ELSE j + 1
<1>9. /\ \A j \in 1 .. len : To(j) \in 1 .. len + 1 /\ f[To(j)] = c[j] /\ To(j) # p
      /\ p \in 1 .. len + 1 /\ f[p] = n
      /\ \A i \in 1 .. len + 1 : i # p => \E j \in 1 .. len : i = To(j)
      /\ \A i, j \in 1 .. len : i < j => To(i) < To(j)
  <2>1. ASSUME NEW j \in 1 .. len
        PROVE  To(j) \in 1 .. len + 1 /\ f[To(j)] = c[j] /\ To(j) # p
    <3>1. CASE j < p
      <4>1. j \in 1 .. len + 1 /\ To(j) = j  BY <1>1, <3>1
      <4> QED  BY <1>1, <1>5, <3>1, <4>1
    <3>2. CASE ~(j < p)
      <4> DEFINE i == j + 1
      <4>1. i \in 1 .. len + 1 /\ To(j) = i /\ ~(i < p) /\ i # p /\ i - 1 = j  BY <1>1, <3>2
      <4> HIDE DEF i, To
      <4> QED  BY <1>5, <4>1
    <3> QED  BY <3>1, <3>2
  <2>2. p \in 1 .. len + 1 /\ f[p] = n
    <3>1. p \in 1 .. len + 1 /\ ~(p < p)  BY <1>1
    <3> QED  BY <1>5, <3>1
  <2>3. ASSUME NEW i \in 1 .. len + 1, i # p  PROVE \E j \in 1 .. len : i = To(j)
    <3>1. CASE i < p
      <4>1. i \in 1 .. len /\ To(i) = i  BY <1>1, <3>1
      <4> QED  BY <4>1
    <3>2. CASE ~(i < p)
      <4>1. i - 1 \in 1 .. len /\ ~(i - 1 < p) /\ i = i - 1 + 1  BY <1>1, <2>3, <3>2
      <4>2. To(i - 1) = i  BY <4>1
      <4> QED  BY <4>1, <4>2
    <3> QED  BY <3>1, <3>2
  <2>4. \A i, j \in 1 .. len : i < j => To(i) < To(j)  BY <1>1
  <2> QED  BY <2>1, <2>2, <2>3, <2>4
<1>10. ToSet(f) = ToSet(c) \cup {n}
  <2>1. \A j \in 1 .. len : c[j] \in ToSet(f)  BY <1>8, <1>9
  <2>2. n \in ToSet(f)  BY <1>8, <1>9
  <2>3. \A i \in 1 .. len + 1 : f[i] \in ToSet(c) \cup {n}
    <3> SUFFICES ASSUME NEW i \in 1 .. len + 1, i # p  PROVE f[i] \in ToSet(c)  BY <1>9
    <3>1. PICK j \in 1 .. len : i = To(j)  BY <1>9
    <3> HIDE DEF To
    <3> QED  BY <1>1, <1>9, <3>1
  <2>4. \A m \in ToSet(c) \cup {n} : m \in ToSet(f)  BY <1>1, <2>1, <2>2
  <2>5. \A m \in ToSet(f) : m \in ToSet(c) \cup {n}  BY <1>8, <2>3
  <2> QED  BY <2>4, <2>5
<1>11. IsList(t, f)
  <2>1. \A i, j \in 1 .. len + 1 : f[i] = f[j] => i = j
    <3> SUFFICES ASSUME NEW i \in 1 .. len + 1, NEW j \in 1 .. len + 1, f[i] = f[j]
                 PROVE  i = j
      OBVIOUS
    <3>1. CASE i = p
      <4>1. f[j] = n  BY <1>9, <3>1
      <4> SUFFICES ASSUME j # p  PROVE FALSE  BY <3>1
      <4>2. PICK y \in 1 .. len : j = To(y)  BY <1>9
      <4> HIDE DEF To
      <4>3. f[j] = c[y]  BY <1>9, <4>2
      <4> QED  BY <1>a, <4>1, <4>3
    <3>2. CASE j = p
      <4>1. f[i] = n  BY <1>9, <3>2
      <4> SUFFICES ASSUME i # p  PROVE FALSE  BY <3>2
      <4>2. PICK x \in 1 .. len : i = To(x)  BY <1>9
      <4> HIDE DEF To
      <4>3. f[i] = c[x]  BY <1>9, <4>2
      <4> QED  BY <1>a, <4>1, <4>3
    <3>3. CASE i # p /\ j # p
      <4>1. PICK x \in 1 .. len : i = To(x)  BY <1>9, <3>3
      <4>2. PICK y \in 1 .. len : j = To(y)  BY <1>9, <3>3
      <4> HIDE DEF To
      <4>3. c[x] = c[y]  BY <1>9, <4>1, <4>2
      <4>4. x = y  BY <4>3 DEF IsList
      <4> QED  BY <4>1, <4>2, <4>4
    <3> QED  BY <3>1, <3>2, <3>3
  <2>2. t.head = At(f, 1) /\ t.tail = At(f, len + 1)
    <3>1. At(f, 1) = IF 1 < p THEN At(c, 1) ELSE IF 1 = p THEN n ELSE At(c, 1 - 1)  BY <1>7
    <3>2. At(f, len + 1) = IF len + 1 < p THEN At(c, len + 1) ELSE IF len + 1 = p THEN n
                           ELSE At(c, len)
      <4>1. len + 1 \in Int /\ len + 1 - 1 = len  BY <1>1
      <4> QED  BY <1>7, <4>1
    <3>3. (1 < p <=> p # 1) /\ ~(len + 1 < p)  BY <1>1
    <3> QED  BY <1>2, <1>4, <3>1, <3>2, <3>3
  <2>3. ASSUME NEW i \in 1 .. len + 1
        PROVE  /\ g[f[i]].next = At(f, i + 1)
               /\ g[f[i]].prev = At(f, i - 1)
               /\ g[f[i]].data \in Elems
    <3>1. /\ At(f, i + 1) = IF i + 1 < p THEN At(c, i + 1) ELSE IF i + 1 = p THEN n ELSE At(c, i)
          /\ At(f, i - 1) = IF i - 1 < p THEN At(c, i - 1) ELSE IF i - 1 = p THEN n
                            ELSE At(c, i - 2)
      <4>1. i + 1 \in Int /\ i - 1 \in Int /\ i + 1 - 1 = i /\ i - 1 - 1 = i - 2  BY <1>1
      <4> QED  BY <1>7, <4>1
    <3>2. CASE i = p
      <4>1. f[i] = n  BY <1>9, <3>2
      <4>2. ~(i + 1 < p) /\ i + 1 # p /\ i - 1 < p  BY <1>1, <3>2
      <4> QED  BY <1>3, <3>1, <3>2, <4>1, <4>2
    <3>3. CASE i # p
      <4>1. PICK j \in 1 .. len : i = To(j)  BY <1>9, <3>3
      <4>2. i = (IF j < p THEN j ELSE j + 1) /\ j \in Int /\ j + 1 \in Int /\ j - 1 \in Int
            /\ i \in Int /\ p \in Int
        BY <1>1, <4>1
      <4>3. f[i] = c[j]
        <5> HIDE DEF To
        <5> QED  BY <1>9, <4>1
      <4>4. c[j] \in Nodes \ {n}  BY <1>1, <1>a
      <4>5. (c[j] = At(c, p - 1) <=> j = p - 1) /\ (c[j] = At(c, p) <=> j = p)
        BY <1>1, <1>b
      <4>6. /\ g[c[j]].next = IF j = p - 1 THEN n ELSE At(c, j + 1)
            /\ g[c[j]].prev = IF j = p THEN n ELSE At(c, j - 1)
            /\ g[c[j]].data \in Elems
        BY <1>2, <1>3, <4>4, <4>5
      <4>7. CASE j < p
        <5>1. i = j /\ (i + 1 = p <=> j = p - 1) /\ i - 1 < p /\ j # p
              /\ (i + 1 < p \/ i + 1 = p)
          BY <4>2, <4>7
        <5> QED  BY <3>1, <4>3, <4>6, <5>1
      <4>8. CASE ~(j < p)
        <5>1. i = j + 1 /\ ~(i + 1 < p) /\ i + 1 # p /\ j # p - 1 /\ ~(i - 1 < p)
              /\ (i - 1 = p <=> j = p) /\ i - 2 = j - 1
          BY <4>2, <4>8
        <5> QED  BY <3>1, <4>3, <4>6, <5>1
      <4> QED  BY <4>7, <4>8
    <3> QED  BY <3>2, <3>3
  <2> QED  BY <1>3, <1>4, <1>5, <2>1, <2>2, <2>3 DEF IsList
<1>12. \A m \in Nodes : m \notin ToSet(c) /\ m # n => g[m] = h[m]
  <2> SUFFICES ASSUME NEW m \in Nodes, m \notin ToSet(c), m # n  PROVE g[m] = h[m]  OBVIOUS
  <2>1. m # NULL  BY NoNode
  <2>2. \A k \in Int : m # At(c, k)
    <3> SUFFICES ASSUME NEW k \in Int  PROVE m # At(c, k)  OBVIOUS
    <3>1. CASE k \in 1 .. len  BY <1>1, <3>1
    <3>2. CASE k \notin 1 .. len  BY <2>1, <3>2 DEF At
    <3> QED  BY <3>1, <3>2
  <2> QED  BY <1>3, <1>b, <2>2
<1>13. Changes(s, c, t, f)
  <2>1. \A m \in Nodes : m \notin ToSet(c) /\ m \notin ToSet(f) => g[m] = h[m]
    BY <1>10, <1>12
  <2>2. \A m \in ToSet(f) : m \notin ToSet(c) => h[m] = Free  BY <1>10 DEF h
  <2>3. \A m \in ToSet(c) : m \in ToSet(f)  BY <1>10
  <2> QED  BY <1>4, <1>11, <2>1, <2>2, <2>3 DEF Changes, h
<1>14. OrderKept(c, f)
  <2> SUFFICES ASSUME NEW x \in ToSet(f), NEW y \in ToSet(f), Before(c, x, y)
               PROVE  Before(f, x, y)
    BY DEF OrderKept
  <2>1. PICK i \in 1 .. len, j \in 1 .. len : i < j /\ c[i] = x /\ c[j] = y  BY DEF Before
  <2> HIDE DEF To
  <2>2. Len(f) = len + 1  BY <1>5
  <2> QED  BY <1>9, <2>1, <2>2 DEF Before
<1>15. Data(g, f) = InsertAt(Data(h, c), p, e)
  <2> DEFINE old == Data(h, c)
             new == Data(g, f)
  <2>1. old \in Seq(Elems) /\ Len(old) = len /\ \A i \in 1 .. len : old[i] = h[c[i]].data
    BY DataIs DEF h
  <2>2. new \in Seq(Elems) /\ Len(new) = len + 1
        /\ \A i \in 1 .. len + 1 : new[i] = g[f[i]].data
    BY <1>4, <1>5, <1>11, DataIs
  <2> HIDE DEF old, new
  <2>3. \A i \in 1 .. len + 1 : new[i] = IF i < p THEN old[i] ELSE IF i = p THEN e ELSE old[i - 1]
    <3> SUFFICES ASSUME NEW i \in 1 .. len + 1
                 PROVE  new[i] = IF i < p THEN old[i] ELSE IF i = p THEN e ELSE old[i - 1]
      OBVIOUS
    <3>1. CASE i = p
      <4>1. g[f[i]].data = e  BY <1>3, <1>9, <3>1
      <4>2. ~(i < p)  BY <1>1, <3>1
      <4> QED  BY <2>2, <3>1, <4>1, <4>2
    <3>2. CASE i # p
      <4>1. PICK j \in 1 .. len : i = To(j)  BY <1>9, <3>2
      <4>2. f[i] = c[j]
        <5> HIDE DEF To
        <5> QED  BY <1>9, <4>1
      <4>3. g[c[j]].data = h[c[j]].data  BY <1>1, <1>3, <1>a
      <4>4. new[i] = old[j]  BY <2>1, <2>2, <4>2, <4>3
      <4>5. (i < p => j = i) /\ (~(i < p) => j = i - 1)  BY <1>1, <3>2, <4>1
      <4> QED  BY <3>2, <4>4, <4>5
    <3> QED  BY <3>1, <3>2
  <2>4. new = InsertAt(old, p, e)  BY <1>1, <2>1, <2>2, <2>3, InsertedIs
  <2> QED  BY <2>4 DEF old, new
<1> QED  BY <1>4, <1>6, <1>10, <1>13, <1>14, <1>15 DEF h

\* A free node linked in between two others gives the heap with it.
LEMMA LinkedIn ==
    ASSUME NEW h \in Heaps, NEW n \in Nodes, NEW e \in Elems,
           NEW b \in Links, NEW a \in Links, b # n, a # n
    PROVE  SetPrev(SetNext([h EXCEPT ![n] = [next |-> a, prev |-> b, data |-> e]], b, n), a, n)
           = With(h, n, e, b, a)
<1> DEFINE new == [next |-> a, prev |-> b, data |-> e]
           f == [h EXCEPT ![n] = new]
           g == SetNext(f, b, n)
           k == SetPrev(g, a, n)
           w == With(h, n, e, b, a)
<1>1. new \in [next : Links, prev : Links, data : Elems \cup {NULL}]
      /\ new.next = a /\ new.prev = b /\ new.data = e
  OBVIOUS
<1>2. w \in Heaps /\ w[n] = new
      /\ \A m \in Nodes \ {n} : /\ w[m].next = IF m = b THEN n ELSE h[m].next
                                /\ w[m].prev = IF m = a THEN n ELSE h[m].prev
                                /\ w[m].data = h[m].data
  BY WithIs
<1> HIDE DEF new, w
<1>3. f \in Heaps /\ \A m \in Nodes : f[m] = IF m = n THEN new ELSE h[m]
  BY <1>1 DEF Heaps
<1>4. n \in Links  BY NoNode
<1> HIDE DEF f
<1>5. g \in Heaps /\ \A m \in Nodes : /\ g[m].next = IF m = b THEN n ELSE f[m].next
                                      /\ g[m].prev = f[m].prev /\ g[m].data = f[m].data
  BY <1>3, <1>4, SetIs
<1> HIDE DEF g
<1>6. k \in Heaps /\ \A m \in Nodes : /\ k[m].next = g[m].next
                                      /\ k[m].prev = IF m = a THEN n ELSE g[m].prev
                                      /\ k[m].data = g[m].data
  BY <1>4, <1>5, SetIs
<1> HIDE DEF k
<1>7. ASSUME NEW m \in Nodes
      PROVE  k[m].next = w[m].next /\ k[m].prev = w[m].prev /\ k[m].data = w[m].data
  <2>1. CASE m = n
    <3>1. f[m] = new /\ w[m] = new /\ m # b /\ m # a  BY <1>2, <1>3, <2>1
    <3> QED  BY <1>5, <1>6, <3>1
  <2>2. CASE m # n
    <3>1. f[m] = h[m]  BY <1>3, <2>2
    <3> QED  BY <1>2, <1>5, <1>6, <2>2, <3>1
  <2> QED  BY <2>1, <2>2
<1>8. k = w  BY <1>2, <1>6, <1>7, SameHeap
<1> QED  BY <1>8 DEF k, w, g, f, new

\* Both walks lead list_find_node to the node at the index.
LEMMA FindIs ==
    ASSUME NEW l, NEW c, IsList(Of(l), c), NEW index \in Nat, index < count[l]
    PROVE  index + 1 \in 1 .. Len(c) /\ list_find_node(l, index) = c[index + 1]
<1> DEFINE n == Len(c)
<1>1. /\ Of(l).node = node /\ Of(l).head = head[l] /\ Of(l).tail = tail[l]
      /\ Of(l).count = count[l]
  BY DEF Of
<1>2. count[l] = n /\ c \in Seq(Nodes) /\ n \in Nat  BY <1>1, AtOnce DEF IsList
<1>3. index + 1 \in 1 .. n /\ n - index \in 1 .. n /\ n - (n - index) + 1 = index + 1  BY <1>2
<1>4. Forward(l) = c /\ Backward(l) = Reverse(c)  BY <1>1, WalksAre DEF Forward, Backward
<1>5. Reverse(c)[n - index] = c[index + 1]
  <2>1. Reverse(c) = [i \in 1 .. n |-> c[(n - i) + 1]]  BY DEF Reverse
  <2> DEFINE j == n - index
  <2>2. j \in 1 .. n /\ (n - j) + 1 = index + 1  BY <1>3
  <2> HIDE DEF j
  <2>3. Reverse(c)[j] = c[index + 1]
    <3>1. Reverse(c)[j] = c[(n - j) + 1]  BY <2>1, <2>2
    <3> QED  BY <2>2, <3>1
  <2> QED  BY <2>3 DEF j
<1> QED  BY <1>2, <1>3, <1>4, <1>5 DEF list_find_node

\* The three ways to insert put the node where the index says.
LEMMA InsertsPut ==
    ASSUME NEW l, NEW c, IsList(Of(l), c), NEW n \in Nodes, node[n] = Free, NEW e \in Elems
    PROVE  /\ Put(Of(l), c, 1, n, e, PushFront(l, n, e))
           /\ Put(Of(l), c, Len(c) + 1, n, e, PushBack(l, n, e))
           /\ \A p \in 2 .. Len(c) : Put(Of(l), c, p, n, e, InsertBetween(l, n, e, c[p]))
<1> DEFINE len == Len(c)
           New(b, a) == [next |-> a, prev |-> b, data |-> e]
<1>1. /\ Of(l).node = node /\ Of(l).head = head[l] /\ Of(l).tail = tail[l]
      /\ Of(l).count = count[l]
  BY DEF Of
<1>2. /\ node \in Heaps /\ head[l] = At(c, 1) /\ tail[l] = At(c, len)
      /\ count[l] = len /\ len \in Nat
  BY <1>1, AtOnce DEF IsList
<1>3. At(c, 0) = NULL /\ At(c, len + 1) = NULL  BY <1>2 DEF At
<1>4. n # NULL /\ NULL \in Links  BY NoNode
<1>5. \A k \in Int : At(c, k) \in Links /\ At(c, k) # n
  <2> SUFFICES ASSUME NEW k \in Int  PROVE At(c, k) # n  BY AtOnce
  <2>1. n \notin ToSet(c) /\ \A j \in 1 .. len : c[j] \in ToSet(c)
    BY <1>1, ChainInUse, AtOnce
  <2> QED  BY <1>4, <2>1 DEF At
<1>6. \A k \in 1 .. len : At(c, k) # NULL /\ At(c, k) = c[k]  BY AtOnce
<1>7. Put(Of(l), c, 1, n, e, PushFront(l, n, e))
  <2> DEFINE t == PushFront(l, n, e)
             a == At(c, 1)
             f == [node EXCEPT ![n] = New(NULL, a)]
  <2>1. /\ t.node = SetPrev(f, a, n)
        /\ t.head = n
        /\ t.tail = IF a = NULL THEN n ELSE tail[l]
        /\ t.count = count[l] + 1
    <3>1. [list_node_new(e) EXCEPT !.next = head[l]] = New(NULL, head[l])
      BY DEF list_node_new
    <3>2. /\ t.node = SetPrev([node EXCEPT ![n] = New(NULL, head[l])], head[l], n)
          /\ t.head = n
          /\ t.tail = IF head[l] = NULL THEN n ELSE tail[l]
          /\ t.count = count[l] + 1
      <4> HIDE DEF New
      <4> QED  BY <3>1 DEF PushFront
    <3> HIDE DEF t, New
    <3> QED  BY <1>2, <3>2
  <2>2. f = SetNext(f, NULL, n)  BY DEF SetNext
  <2>3. a \in Links /\ a # n  BY <1>5
  <2>4. SetPrev(SetNext(f, NULL, n), a, n) = With(node, n, e, NULL, a)
    <3> HIDE DEF a
    <3> QED  BY <1>2, <1>4, <2>3, LinkedIn
  <2>5. t.node = With(node, n, e, NULL, a)
    <3> HIDE DEF f, t, a
    <3> QED  BY <2>1, <2>2, <2>4
  <2>6. a = NULL <=> len = 0
    <3>1. len # 0 => 1 \in 1 .. len  BY <1>2
    <3> QED  BY <1>3, <1>6, <3>1 DEF At
  <2> HIDE DEF t, f
  <2>7. 1 - 1 = 0 /\ (1 = len + 1 <=> len = 0)  BY <1>2
  <2>8. t.tail = IF 1 = len + 1 THEN n ELSE tail[l]  BY <2>1, <2>6, <2>7
  <2>9. t.node = With(node, n, e, At(c, 1 - 1), At(c, 1))  BY <1>3, <2>5, <2>7
  <2>10. t.head = IF 1 = 1 THEN n ELSE head[l]
    BY <2>1
  <2>11. t.tail = IF 1 = Len(c) + 1 THEN n ELSE tail[l]
    BY <2>1, <2>8
  <2>12. Put(Of(l), c, 1, n, e, t)
    BY <1>1, <2>1, <2>9, <2>10, <2>11, Zenon DEF Put
  <2> QED  BY <2>12 DEF t
<1>8. Put(Of(l), c, len + 1, n, e, PushBack(l, n, e))
  <2> DEFINE t == PushBack(l, n, e)
             b == At(c, len)
             f == [node EXCEPT ![n] = New(b, NULL)]
             g == SetNext(f, b, n)
  <2>1. /\ t.node = g
        /\ t.tail = n
        /\ t.head = IF b = NULL THEN n ELSE head[l]
        /\ t.count = count[l] + 1
    <3>1. [list_node_new(e) EXCEPT !.prev = tail[l]] = New(tail[l], NULL)
      BY DEF list_node_new
    <3>2. /\ t.node = SetNext([node EXCEPT ![n] = New(tail[l], NULL)], tail[l], n)
          /\ t.tail = n
          /\ t.head = IF tail[l] = NULL THEN n ELSE head[l]
          /\ t.count = count[l] + 1
      <4> HIDE DEF New
      <4> QED  BY <3>1 DEF PushBack
    <3> HIDE DEF t, New
    <3> QED  BY <1>2, <3>2
  <2>2. g = SetPrev(g, NULL, n)  BY DEF SetPrev
  <2>3. b \in Links /\ b # n  BY <1>2, <1>5
  <2>4. SetPrev(SetNext(f, b, n), NULL, n) = With(node, n, e, b, NULL)
    <3> HIDE DEF b
    <3> QED  BY <1>2, <1>4, <2>3, LinkedIn
  <2>5. t.node = With(node, n, e, b, NULL)
    <3> HIDE DEF f, t, b
    <3> QED  BY <2>1, <2>2, <2>4
  <2>6. b = NULL <=> len = 0
    <3>1. len # 0 => len \in 1 .. len  BY <1>2
    <3> QED  BY <1>3, <1>6, <3>1 DEF At
  <2> HIDE DEF t, f, g
  <2>7. len + 1 - 1 = len /\ (len + 1 = 1 <=> len = 0)  BY <1>2
  <2>8. t.head = IF len + 1 = 1 THEN n ELSE head[l]  BY <2>1, <2>6, <2>7
  <2>9. t.node = With(node, n, e, At(c, len + 1 - 1), At(c, len + 1))  BY <1>3, <2>5, <2>7
  <2>10. t.head = IF len + 1 = 1 THEN n ELSE head[l]
    BY <2>1, <2>8
  <2>11. t.tail = IF len + 1 = Len(c) + 1 THEN n ELSE tail[l]
    BY <2>1
  <2> DEFINE p == len + 1
  <2>12. /\ t.node = With(Of(l).node, n, e, At(c, p - 1), At(c, p))
         /\ t.count = Of(l).count + 1
         /\ t.head = IF p = 1 THEN n ELSE Of(l).head
         /\ t.tail = IF p = Len(c) + 1 THEN n ELSE Of(l).tail
    <3>1. t.node = With(Of(l).node, n, e, At(c, p - 1), At(c, p))
          /\ t.count = Of(l).count + 1
      BY <1>1, <2>1, <2>9
    <3> HIDE DEF t
    <3> QED  BY <1>1, <2>10, <2>11, <3>1
  <2> HIDE DEF p, b
  <2>13. Put(Of(l), c, p, n, e, t)
    BY <2>12 DEF Put
  <2> QED  BY <2>13 DEF t, p
<1>9. ASSUME NEW p \in 2 .. len
      PROVE  Put(Of(l), c, p, n, e, InsertBetween(l, n, e, c[p]))
  <2> DEFINE t == InsertBetween(l, n, e, c[p])
             a == c[p]
             b == At(c, p - 1)
             f == [node EXCEPT ![n] = New(b, a)]
  <2>1. p \in 1 .. len /\ p # 1 /\ p # len + 1 /\ p - 1 \in Int /\ p \in Int  BY <1>2
  <2>2. a = At(c, p) /\ a \in Nodes /\ node[a].prev = b
    BY <1>1, <1>6, <2>1, Neighbours
  <2>3. a \in Links /\ a # n /\ b \in Links /\ b # n
    <3> HIDE DEF a
    <3> QED  BY <1>5, <2>1, <2>2
  <2>4. a # NULL /\ b # NULL
    <3>1. p - 1 \in 1 .. len  BY <1>2
    <3>2. b = c[p - 1] /\ c[p - 1] \in Nodes
      <4>1. \A i \in 1 .. len : c[i] \in Nodes  BY AtOnce
      <4> QED  BY <3>1, <4>1 DEF At
    <3> HIDE DEF a, b
    <3> QED  BY <2>2, <3>2, NoNode
  <2>5. /\ t.node = SetPrev(SetNext(f, b, n), a, n)
        /\ t.head = head[l] /\ t.tail = tail[l] /\ t.count = count[l] + 1
    <3> HIDE DEF a, b
    <3> QED  BY <2>2, <2>4 DEF InsertBetween, Of, a
  <2>6. SetPrev(SetNext(f, b, n), a, n) = With(node, n, e, b, a)
    <3> HIDE DEF a, b
    <3> QED  BY <1>2, <2>3, LinkedIn
  <2>7. t.node = With(node, n, e, b, a)
    <3> HIDE DEF f, t, a, b
    <3> QED  BY <2>5, <2>6
  <2> HIDE DEF t, f
  <2>8. t.node = With(node, n, e, At(c, p - 1), At(c, p))  BY <2>2, <2>7
  <2> HIDE DEF a, b
  <2>10. t.head = IF p = 1 THEN n ELSE head[l]
    BY <2>1, <2>5
  <2>11. t.tail = IF p = Len(c) + 1 THEN n ELSE tail[l]
    BY <2>1, <2>5
  <2>12. Put(Of(l), c, p, n, e, t)
    BY <1>1, <2>1, <2>5, <2>8, <2>10, <2>11, Zenon DEF Put
  <2> QED  BY <2>12 DEF t
<1> QED  BY <1>7, <1>8, <1>9

-----------------------------------------------------------------------------
(* Lists that keep their nodes, and lists that lose all of them. *)

\* A list where one element is replaced.
LEMMA SetIn ==
    ASSUME NEW s, NEW c, IsList(s, c), NEW p \in 1 .. Len(c), NEW e \in Elems, NEW t,
           t.node = SetData(s.node, c[p], e),
           t.head = s.head, t.tail = s.tail, t.count = s.count
    PROVE  /\ Changes(s, c, t, c)
           /\ Data(t.node, c) = ReplaceAt(Data(s.node, c), p, e)
<1> DEFINE len == Len(c)
           x == c[p]
           h == s.node
           g == t.node
<1>1. /\ len \in Nat /\ h \in Heaps /\ x \in Nodes /\ c \in Seq(Nodes)
      /\ \A i \in 1 .. len : c[i] \in Nodes /\ (c[i] = x <=> i = p)
      /\ \A i, j \in 1 .. len : c[i] = c[j] => i = j
      /\ ToSet(c) = {c[j] : j \in 1 .. len}
  <2>1. /\ len \in Nat /\ h \in Heaps /\ c \in Seq(Nodes)
        /\ \A i, j \in 1 .. len : c[i] = c[j] => i = j
        /\ \A i \in 1 .. len : c[i] \in Nodes
        /\ ToSet(c) = {c[j] : j \in 1 .. len}
    <3>1. h \in Heaps /\ c \in Seq(Nodes) /\ \A i, j \in 1 .. len : c[i] = c[j] => i = j
      BY DEF IsList
    <3>2. len \in Nat /\ \A i \in 1 .. len : c[i] \in Nodes  BY AtOnce
    <3>3. ToSet(c) = {c[j] : j \in 1 .. len}  BY AtOnce
    <3> QED  BY <3>1, <3>2, <3>3
  <2> QED  BY <2>1
<1>2. /\ s.head = At(c, 1) /\ s.tail = At(c, len) /\ s.count = len
      /\ \A i \in 1 .. len : /\ h[c[i]].next = At(c, i + 1)
                             /\ h[c[i]].prev = At(c, i - 1)
                             /\ h[c[i]].data \in Elems
  BY DEF IsList
<1>3. g = SetData(h, x, e)  OBVIOUS
<1> HIDE DEF g, h, x
<1>4. g \in Heaps
      /\ \A m \in Nodes : /\ g[m].next = h[m].next /\ g[m].prev = h[m].prev
                          /\ g[m].data = IF m = x THEN e ELSE h[m].data
                          /\ m # x => g[m] = h[m]
  BY <1>1, <1>3 DEF Heaps, SetData
<1>5. IsList(t, c)
  <2>1. \A i \in 1 .. len : /\ g[c[i]].next = At(c, i + 1)
                            /\ g[c[i]].prev = At(c, i - 1)
                            /\ g[c[i]].data \in Elems
    BY <1>1, <1>2, <1>4, ZenonT(60)
  <2> QED  BY <1>1, <1>2, <1>4, <2>1 DEF IsList, g
<1>6. Changes(s, c, t, c)
  <2>1. x \in ToSet(c)  BY <1>1 DEF x
  <2> QED  BY <1>4, <1>5, <2>1 DEF Changes, g, h
<1>7. Data(g, c) = ReplaceAt(Data(h, c), p, e)
  <2> DEFINE a == Data(h, c)
             b == [a EXCEPT ![p] = e]
  <2>1. a = [i \in 1 .. len |-> h[c[i]].data]  BY DEF Data
  <2>2. Data(g, c) = [i \in 1 .. len |-> g[c[i]].data]  BY DEF Data
  <2>3. ReplaceAt(a, p, e) = b  BY DEF ReplaceAt
  <2> HIDE DEF a
  <2>4. b = [i \in 1 .. len |-> IF i = p THEN e ELSE h[c[i]].data]  BY <2>1
  <2>5. \A i \in 1 .. len : g[c[i]].data = IF i = p THEN e ELSE h[c[i]].data
    BY <1>1, <1>4
  <2> HIDE DEF b
  <2> QED  BY <2>2, <2>3, <2>4, <2>5 DEF a
<1> QED  BY <1>6, <1>7 DEF g, h

\* A list whose nodes are all freed.
LEMMA EmptiedIs ==
    ASSUME NEW s, NEW c, IsList(s, c), NEW mine, mine = ToSet(c), NEW t,
           t = Emptied([n \in Nodes |-> IF n \in mine THEN Free ELSE s.node[n]])
    PROVE  Loses(s, c, t, <<>>)
<1> DEFINE g == [n \in Nodes |-> IF n \in mine THEN Free ELSE s.node[n]]
<1>1. t.node = g /\ t.head = NULL /\ t.tail = NULL /\ t.count = 0  BY DEF Emptied
<1>2. Free \in [next : Links, prev : Links, data : Elems \cup {NULL}]  BY NoNode DEF Free
<1>3. g \in Heaps  BY <1>2 DEF IsList, Heaps
<1>4. IsList(t, <<>>)  BY <1>1, <1>3 DEF IsList, At
<1>5. ToSet(<<>>) = {}  BY DEF ToSet
<1>6. ToSet(c) \subseteq Nodes  BY ChainInUse
<1> QED  BY <1>1, <1>4, <1>5, <1>6 DEF Loses, Changes, OrderKept

\* A list whose nodes have their two links exchanged, read from its tail.
LEMMA Turned ==
    ASSUME NEW s, NEW c, IsList(s, c), NEW t, NEW mine, mine = ToSet(c),
           t.node = Flipped(s.node, mine),
           t.head = s.tail, t.tail = s.head, t.count = s.count
    PROVE  /\ Changes(s, c, t, Reverse(c))
           /\ ToSet(Reverse(c)) = ToSet(c)
           /\ Data(t.node, Reverse(c)) = Reverse(Data(s.node, c))
<1> DEFINE len == Len(c)
           d == Reverse(c)
           h == s.node
           g == t.node
           Swap(n) == [h[n] EXCEPT !.next = h[n].prev, !.prev = h[n].next]
<1>1. /\ len \in Nat /\ h \in Heaps /\ c \in Seq(Nodes)
      /\ \A i \in 1 .. len : c[i] \in Nodes
      /\ \A i, j \in 1 .. len : c[i] = c[j] => i = j
      /\ ToSet(c) = {c[j] : j \in 1 .. len}
  <2>1. h \in Heaps /\ c \in Seq(Nodes) /\ \A i, j \in 1 .. len : c[i] = c[j] => i = j
    BY DEF IsList
  <2>2. len \in Nat /\ \A i \in 1 .. len : c[i] \in Nodes  BY AtOnce
  <2>3. ToSet(c) = {c[j] : j \in 1 .. len}  BY AtOnce
  <2> QED  BY <2>1, <2>2, <2>3
<1>2. /\ s.head = At(c, 1) /\ s.tail = At(c, len) /\ s.count = len
      /\ \A i \in 1 .. len : /\ h[c[i]].next = At(c, i + 1)
                             /\ h[c[i]].prev = At(c, i - 1)
                             /\ h[c[i]].data \in Elems
  BY DEF IsList
<1>a. d = [i \in 1 .. len |-> c[(len - i) + 1]]  BY DEF Reverse
<1> HIDE DEF len
<1>3. d \in Seq(Nodes) /\ Len(d) = len /\ \A i \in 1 .. len : d[i] = c[len - i + 1]
  <2>1. \A i \in 1 .. len : (len - i) + 1 \in 1 .. len /\ len - i + 1 = (len - i) + 1  BY <1>1
  <2> HIDE DEF d
  <2> QED  BY <1>1, <1>a, <2>1
<1>4. g = [n \in Nodes |-> IF n \in mine THEN Swap(n) ELSE h[n]]  BY DEF Flipped
<1>5. \A n \in Nodes : /\ Swap(n) \in [next : Links, prev : Links, data : Elems \cup {NULL}]
                       /\ Swap(n).next = h[n].prev /\ Swap(n).prev = h[n].next
                       /\ Swap(n).data = h[n].data
  <2> SUFFICES ASSUME NEW n \in Nodes
               PROVE  /\ Swap(n) \in [next : Links, prev : Links, data : Elems \cup {NULL}]
                      /\ Swap(n).next = h[n].prev /\ Swap(n).prev = h[n].next
                      /\ Swap(n).data = h[n].data
    OBVIOUS
  <2>1. h[n] \in [next : Links, prev : Links, data : Elems \cup {NULL}]  BY <1>1 DEF Heaps
  <2> QED  BY <2>1
<1> HIDE DEF Swap, g, h
<1>6. g \in Heaps
      /\ \A n \in Nodes : IF n \in ToSet(c) THEN /\ g[n].next = h[n].prev
                                                 /\ g[n].prev = h[n].next
                                                 /\ g[n].data = h[n].data
                          ELSE g[n] = h[n]
  BY <1>1, <1>4, <1>5 DEF Heaps
<1>7. \A i \in Int : At(d, i) = At(c, len + 1 - i)
  <2> SUFFICES ASSUME NEW i \in Int  PROVE At(d, i) = At(c, len + 1 - i)  OBVIOUS
  <2> HIDE DEF d
  <2> DEFINE j == len + 1 - i
  <2>1. j = len - i + 1 /\ (i \in 1 .. len <=> j \in 1 .. len)  BY <1>1
  <2> HIDE DEF j
  <2>2. i \in 1 .. len => d[i] = c[j]  BY <1>3, <2>1
  <2>3. At(d, i) = At(c, j)
    <3>1. At(d, i) = IF i \in 1 .. len THEN d[i] ELSE NULL  BY <1>3 DEF At
    <3>2. At(c, j) = IF j \in 1 .. len THEN c[j] ELSE NULL  BY DEF At, len
    <3> QED  BY <2>1, <2>2, <3>1, <3>2
  <2> QED  BY <2>3 DEF j
<1> HIDE DEF d
<1>8. ToSet(d) = ToSet(c)
  <2>1. ToSet(d) = {d[i] : i \in 1 .. len}  BY <1>3 DEF ToSet
  <2>2. \A i \in 1 .. len : len - i + 1 \in 1 .. len /\ len - (len - i + 1) + 1 = i  BY <1>1
  <2>3. \A i \in 1 .. len : c[i] = d[len - i + 1]  BY <1>3, <2>2
  <2> QED  BY <1>1, <1>3, <2>1, <2>2, <2>3
<1>9. IsList(t, d)
  <2>1. ASSUME NEW i \in 1 .. len, NEW j \in 1 .. len, d[i] = d[j]  PROVE i = j
    <3>1. len - i + 1 \in 1 .. len /\ len - j + 1 \in 1 .. len  BY <1>1
    <3>2. len - i + 1 = len - j + 1  BY <1>1, <1>3, <2>1, <3>1
    <3> QED  BY <1>1, <3>2
  <2>2. t.head = At(d, 1) /\ t.tail = At(d, len)
    <3>1. len + 1 - 1 = len /\ len + 1 - len = 1 /\ 1 \in Int /\ len \in Int  BY <1>1
    <3> QED  BY <1>2, <1>7, <3>1
  <2>3. ASSUME NEW i \in 1 .. len
        PROVE  /\ g[d[i]].next = At(d, i + 1) /\ g[d[i]].prev = At(d, i - 1)
               /\ g[d[i]].data \in Elems
    <3> DEFINE j == len - i + 1
    <3>1. j \in 1 .. len /\ d[i] = c[j] /\ c[j] \in ToSet(c) /\ c[j] \in Nodes
      <4>1. j \in 1 .. len  BY <1>1
      <4> QED  BY <1>1, <1>3, <4>1
    <3>2. j - 1 = len + 1 - (i + 1) /\ j + 1 = len + 1 - (i - 1) /\ i + 1 \in Int /\ i - 1 \in Int
      BY <1>1
    <3> HIDE DEF j
    <3>3. At(d, i + 1) = At(c, j - 1) /\ At(d, i - 1) = At(c, j + 1)
      <4>1. At(d, i + 1) = At(c, len + 1 - (i + 1)) /\ At(d, i - 1) = At(c, len + 1 - (i - 1))
        BY <1>7, <3>2
      <4> QED  BY <3>2, <4>1
    <3> QED  BY <1>2, <1>6, <3>1, <3>3
  <2>4. t.count = len  BY <1>2
  <2> QED  BY <1>3, <1>6, <2>1, <2>2, <2>3, <2>4 DEF IsList, g
<1>10. Changes(s, c, t, d)
  BY <1>6, <1>8, <1>9 DEF Changes, g, h
<1>11. Data(g, d) = Reverse(Data(h, c))
  <2> DEFINE a == Data(h, c)
  <2>1. a = [i \in 1 .. len |-> h[c[i]].data]  BY DEF Data, len
  <2>2. Len(a) = len /\ \A i \in 1 .. len : a[i] = h[c[i]].data
    <3> HIDE DEF a
    <3> QED  BY <1>1, <2>1
  <2>3. Data(g, d) = [i \in 1 .. len |-> g[d[i]].data]  BY <1>3 DEF Data
  <2> HIDE DEF a
  <2>4. Reverse(a) = [i \in 1 .. len |-> a[len - i + 1]]  BY <2>2 DEF Reverse
  <2>5. ASSUME NEW i \in 1 .. len  PROVE g[d[i]].data = a[len - i + 1]
    <3> DEFINE j == len - i + 1
    <3>1. j \in 1 .. len  BY <1>1
    <3>2. d[i] = c[j] /\ c[j] \in ToSet(c) /\ c[j] \in Nodes  BY <1>1, <1>3, <3>1
    <3> QED  BY <1>6, <2>2, <3>1, <3>2
  <2> QED  BY <2>3, <2>4, <2>5 DEF a
<1> QED  BY <1>8, <1>10, <1>11 DEF g, h, d

-----------------------------------------------------------------------------
(* Two lists made into one. *)

\* No node is in both chains.
Apart(c, e) == ToSet(c) \cap ToSet(e) = {}

\* t is the list s with the nodes of the list r behind its own.
Joins(s, r, t) ==
    /\ t.node = IF s.tail = NULL THEN s.node
                ELSE SetPrev(SetNext(s.node, s.tail, r.head), r.head, s.tail)
    /\ t.head = IF s.tail = NULL THEN r.head ELSE s.head
    /\ t.tail = r.tail
    /\ t.count = s.count + r.count

\* d is the chain c with the chain e behind it.
Behind(c, e, d) ==
    /\ d \in Seq(Nodes) /\ Len(d) = Len(c) + Len(e)
    /\ \A i \in 1 .. Len(c) : d[i] = c[i]
    /\ \A i \in 1 .. Len(e) : d[Len(c) + i] = e[i]
    /\ \A i \in Int : At(d, i) = IF i <= Len(c) THEN At(c, i) ELSE At(e, i - Len(c))

\* The places of one chain behind another.
LEMMA AtBehind ==
    ASSUME NEW c \in Seq(Nodes), NEW e \in Seq(Nodes)
    PROVE  Behind(c, e, c \o e)
<1> DEFINE d == c \o e
           p == Len(c)
           q == Len(e)
<1>1. d \in Seq(Nodes) /\ Len(d) = p + q /\ p \in Nat /\ q \in Nat
      /\ \A i \in 1 .. p + q : d[i] = IF i <= p THEN c[i] ELSE e[i - p]
  BY ConcatProperties
<1> HIDE DEF d, p, q
<1>2. \A i \in 1 .. p : d[i] = c[i]
  <2>1. \A i \in 1 .. p : i \in 1 .. p + q /\ i <= p  BY <1>1
  <2> QED  BY <1>1, <2>1
<1>3. \A i \in 1 .. q : d[p + i] = e[i]
  <2> SUFFICES ASSUME NEW i \in 1 .. q  PROVE d[p + i] = e[i]  OBVIOUS
  <2> DEFINE j == p + i
  <2>1. j \in 1 .. p + q /\ ~(j <= p) /\ j - p = i  BY <1>1
  <2> HIDE DEF j
  <2>2. d[j] = e[i]  BY <1>1, <2>1
  <2> QED  BY <2>2 DEF j
<1>4. ASSUME NEW i \in Int  PROVE At(d, i) = IF i <= p THEN At(c, i) ELSE At(e, i - p)
  <2>0. /\ At(d, i) = IF i \in 1 .. p + q THEN d[i] ELSE NULL
        /\ At(c, i) = IF i \in 1 .. p THEN c[i] ELSE NULL
    BY <1>1 DEF At, p
  <2>1. At(e, i - p) = IF i - p \in 1 .. q THEN e[i - p] ELSE NULL  BY DEF At, q
  <2>2. CASE i <= p
    <3>1. i \in 1 .. p + q <=> i \in 1 .. p  BY <1>1, <2>2
    <3> QED  BY <1>2, <2>0, <2>2, <3>1
  <2>3. CASE ~(i <= p)
    <3>1. i \in 1 .. p + q <=> i - p \in 1 .. q  BY <1>1, <2>3
    <3>2. i \in 1 .. p + q => d[i] = e[i - p]  BY <1>1, <2>3
    <3> QED  BY <2>0, <2>1, <2>3, <3>1, <3>2
  <2> QED  BY <2>2, <2>3
<1> QED  BY <1>1, <1>2, <1>3, <1>4 DEF d, p, q, Behind

\* The heap of the joined list: two links are new.
LEMMA JoinHeap ==
    ASSUME NEW s, NEW c, IsList(s, c), NEW r, NEW e, IsList(r, e), r.node = s.node,
           Len(e) # 0, NEW t, Joins(s, r, t)
    PROVE  /\ t.node \in Heaps
           /\ \A m \in Nodes :
                 /\ t.node[m].next = IF m = s.tail THEN r.head ELSE s.node[m].next
                 /\ t.node[m].prev = IF m = r.head THEN s.tail ELSE s.node[m].prev
                 /\ t.node[m].data = s.node[m].data
                 /\ m # s.tail /\ m # r.head => t.node[m] = s.node[m]
<1> DEFINE h == s.node
           x == s.tail
           y == r.head
           f == SetNext(h, x, y)
           g == SetPrev(f, y, x)
<1>1. h \in Heaps /\ x \in Links /\ y \in Nodes /\ y \in Links /\ h[y].prev = NULL
  <2>1. h \in Heaps /\ x = At(c, Len(c)) /\ y = At(e, 1)  BY DEF IsList
  <2>2. Len(e) \in Nat /\ Len(c) \in Int  BY AtOnce
  <2>3. 1 \in 1 .. Len(e)  BY <2>2
  <2>4. y = e[1] /\ y \in Nodes /\ y \in Links  BY <2>1, <2>3, AtOnce, NoNode
  <2>5. x \in Links  BY <2>1, <2>2, AtOnce
  <2>6. h[e[1]].prev = NULL
    <3>1. At(e, 1 - 1) = NULL  BY DEF At
    <3> QED  BY <2>3, <3>1 DEF IsList
  <2> QED  BY <2>1, <2>4, <2>5, <2>6
<1>2. t.node = IF x = NULL THEN h ELSE g  BY DEF Joins
<1> HIDE DEF h, x, y
<1>3. f \in Heaps /\ \A m \in Nodes : /\ f[m].next = IF m = x THEN y ELSE h[m].next
                                      /\ f[m].prev = h[m].prev /\ f[m].data = h[m].data
  BY <1>1, SetIs
<1> HIDE DEF f
<1>4. g \in Heaps /\ \A m \in Nodes : /\ g[m].next = f[m].next
                                      /\ g[m].prev = IF m = y THEN x ELSE f[m].prev
                                      /\ g[m].data = f[m].data
  BY <1>1, <1>3, SetIs
<1> HIDE DEF g
<1>5. t.node \in Heaps  BY <1>1, <1>2, <1>4
<1>6. ASSUME NEW m \in Nodes
      PROVE  /\ t.node[m].next = IF m = x THEN y ELSE h[m].next
             /\ t.node[m].prev = IF m = y THEN x ELSE h[m].prev
             /\ t.node[m].data = h[m].data
  <2>1. CASE x = NULL
    <3>1. t.node = h /\ m # x  BY <1>2, <2>1, NoNode
    <3> QED  BY <1>1, <2>1, <3>1
  <2>2. CASE x # NULL
    <3>1. t.node = g  BY <1>2, <2>2
    <3> QED  BY <1>3, <1>4, <3>1
  <2> QED  BY <2>1, <2>2
<1>7. ASSUME NEW m \in Nodes, m # x, m # y  PROVE t.node[m] = h[m]
  <2>1. t.node[m].next = h[m].next /\ t.node[m].prev = h[m].prev /\ t.node[m].data = h[m].data
    BY <1>6, <1>7
  <2>2. /\ t.node[m] = [next |-> t.node[m].next, prev |-> t.node[m].prev,
                        data |-> t.node[m].data]
        /\ h[m] = [next |-> h[m].next, prev |-> h[m].prev, data |-> h[m].data]
    BY <1>1, <1>5, NodeIs
  <2> QED  BY <2>1, <2>2
<1> QED  BY <1>5, <1>6, <1>7 DEF h, x, y

\* t with chain d is the list s with chain c and, behind it, a list with chain e.
Joint(s, c, e, t, d) ==
    /\ IsList(t, d) /\ d \in Seq(Nodes)
    /\ ToSet(d) = ToSet(c) \cup ToSet(e)
    /\ \A m \in Nodes : m \notin ToSet(d) => t.node[m] = s.node[m]
    /\ Data(t.node, d) = Data(s.node, c) \o Data(s.node, e)

\* The joined list goes through the nodes of both, and holds what both held.
LEMMA JoinIs ==
    ASSUME NEW s, NEW c, IsList(s, c), NEW r, NEW e, IsList(r, e), r.node = s.node,
           Len(e) # 0, Apart(c, e), NEW t, Joins(s, r, t), NEW d, d = c \o e
    PROVE  Joint(s, c, e, t, d)
<1> DEFINE h == s.node
           g == t.node
           x == s.tail
           y == r.head
           p == Len(c)
           q == Len(e)
<1>1. /\ c \in Seq(Nodes) /\ \A i, j \in 1 .. p : c[i] = c[j] => i = j
      /\ e \in Seq(Nodes) /\ \A i, j \in 1 .. q : e[i] = e[j] => i = j
      /\ x = At(c, p) /\ s.head = At(c, 1) /\ s.count = p
      /\ y = At(e, 1) /\ r.tail = At(e, q) /\ r.count = q
  BY DEF IsList
<1>2. /\ \A i \in 1 .. p : /\ h[c[i]].next = At(c, i + 1) /\ h[c[i]].prev = At(c, i - 1)
                           /\ h[c[i]].data \in Elems
      /\ \A i \in 1 .. q : /\ h[e[i]].next = At(e, i + 1) /\ h[e[i]].prev = At(e, i - 1)
                           /\ h[e[i]].data \in Elems
  BY DEF IsList
<1>3. /\ p \in Nat /\ q \in Nat /\ ToSet(c) = {c[j] : j \in 1 .. p}
      /\ ToSet(e) = {e[j] : j \in 1 .. q}
      /\ \A j \in 1 .. p : c[j] \in Nodes /\ c[j] # NULL /\ At(c, j) = c[j]
      /\ \A j \in 1 .. q : e[j] \in Nodes /\ e[j] # NULL /\ At(e, j) = e[j]
  <2>1. p \in Nat /\ \A j \in 1 .. p : c[j] \in Nodes /\ c[j] # NULL /\ At(c, j) = c[j]
    BY AtOnce
  <2>2. q \in Nat /\ \A j \in 1 .. q : e[j] \in Nodes /\ e[j] # NULL /\ At(e, j) = e[j]
    BY AtOnce
  <2>3. ToSet(c) = {c[j] : j \in 1 .. p}  BY AtOnce
  <2>4. ToSet(e) = {e[j] : j \in 1 .. q}  BY AtOnce
  <2> QED  BY <2>1, <2>2, <2>3, <2>4
<1>4. /\ g \in Heaps
      /\ \A m \in Nodes : /\ g[m].next = IF m = x THEN y ELSE h[m].next
                          /\ g[m].prev = IF m = y THEN x ELSE h[m].prev
                          /\ g[m].data = h[m].data
                          /\ m # x /\ m # y => g[m] = h[m]
  BY JoinHeap
<1>5. /\ d \in Seq(Nodes) /\ Len(d) = p + q
      /\ \A i \in 1 .. p : d[i] = c[i]
      /\ \A i \in 1 .. q : d[p + i] = e[i]
      /\ \A i \in Int : At(d, i) = IF i <= p THEN At(c, i) ELSE At(e, i - p)
  <2>1. c \in Seq(Nodes) /\ e \in Seq(Nodes)  BY <1>1
  <2>2. Behind(c, e, d)  BY <2>1, AtBehind
  <2> QED  BY <2>2 DEF Behind
<1>6. /\ t.head = IF x = NULL THEN y ELSE s.head
      /\ t.tail = r.tail /\ t.count = s.count + r.count
  BY DEF Joins
<1>7. \A i \in 1 .. p, j \in 1 .. q : c[i] # e[j]
  BY <1>3 DEF Apart
<1>8. q # 0  OBVIOUS
<1> HIDE DEF h, g, x, y, p, q
<1>9. \A k \in 1 .. p + q : \/ k \in 1 .. p /\ d[k] = c[k]
                            \/ k - p \in 1 .. q /\ k = p + (k - p) /\ d[k] = e[k - p] /\ ~(k <= p)
  <2> SUFFICES ASSUME NEW k \in 1 .. p + q, ~(k \in 1 .. p)
               PROVE  k - p \in 1 .. q /\ k = p + (k - p) /\ d[k] = e[k - p] /\ ~(k <= p)
    BY <1>5
  <2> DEFINE j == k - p
  <2>1. j \in 1 .. q /\ k = p + j /\ ~(k <= p)  BY <1>3
  <2> HIDE DEF j
  <2>2. d[k] = e[j]  BY <1>5, <2>1
  <2> QED  BY <2>1, <2>2 DEF j
<1>10. ASSUME NEW i \in 1 .. p + q, NEW j \in 1 .. p + q, d[i] = d[j]  PROVE i = j
  <2>1. \/ i \in 1 .. p /\ d[i] = c[i]
        \/ i - p \in 1 .. q /\ i = p + (i - p) /\ d[i] = e[i - p]
    BY <1>9
  <2>2. \/ j \in 1 .. p /\ d[j] = c[j]
        \/ j - p \in 1 .. q /\ j = p + (j - p) /\ d[j] = e[j - p]
    BY <1>9
  <2> DEFINE a == i - p
             b == j - p
  <2>3. CASE i \in 1 .. p /\ d[i] = c[i] /\ j \in 1 .. p /\ d[j] = c[j]
    BY <1>1, <1>10, <2>3, ZenonT(60)
  <2>4. CASE i \in 1 .. p /\ d[i] = c[i] /\ b \in 1 .. q /\ d[j] = e[b]
    <3> HIDE DEF b
    <3> QED  BY <1>7, <1>10, <2>4
  <2>5. CASE a \in 1 .. q /\ d[i] = e[a] /\ j \in 1 .. p /\ d[j] = c[j]
    <3> HIDE DEF a
    <3> QED  BY <1>7, <1>10, <2>5
  <2>6. CASE a \in 1 .. q /\ i = p + a /\ d[i] = e[a] /\ b \in 1 .. q /\ j = p + b /\ d[j] = e[b]
    <3> HIDE DEF a, b
    <3>1. a = b  BY <1>1, <1>10, <2>6, ZenonT(60)
    <3> QED  BY <2>6, <3>1
  <2> HIDE DEF a, b
  <2> QED  BY <2>1, <2>2, <2>3, <2>4, <2>5, <2>6 DEF a, b
<1>11. ToSet(d) = ToSet(c) \cup ToSet(e)
  <2>1. ToSet(d) = {d[i] : i \in 1 .. p + q}
    <3>1. DOMAIN d = 1 .. Len(d) /\ Len(d) = p + q  BY <1>5
    <3>2. DOMAIN d = 1 .. p + q  BY <3>1
    <3> QED  BY <3>2 DEF ToSet
  <2>2. \A k \in 1 .. p + q : d[k] \in ToSet(c) \cup ToSet(e)
    <3> SUFFICES ASSUME NEW k \in 1 .. p + q  PROVE d[k] \in ToSet(c) \cup ToSet(e)  OBVIOUS
    <3> DEFINE j == k - p
    <3>1. (k \in 1 .. p /\ d[k] = c[k]) \/ (j \in 1 .. q /\ d[k] = e[j])
      BY <1>9
    <3> HIDE DEF j
    <3> QED  BY <1>3, <3>1
  <2>3. \A i \in 1 .. p : i \in 1 .. p + q  BY <1>3
  <2>4. \A i \in 1 .. q : p + i \in 1 .. p + q  BY <1>3
  <2>5. \A i \in 1 .. p : c[i] \in ToSet(d)
    <3> SUFFICES ASSUME NEW i \in 1 .. p  PROVE c[i] \in ToSet(d)  OBVIOUS
    <3>1. c[i] = d[i] /\ i \in 1 .. p + q  BY <1>5, <2>3
    <3> QED  BY <2>1, <3>1
  <2>6. \A i \in 1 .. q : e[i] \in ToSet(d)
    <3> SUFFICES ASSUME NEW i \in 1 .. q  PROVE e[i] \in ToSet(d)  OBVIOUS
    <3> DEFINE k == p + i
    <3>1. e[i] = d[k] /\ k \in 1 .. p + q  BY <1>5, <2>4
    <3> HIDE DEF k
    <3> QED  BY <2>1, <3>1
  <2>7. \A m \in ToSet(d) : m \in ToSet(c) \cup ToSet(e)  BY <2>1, <2>2
  <2>8. \A m \in ToSet(c) : m \in ToSet(d)  BY <1>3, <2>5
  <2>9. \A m \in ToSet(e) : m \in ToSet(d)  BY <1>3, <2>6
  <2> QED  BY <2>7, <2>8, <2>9
<1>12. ASSUME NEW k \in 1 .. p + q
       PROVE  /\ g[d[k]].next = At(d, k + 1) /\ g[d[k]].prev = At(d, k - 1)
              /\ g[d[k]].data = h[d[k]].data /\ g[d[k]].data \in Elems
  <2>1. CASE k \in 1 .. p
    <3>1. d[k] = c[k] /\ c[k] \in Nodes /\ c[k] # y
      <4>1. 1 \in 1 .. q  BY <1>3, <1>8
      <4>2. y = e[1] /\ c[k] # e[1]  BY <1>1, <1>3, <1>7, <2>1, <4>1
      <4>3. d[k] = c[k] /\ c[k] \in Nodes  BY <1>3, <1>5, <2>1
      <4> QED  BY <4>2, <4>3
    <3>2. k + 1 \in Int /\ k - 1 \in Int /\ k - 1 <= p  BY <1>3, <2>1
    <3>3. At(d, k - 1) = At(c, k - 1)  BY <1>5, <3>2
    <3>4. CASE k = p
      <4>1. c[k] = x  BY <1>1, <1>3, <2>1, <3>4
      <4>2. ~(k + 1 <= p) /\ k + 1 - p = 1  BY <1>3, <2>1, <3>4
      <4>3. At(d, k + 1) = y
        <5> DEFINE i == k + 1
        <5>1. i \in Int /\ ~(i <= p) /\ i - p = 1  BY <1>3, <2>1, <3>4
        <5> HIDE DEF i
        <5>2. At(d, i) = At(e, i - p)  BY <1>5, <5>1
        <5>3. At(d, i) = y  BY <1>1, <5>1, <5>2
        <5> QED  BY <5>3 DEF i
      <4> QED  BY <1>2, <1>4, <2>1, <3>1, <3>3, <4>1, <4>3
    <3>5. CASE k # p
      <4>1. c[k] # x
        <5>1. p \in 1 .. p  BY <1>3, <2>1
        <5> QED  BY <1>1, <1>3, <2>1, <3>5, <5>1, SMTT(30)
      <4>2. k + 1 <= p  BY <1>3, <2>1, <3>5
      <4>3. At(d, k + 1) = At(c, k + 1)  BY <1>5, <3>2, <4>2
      <4> QED  BY <1>2, <1>4, <2>1, <3>1, <3>3, <4>1, <4>3
    <3> QED  BY <3>4, <3>5
  <2>2. CASE ~(k \in 1 .. p)
    <3> DEFINE j == k - p
    <3>1. j \in 1 .. q /\ k = p + j /\ d[k] = e[j] /\ ~(k <= p)  BY <1>9, <2>2
    <3>2. k + 1 \in Int /\ k - 1 \in Int /\ ~(k + 1 <= p) /\ k + 1 - p = j + 1
          /\ (k - 1 <= p <=> j = 1) /\ k - 1 - p = j - 1 /\ (j = 1 => k - 1 = p)
      BY <1>3, <3>1
    <3> HIDE DEF j
    <3>3. e[j] \in Nodes /\ e[j] # x
      <4>1. x # NULL => p \in 1 .. p  BY <1>1, <1>3 DEF At, p
      <4> QED  BY <1>1, <1>3, <1>7, <3>1, <4>1
    <3>4. At(d, k + 1) = At(e, j + 1)
      <4> DEFINE i == k + 1
      <4>1. i \in Int /\ ~(i <= p) /\ i - p = j + 1  BY <1>3, <3>1
      <4> HIDE DEF i
      <4>2. At(d, i) = At(e, i - p)  BY <1>5, <4>1
      <4>3. At(d, i) = At(e, j + 1)  BY <4>1, <4>2
      <4> QED  BY <4>3 DEF i
    <3>5. CASE j = 1
      <4>1. e[j] = y  BY <1>1, <1>3, <3>1, <3>5
      <4>2. At(d, k - 1) = x  BY <1>1, <1>5, <3>2, <3>5
      <4> QED  BY <1>2, <1>4, <3>1, <3>3, <3>4, <4>1, <4>2, SMTT(30)
    <3>6. CASE j # 1
      <4>1. e[j] # y
        <5>1. 1 \in 1 .. q  BY <1>3, <3>1
        <5> QED  BY <1>1, <1>3, <3>1, <3>6, <5>1
      <4>2. At(d, k - 1) = At(e, j - 1)  BY <1>5, <3>2, <3>6
      <4> QED  BY <1>2, <1>4, <3>1, <3>3, <3>4, <4>1, <4>2
    <3> QED  BY <3>5, <3>6
  <2> QED  BY <2>1, <2>2
<1>13. t.head = At(d, 1) /\ t.tail = At(d, p + q)
  <2>1. t.tail = At(d, p + q)
    <3>1. p + q \in Int /\ ~(p + q <= p) /\ p + q - p = q  BY <1>3, <1>8
    <3> DEFINE i == p + q
    <3>a. i \in Int /\ ~(i <= p) /\ i - p = q  BY <1>3, <1>8
    <3> HIDE DEF i
    <3>b. At(d, i) = At(e, i - p)  BY <1>5, <3>a
    <3>c. At(d, i) = At(e, q)  BY <3>a, <3>b
    <3>2. At(d, p + q) = At(e, q)  BY <3>c DEF i
    <3> QED  BY <1>1, <1>6, <3>2
  <2>2. CASE p = 0
    <3>1. x = NULL  BY <1>1, <2>2 DEF At
    <3>2. 1 \in Int /\ ~(1 <= p) /\ 1 - p = 1  BY <2>2
    <3>3. At(d, 1) = y  BY <1>1, <1>5, <3>2
    <3> QED  BY <1>6, <2>1, <3>1, <3>3
  <2>3. CASE p # 0
    <3>1. p \in 1 .. p /\ 1 <= p /\ 1 \in Int  BY <1>3, <2>3
    <3>2. x # NULL  BY <1>1, <1>3, <3>1
    <3>3. At(d, 1) = At(c, 1)  BY <1>5, <3>1
    <3> QED  BY <1>1, <1>6, <2>1, <3>2, <3>3
  <2> QED  BY <2>2, <2>3
<1>14. IsList(t, d)
  <2>1. t.count = p + q  BY <1>1, <1>6
  <2> QED  BY <1>4, <1>5, <1>10, <1>12, <1>13, <2>1, ZenonT(60) DEF IsList, g
<1>15. ASSUME NEW m \in Nodes, m \notin ToSet(d)  PROVE g[m] = h[m]
  <2>1. m # x
    <3>1. p # 0 => p \in 1 .. p  BY <1>3
    <3>2. p = 0 => x = NULL  BY <1>1 DEF At
    <3> QED  BY <1>1, <1>3, <1>11, <1>15, <3>1, <3>2, NoNode
  <2>2. m # y
    <3>1. 1 \in 1 .. q  BY <1>3, <1>8
    <3> QED  BY <1>1, <1>3, <1>11, <1>15, <3>1
  <2> QED  BY <1>4, <2>1, <2>2
<1>16. Data(g, d) = Data(h, c) \o Data(h, e)
  <2> DEFINE a == Data(h, c)
             b == Data(h, e)
             w == a \o b
             f == Data(g, d)
  <2>1. /\ a \in Seq(Elems) /\ Len(a) = p /\ \A i \in 1 .. p : a[i] = h[c[i]].data
        /\ b \in Seq(Elems) /\ Len(b) = q /\ \A i \in 1 .. q : b[i] = h[e[i]].data
    <3>1. a \in Seq(Elems) /\ Len(a) = p /\ \A i \in 1 .. p : a[i] = h[c[i]].data
      BY DataIs DEF h, p
    <3>2. b \in Seq(Elems) /\ Len(b) = q /\ \A i \in 1 .. q : b[i] = h[e[i]].data
      BY DataIs DEF h, q
    <3> QED  BY <3>1, <3>2
  <2>2. f \in Seq(Elems) /\ Len(f) = p + q /\ \A i \in 1 .. p + q : f[i] = g[d[i]].data
    <3>1. Data(t.node, d) \in Seq(Elems) /\ Len(Data(t.node, d)) = Len(d)
          /\ \A i \in 1 .. Len(d) : Data(t.node, d)[i] = t.node[d[i]].data
      BY <1>14, DataIs, ZenonT(60)
    <3>2. f = Data(t.node, d) /\ Len(d) = p + q  BY <1>5 DEF g
    <3> HIDE DEF f
    <3> QED  BY <3>1, <3>2 DEF g
  <2> HIDE DEF a, b, f
  <2>3. w \in Seq(Elems) /\ Len(w) = p + q
        /\ \A i \in 1 .. p + q : w[i] = IF i <= p THEN a[i] ELSE b[i - p]
    BY <2>1, ConcatProperties
  <2> HIDE DEF w
  <2>4. ASSUME NEW k \in 1 .. p + q  PROVE f[k] = w[k]
    <3>1. f[k] = h[d[k]].data  BY <1>12, <2>2
    <3>2. k \in 1 .. p => k <= p  BY <1>3
    <3> QED  BY <1>9, <2>1, <2>3, <3>1, <3>2, ZenonT(60)
  <2>5. f = w  BY <2>2, <2>3, <2>4, SeqEqual
  <2> QED  BY <2>5 DEF f, w, a, b
<1> QED  BY <1>5, <1>11, <1>14, <1>15, <1>16 DEF g, h, Joint

-----------------------------------------------------------------------------
(* The lists together: their chains share no node, and every node is free, *)
(* lost or in one of them.                                                 *)

Chains(c) ==
    /\ c \in [Lists -> Seq(Nodes)]
    /\ \A l \in Lists : IsList(Of(l), c[l])
    /\ \A l, k \in Lists : l # k => Apart(c[l], c[k])
    /\ node \in Heaps
    /\ head \in [Lists -> Links] /\ tail \in [Lists -> Links] /\ count \in [Lists -> Nat]
    /\ \A n \in lost : n \in Nodes /\ node[n] # Free /\ \A l \in Lists : n \notin ToSet(c[l])
    /\ \A n \in Nodes : node[n] # Free => n \in lost \/ \E l \in Lists : n \in ToSet(c[l])

\* What every list holds, read along its chain.
Holding(c) == [l \in Lists |-> Data(node, c[l])]

\* A step leads to the chains e, and the lists hold h.
Leads(e, h) == Chains(e)' /\ Holding(e)' = h

\* It leads to the chains e, and only what list l holds is another.
Moves(c, e, l, held) == Leads(e, [Holding(c) EXCEPT ![l] = held])

\* A list whose ends, count and nodes stay is the same list.
LEMMA SameList ==
    ASSUME NEW s, NEW c, IsList(s, c), NEW t, t.node \in Heaps,
           t.head = s.head, t.tail = s.tail, t.count = s.count,
           \A m \in ToSet(c) : t.node[m] = s.node[m]
    PROVE  IsList(t, c) /\ Data(t.node, c) = Data(s.node, c)
<1>1. \A i \in 1 .. Len(c) : t.node[c[i]] = s.node[c[i]]
  <2>1. \A i \in 1 .. Len(c) : c[i] \in ToSet(c)  BY AtOnce
  <2> QED  BY <2>1
<1>2. IsList(t, c)  BY <1>1 DEF IsList
<1>3. Data(t.node, c) = Data(s.node, c)  BY <1>1 DEF Data
<1> QED  BY <1>2, <1>3

\* The fields of a list.
LEMMA OfIs ==
    ASSUME NEW l
    PROVE  /\ Of(l).node = node /\ Of(l).head = head[l] /\ Of(l).tail = tail[l]
           /\ Of(l).count = count[l]
  BY DEF Of

\* List l with chain d, and the others with theirs, are apart when what joined was free.
LEMMA StillApart ==
    ASSUME NEW c, Chains(c), NEW l \in Lists, NEW d,
           \A m \in ToSet(d) : m \notin ToSet(c[l]) => node[m] = Free
    PROVE  \A k \in Lists : k # l => Apart(c[k], d) /\ Apart(d, c[k])
<1> SUFFICES ASSUME NEW k \in Lists, k # l  PROVE Apart(c[k], d) /\ Apart(d, c[k])
  OBVIOUS
<1>1. IsList(Of(k), c[k]) /\ Apart(c[k], c[l])  BY DEF Chains
<1>2. \A m \in ToSet(c[k]) : node[m] # Free
  <2>1. \A m \in ToSet(c[k]) : Of(k).node[m] # Free  BY <1>1, ChainInUse
  <2> QED  BY <2>1, OfIs
<1> QED  BY <1>1, <1>2 DEF Apart

\* A list that changes leaves the lists chains that share no node.
LEMMA BecomesChains ==
    ASSUME NEW c, Chains(c), NEW l \in Lists, NEW t, Becomes(l, t), NEW d \in Seq(Nodes),
           Changes(Of(l), c[l], t, d), NEW e, e = [c EXCEPT ![l] = d]
    PROVE  Moves(c, e, l, Data(t.node, d))
<1>1. /\ c \in [Lists -> Seq(Nodes)]
      /\ \A k \in Lists : IsList(Of(k), c[k])
      /\ \A k, m \in Lists : k # m => Apart(c[k], c[m])
      /\ node \in Heaps
      /\ head \in [Lists -> Links] /\ tail \in [Lists -> Links] /\ count \in [Lists -> Nat]
  BY DEF Chains
<1>2. /\ IsList(t, d)
      /\ \A m \in Nodes : m \notin ToSet(c[l]) /\ m \notin ToSet(d) => t.node[m] = node[m]
      /\ \A m \in ToSet(d) : m \notin ToSet(c[l]) => node[m] = Free
      /\ \A m \in ToSet(c[l]) : m \notin ToSet(d) => t.node[m] = Free
  BY OfIs DEF Changes
<1>3. /\ node' = t.node /\ lost' = lost
      /\ head' = [head EXCEPT ![l] = t.head]
      /\ tail' = [tail EXCEPT ![l] = t.tail]
      /\ count' = [count EXCEPT ![l] = t.count]
  BY DEF Becomes
<1>4. t.node \in Heaps /\ t.head \in Links /\ t.tail \in Links /\ t.count \in Nat
  <2>1. t.node \in Heaps /\ t.head = At(d, 1) /\ t.tail = At(d, Len(d)) /\ t.count = Len(d)
    BY <1>2 DEF IsList
  <2>2. Len(d) \in Nat /\ \A k \in Int : At(d, k) \in Links  BY <1>2, AtOnce
  <2>3. 1 \in Int /\ Len(d) \in Int  BY <2>2
  <2> QED  BY <2>1, <2>2, <2>3
<1>5. e \in [Lists -> Seq(Nodes)] /\ e[l] = d /\ \A k \in Lists : k # l => e[k] = c[k]
  BY <1>1
<1>6. \A k \in Lists : k # l => Apart(c[k], d) /\ Apart(d, c[k])
  BY <1>2, StillApart
<1>7. ASSUME NEW k \in Lists, k # l
      PROVE  IsList(Of(k)', c[k]) /\ Data(node', c[k]) = Data(node, c[k])
  <2>1. /\ Of(k)'.node = t.node /\ Of(k)'.head = head[k] /\ Of(k)'.tail = tail[k]
        /\ Of(k)'.count = count[k]
    BY <1>1, <1>3, <1>7 DEF Of
  <2>2. \A m \in ToSet(c[k]) : t.node[m] = node[m]
    <3>1. \A m \in ToSet(c[k]) : m \in Nodes  BY <1>1, ChainInUse
    <3>2. Apart(c[k], c[l]) /\ Apart(c[k], d)  BY <1>1, <1>6, <1>7
    <3> QED  BY <1>2, <3>1, <3>2 DEF Apart
  <2>3. IsList(Of(k), c[k])  BY <1>1
  <2> DEFINE s == Of(k)
             u == Of(k)'
  <2>4. /\ u.node = t.node /\ u.head = s.head /\ u.tail = s.tail /\ u.count = s.count
        /\ s.node = node /\ IsList(s, c[k])
    BY <2>1, <2>3, OfIs
  <2> HIDE DEF s, u
  <2>5. IsList(u, c[k]) /\ Data(u.node, c[k]) = Data(s.node, c[k])
    <3>1. u.node \in Heaps /\ \A m \in ToSet(c[k]) : u.node[m] = s.node[m]
      BY <1>4, <2>2, <2>4
    <3> QED  BY <2>4, <3>1, SameList
  <2>6. Data(node', c[k]) = Data(node, c[k])  BY <1>3, <2>4, <2>5
  <2> QED  BY <2>5, <2>6 DEF u
<1>8. IsList(Of(l)', d)
  <2>1. /\ Of(l)'.node = t.node /\ Of(l)'.head = t.head /\ Of(l)'.tail = t.tail
        /\ Of(l)'.count = t.count
    BY <1>1, <1>3 DEF Of
  <2> DEFINE u == Of(l)'
  <2>2. u.node = t.node /\ u.head = t.head /\ u.tail = t.tail /\ u.count = t.count  BY <2>1
  <2> HIDE DEF u
  <2>3. IsList(u, d)  BY <1>2, <2>2 DEF IsList
  <2> QED  BY <2>3 DEF u
<1>9. \A n \in lost : n \in Nodes /\ node'[n] # Free /\ \A k \in Lists : n \notin ToSet(e[k])
  <2> SUFFICES ASSUME NEW n \in lost
               PROVE  n \in Nodes /\ node'[n] # Free /\ \A k \in Lists : n \notin ToSet(e[k])
    OBVIOUS
  <2>1. n \in Nodes /\ node[n] # Free /\ \A k \in Lists : n \notin ToSet(c[k])  BY DEF Chains
  <2>2. n \notin ToSet(d)  BY <1>2, <2>1
  <2> QED  BY <1>2, <1>3, <1>5, <2>1, <2>2
<1>10. \A n \in Nodes : node'[n] # Free => n \in lost \/ \E k \in Lists : n \in ToSet(e[k])
  <2> SUFFICES ASSUME NEW n \in Nodes, node'[n] # Free, n \notin lost
               PROVE  \E k \in Lists : n \in ToSet(e[k])
    OBVIOUS
  <2>1. CASE n \in ToSet(d)  BY <1>5, <2>1
  <2>2. CASE n \notin ToSet(d)
    <3>1. n \notin ToSet(c[l])  BY <1>2, <1>3, <2>2
    <3>2. node[n] # Free  BY <1>2, <1>3, <2>2, <3>1
    <3>3. \E k \in Lists : n \in ToSet(c[k])  BY <3>2 DEF Chains
    <3> QED  BY <1>5, <3>1, <3>3
  <2> QED  BY <2>1, <2>2
<1>11. Chains(e)'
  <2>1. \A k \in Lists : IsList(Of(k)', e[k])  BY <1>5, <1>7, <1>8
  <2>2. \A k, m \in Lists : k # m => Apart(e[k], e[m])  BY <1>1, <1>5, <1>6
  <2>3. head' \in [Lists -> Links] /\ tail' \in [Lists -> Links] /\ count' \in [Lists -> Nat]
    BY <1>1, <1>3, <1>4
  <2>4. node' \in Heaps  BY <1>3, <1>4
  <2>5. lost' = lost  BY <1>3
  <2> QED  BY <1>5, <1>9, <1>10, <2>1, <2>2, <2>3, <2>4, <2>5 DEF Chains
<1>12. Holding(e)' = [Holding(c) EXCEPT ![l] = Data(t.node, d)]
  <2>1. \A k \in Lists : Data(node', e[k]) = IF k = l THEN Data(t.node, d) ELSE Data(node, c[k])
    BY <1>3, <1>5, <1>7
  <2> QED  BY <2>1 DEF Holding
<1> QED  BY <1>11, <1>12 DEF Leads, Moves

\* A list without nodes.
LEMMA NoList ==
    ASSUME NEW t, t.node \in Heaps, t.head = NULL, t.tail = NULL, t.count = 0
    PROVE  IsList(t, <<>>)
  BY DEF IsList, At

\* A list with nodes has a first and a last.
LEMMA EndsOf ==
    ASSUME NEW s, NEW c, IsList(s, c)
    PROVE  /\ s.head = NULL <=> Len(c) = 0
           /\ s.tail = NULL <=> Len(c) = 0
           /\ Len(c) # 0 => s.head \in ToSet(c) /\ s.tail \in ToSet(c)
<1>1. Len(c) \in Nat /\ ToSet(c) = {c[j] : j \in 1 .. Len(c)}
      /\ \A j \in 1 .. Len(c) : c[j] # NULL /\ At(c, j) = c[j]
  BY AtOnce
<1>2. s.head = At(c, 1) /\ s.tail = At(c, Len(c))  BY DEF IsList
<1>3. CASE Len(c) = 0  BY <1>2, <1>3 DEF At
<1>4. CASE Len(c) # 0
  <2>1. 1 \in 1 .. Len(c) /\ Len(c) \in 1 .. Len(c)  BY <1>1, <1>4
  <2> QED  BY <1>1, <1>2, <1>4, <2>1
<1> QED  BY <1>3, <1>4

\* Two lists that are merged leave the lists chains that share no node.
LEMMA MergeChains ==
    ASSUME NEW c, Chains(c), NEW l \in Lists, NEW k \in Lists, l # k, list_merge(l, k),
           NEW d, d = c[l] \o c[k], NEW e, e = [c EXCEPT ![l] = d, ![k] = <<>>]
    PROVE  /\ Leads(e, [Holding(c) EXCEPT ![l] = Holding(c)[l] \o Holding(c)[k], ![k] = <<>>])
           /\ ToSet(d) = ToSet(c[l]) \cup ToSet(c[k]) /\ d \in Seq(Nodes)
<1>1. /\ c \in [Lists -> Seq(Nodes)]
      /\ \A m \in Lists : IsList(Of(m), c[m])
      /\ \A j, m \in Lists : j # m => Apart(c[j], c[m])
      /\ node \in Heaps
      /\ head \in [Lists -> Links] /\ tail \in [Lists -> Links] /\ count \in [Lists -> Nat]
  BY DEF Chains
<1> DEFINE t == [node |-> node', head |-> head'[l], tail |-> tail'[l], count |-> count'[l]]
           s == Of(l)
           r == Of(k)
           a == c[l]
           b == c[k]
<1>2. /\ head[k] # NULL
      /\ node' = IF tail[l] = NULL THEN node
                 ELSE SetPrev(SetNext(node, tail[l], head[k]), head[k], tail[l])
      /\ head' = [head EXCEPT ![l] = IF tail[l] = NULL THEN head[k] ELSE @, ![k] = NULL]
      /\ tail' = [tail EXCEPT ![l] = tail[k], ![k] = NULL]
      /\ count' = [count EXCEPT ![l] = @ + count[k], ![k] = 0]
      /\ lost' = lost
  BY DEF list_merge
<1>3. /\ head'[l] = (IF tail[l] = NULL THEN head[k] ELSE head[l]) /\ head'[k] = NULL
      /\ \A m \in Lists : m # l /\ m # k => head'[m] = head[m]
      /\ tail'[l] = tail[k] /\ tail'[k] = NULL
      /\ \A m \in Lists : m # l /\ m # k => tail'[m] = tail[m]
      /\ count'[l] = count[l] + count[k] /\ count'[k] = 0
      /\ \A m \in Lists : m # l /\ m # k => count'[m] = count[m]
  BY <1>1, <1>2
<1>4. IsList(s, a) /\ IsList(r, b) /\ r.node = s.node /\ Len(b) # 0 /\ Apart(a, b)
  <2>1. IsList(Of(l), c[l]) /\ IsList(Of(k), c[k]) /\ Apart(c[l], c[k])  BY <1>1
  <2>2. Of(k).head = head[k] /\ Of(k).node = Of(l).node  BY OfIs
  <2>3. Len(c[k]) # 0  BY <1>2, <2>1, <2>2, EndsOf
  <2> QED  BY <2>1, <2>2, <2>3
<1>5. Joins(s, r, t)
  <2>1. /\ s.node = node /\ s.head = head[l] /\ s.tail = tail[l] /\ s.count = count[l]
        /\ r.node = node /\ r.head = head[k] /\ r.tail = tail[k] /\ r.count = count[k]
    BY OfIs
  <2>2. t.node = node' /\ t.head = head'[l] /\ t.tail = tail'[l] /\ t.count = count'[l]
    OBVIOUS
  <2> HIDE DEF s, r, t
  <2> QED  BY <1>2, <1>3, <2>1, <2>2 DEF Joins
<1>6. t.node = node' /\ s.node = node  BY OfIs
<1>7. Of(l)' = t  BY DEF Of
<1>8. /\ Of(k)'.node = node' /\ Of(k)'.head = NULL /\ Of(k)'.tail = NULL /\ Of(k)'.count = 0
      /\ \A m \in Lists : m # l /\ m # k =>
            /\ Of(m)'.node = node' /\ Of(m)'.head = head[m] /\ Of(m)'.tail = tail[m]
            /\ Of(m)'.count = count[m]
  BY <1>3 DEF Of
<1>9. r.head \in ToSet(b) /\ (s.tail # NULL => s.tail \in ToSet(a))  BY <1>4, EndsOf
<1>a. d = a \o b /\ e = [[c EXCEPT ![l] = d] EXCEPT ![k] = <<>>]  OBVIOUS
<1>b. c[l] = a /\ c[k] = b  OBVIOUS
<1> HIDE DEF t, s, r, a, b
<1>10. /\ IsList(t, d) /\ d \in Seq(Nodes)
       /\ ToSet(d) = ToSet(a) \cup ToSet(b)
       /\ \A m \in Nodes : m \notin ToSet(d) => t.node[m] = s.node[m]
       /\ Data(t.node, d) = Data(s.node, a) \o Data(s.node, b)
  <2>1. Joint(s, a, b, t, d)  BY <1>4, <1>5, <1>a, JoinIs
  <2> QED  BY <2>1 DEF Joint
<1>11. t.node \in Heaps
       /\ \A m \in Nodes : t.node[m].data = s.node[m].data
  BY <1>4, <1>5, JoinHeap
<1>12. /\ e \in [Lists -> Seq(Nodes)] /\ e[l] = d /\ e[k] = <<>>
       /\ \A m \in Lists : m # l /\ m # k => e[m] = c[m]
  <2> DEFINE f == [c EXCEPT ![l] = d]
  <2>1. f \in [Lists -> Seq(Nodes)] /\ f[l] = d /\ \A m \in Lists : m # l => f[m] = c[m]
    BY <1>1, <1>10
  <2>2. e = [f EXCEPT ![k] = <<>>]  BY <1>a
  <2>3. <<>> \in Seq(Nodes)  OBVIOUS
  <2> HIDE DEF f
  <2>4. e \in [Lists -> Seq(Nodes)]  BY <2>1, <2>2, <2>3
  <2>5. e[k] = <<>> /\ \A m \in Lists : m # k => e[m] = f[m]  BY <2>1, <2>2
  <2> QED  BY <2>1, <2>4, <2>5
<1>13. \A m \in ToSet(a) \cup ToSet(b) : m \in Nodes /\ node[m] # Free
  BY <1>4, <1>6, ChainInUse
<1>14. ASSUME NEW m \in Lists, m # l, m # k
       PROVE  IsList(Of(m)', c[m]) /\ Data(node', c[m]) = Data(node, c[m])
  <2>1. \A n \in ToSet(c[m]) : node'[n] = node[n]
    <3>1. \A n \in ToSet(c[m]) : n \in Nodes  BY <1>1, ChainInUse
    <3>2. Apart(c[m], a) /\ Apart(c[m], b)  BY <1>1, <1>14 DEF a, b
    <3> QED  BY <1>6, <1>10, <3>1, <3>2 DEF Apart
  <2>2. IsList(Of(m), c[m])  BY <1>1
  <2> DEFINE x == Of(m)
             u == Of(m)'
  <2>3. /\ u.node = node' /\ u.head = x.head /\ u.tail = x.tail /\ u.count = x.count
        /\ x.node = node /\ IsList(x, c[m])
    BY <1>8, <1>14, <2>2, OfIs
  <2> HIDE DEF u, x
  <2>4. IsList(u, c[m]) /\ Data(u.node, c[m]) = Data(x.node, c[m])
    <3>1. u.node \in Heaps /\ \A n \in ToSet(c[m]) : u.node[n] = x.node[n]
      BY <1>6, <1>11, <2>1, <2>3
    <3> QED  BY <2>3, <3>1, SameList
  <2> QED  BY <2>3, <2>4 DEF u
<1>15. IsList(Of(k)', <<>>)
  <2> DEFINE u == Of(k)'
  <2>1. u.node \in Heaps /\ u.head = NULL /\ u.tail = NULL /\ u.count = 0
    BY <1>6, <1>8, <1>11
  <2> HIDE DEF u
  <2>2. IsList(u, <<>>)  BY <2>1, NoList
  <2> QED  BY <2>2 DEF u
<1>16. ToSet(<<>>) = {}  BY DEF ToSet
<1>17. \A m \in Lists : IsList(Of(m)', e[m])
  <2>1. IsList(Of(l)', d)  BY <1>7, <1>10
  <2> QED  BY <1>12, <1>14, <1>15, <2>1
<1>18. \A j, m \in Lists : j # m => Apart(e[j], e[m])
  <2> SUFFICES ASSUME NEW j \in Lists, NEW m \in Lists, j # m  PROVE Apart(e[j], e[m])
    OBVIOUS
  <2>1. \A i \in Lists : i # l /\ i # k => Apart(c[i], d) /\ Apart(d, c[i])
    BY <1>1, <1>10 DEF Apart, a, b
  <2>2. CASE j = k \/ m = k  BY <1>12, <1>16, <2>2 DEF Apart
  <2>3. CASE j # k /\ m # k  BY <1>1, <1>12, <2>1, <2>3
  <2> QED  BY <2>2, <2>3
<1>19. ASSUME NEW n \in Nodes  PROVE (node'[n] = Free) <=> (node[n] = Free)
  <2>1. CASE n \in ToSet(d)
    <3>1. node[n] # Free  BY <1>10, <1>13, <2>1
    <3>2. node'[n] # Free
      <4>1. IsList(t, d)  BY <1>10
      <4>2. \A m \in ToSet(d) : t.node[m] # Free  BY <4>1, ChainInUse
      <4> QED  BY <1>6, <2>1, <4>2
    <3> QED  BY <3>1, <3>2
  <2>2. CASE n \notin ToSet(d)  BY <1>6, <1>10, <2>2
  <2> QED  BY <2>1, <2>2
<1>20. \A n \in Nodes :
          (\E m \in Lists : n \in ToSet(e[m])) <=> (\E m \in Lists : n \in ToSet(c[m]))
  <2>1. \A n \in Nodes, m \in Lists : n \in ToSet(e[m]) => \E j \in Lists : n \in ToSet(c[j])
    BY <1>10, <1>12, <1>16 DEF a, b
  <2>2. \A n \in Nodes, m \in Lists : n \in ToSet(c[m]) => \E j \in Lists : n \in ToSet(e[j])
    BY <1>10, <1>12 DEF a, b
  <2> QED  BY <2>1, <2>2
<1>21. Chains(e)'
  <2>1. head' \in [Lists -> Links] /\ tail' \in [Lists -> Links] /\ count' \in [Lists -> Nat]
    <3> DEFINE first == IF tail[l] = NULL THEN head[k] ELSE head[l]
               sum == count[l] + count[k]
    <3>1. first \in Links /\ sum \in Nat /\ tail[k] \in Links /\ NULL \in Links
      BY <1>1, NoNode
    <3>2. \A m \in Lists : head'[m] \in Links /\ tail'[m] \in Links /\ count'[m] \in Nat
      <4>1. /\ head'[l] = first /\ count'[l] = sum
        BY <1>3
      <4> HIDE DEF first, sum
      <4>2. \A m \in Lists : head[m] \in Links /\ tail[m] \in Links /\ count[m] \in Nat
        BY <1>1
      <4> QED  BY <1>3, <3>1, <4>1, <4>2
    <3>3. /\ head' = [m \in Lists |-> head'[m]] /\ tail' = [m \in Lists |-> tail'[m]]
          /\ count' = [m \in Lists |-> count'[m]]
      <4>1. DOMAIN head' = Lists /\ DOMAIN tail' = Lists /\ DOMAIN count' = Lists
        BY <1>1, <1>2
      <4>2. /\ head' = [m \in DOMAIN head' |-> head'[m]]
            /\ tail' = [m \in DOMAIN tail' |-> tail'[m]]
            /\ count' = [m \in DOMAIN count' |-> count'[m]]
        BY <1>1, <1>2
      <4> QED  BY <4>1, <4>2
    <3> QED  BY <3>2, <3>3
  <2>2. node' \in Heaps  BY <1>6, <1>11
  <2>3. \A n \in lost : n \in Nodes /\ node[n] # Free /\ \A m \in Lists : n \notin ToSet(c[m])
    BY DEF Chains
  <2>4. \A n \in Nodes : node[n] # Free => n \in lost \/ \E m \in Lists : n \in ToSet(c[m])
    BY DEF Chains
  <2>5. \A n \in lost : n \in Nodes /\ node'[n] # Free /\ \A m \in Lists : n \notin ToSet(e[m])
    BY <1>19, <1>20, <2>3
  <2>6. \A n \in Nodes : node'[n] # Free => n \in lost \/ \E m \in Lists : n \in ToSet(e[m])
    BY <1>19, <1>20, <2>4
  <2> QED  BY <1>2, <1>12, <1>17, <1>18, <2>1, <2>2, <2>5, <2>6 DEF Chains
<1>22. Holding(e)' = [Holding(c) EXCEPT ![l] = Holding(c)[l] \o Holding(c)[k], ![k] = <<>>]
  <2>1. Data(node', <<>>) = <<>>  BY DEF Data
  <2>2. \A m \in Lists : Holding(c)[m] = Data(node, c[m])  BY DEF Holding
  <2>3. \A m \in Lists : Data(node', e[m]) =
           IF m = k THEN <<>>
           ELSE IF m = l THEN Holding(c)[l] \o Holding(c)[k] ELSE Data(node, c[m])
    BY <1>6, <1>10, <1>12, <1>14, <2>1, <2>2 DEF a, b
  <2>4. Holding(e)' = [m \in Lists |-> Data(node', e[m])]  BY DEF Holding
  <2>5. Holding(c) = [m \in Lists |-> Data(node, c[m])]  BY DEF Holding
  <2> DEFINE both == Holding(c)[l] \o Holding(c)[k]
             now == Holding(c)
  <2> HIDE DEF both, now
  <2> DEFINE then == [m \in Lists |-> IF m = k THEN <<>>
                                    ELSE IF m = l THEN both ELSE Data(node, c[m])]
  <2>6. [now EXCEPT ![l] = both, ![k] = <<>>] = then
    BY <2>5 DEF now
  <2>7. \A m \in Lists : Data(node', e[m]) =
           IF m = k THEN <<>> ELSE IF m = l THEN both ELSE Data(node, c[m])
    BY <2>3 DEF both
  <2>8. [m \in Lists |-> Data(node', e[m])] = then  BY <2>7
  <2> HIDE DEF then
  <2>9. Holding(e)' = [now EXCEPT ![l] = both, ![k] = <<>>]
    BY <2>4, <2>6, <2>8, Zenon
  <2> QED  BY <2>9 DEF both, now
<1> QED  BY <1>10, <1>21, <1>22 DEF a, b, Leads

\* A list merged with itself is empty, and its nodes are lost.
LEMMA MergeSelf ==
    ASSUME NEW c, Chains(c), NEW l \in Lists, list_merge(l, l), NEW e, e = [c EXCEPT ![l] = <<>>]
    PROVE  Moves(c, e, l, <<>>)
<1>1. /\ c \in [Lists -> Seq(Nodes)]
      /\ \A m \in Lists : IsList(Of(m), c[m])
      /\ \A j, m \in Lists : j # m => Apart(c[j], c[m])
      /\ node \in Heaps
      /\ head \in [Lists -> Links] /\ tail \in [Lists -> Links] /\ count \in [Lists -> Nat]
  BY DEF Chains
<1> DEFINE a == c[l]
           x == tail[l]
           y == head[l]
<1>2. /\ y # NULL
      /\ node' = IF x = NULL THEN node ELSE SetPrev(SetNext(node, x, y), y, x)
      /\ head' = [head EXCEPT ![l] = IF tail[l] = NULL THEN head[l] ELSE @, ![l] = NULL]
      /\ tail' = [tail EXCEPT ![l] = tail[l], ![l] = NULL]
      /\ count' = [count EXCEPT ![l] = @ + count[l], ![l] = 0]
      /\ lost' = lost \cup ToSet(Forward(l))
  BY DEF list_merge
<1>3. /\ head'[l] = NULL /\ tail'[l] = NULL /\ count'[l] = 0
      /\ \A m \in Lists : m # l =>
            head'[m] = head[m] /\ tail'[m] = tail[m] /\ count'[m] = count[m]
      /\ head' \in [Lists -> Links] /\ tail' \in [Lists -> Links] /\ count' \in [Lists -> Nat]
  BY <1>1, <1>2, NoNode
<1>4. IsList(Of(l), a)  BY <1>1
<1>5. Forward(l) = a  BY <1>4, OfIs, WalksAre DEF Forward
<1>6. x \in ToSet(a) /\ y \in ToSet(a) /\ \A n \in ToSet(a) : n \in Nodes /\ node[n] # Free
      /\ node[n].data \in Elems
  <2>1. Of(l).head = y /\ Of(l).tail = x /\ Of(l).node = node  BY OfIs
  <2>2. Len(a) # 0 /\ x \in ToSet(a) /\ y \in ToSet(a)  BY <1>2, <1>4, <2>1, EndsOf
  <2>3. \A n \in ToSet(a) : n \in Nodes /\ node[n] # Free  BY <1>4, <2>1, ChainInUse
  <2>4. \A n \in ToSet(a) : node[n].data \in Elems
    <3>1. ToSet(a) = {a[j] : j \in 1 .. Len(a)}  BY <1>4, AtOnce
    <3>2. \A j \in 1 .. Len(a) : node[a[j]].data \in Elems  BY <1>4, <2>1 DEF IsList
    <3> QED  BY <3>1, <3>2
  <2> QED  BY <2>2, <2>3, <2>4
<1> HIDE DEF a, x, y
<1>7. /\ node' \in Heaps
      /\ \A n \in Nodes : node'[n].data = node[n].data
      /\ \A n \in Nodes : n \notin ToSet(a) => node'[n] = node[n]
  <2>1. x \in Nodes /\ y \in Nodes /\ x # NULL /\ x \in Links /\ y \in Links
    BY <1>6, NoNode
  <2> DEFINE f == SetNext(node, x, y)
             g == SetPrev(f, y, x)
  <2>2. node' = g  BY <1>2, <2>1
  <2>3. f \in Heaps /\ \A m \in Nodes : /\ f[m].next = IF m = x THEN y ELSE node[m].next
                                        /\ f[m].prev = node[m].prev /\ f[m].data = node[m].data
    BY <1>1, <2>1, SetIs
  <2> HIDE DEF f
  <2>4. g \in Heaps /\ \A m \in Nodes : /\ g[m].next = f[m].next
                                        /\ g[m].prev = IF m = y THEN x ELSE f[m].prev
                                        /\ g[m].data = f[m].data
    BY <2>1, <2>3, SetIs
  <2> HIDE DEF g
  <2>5. ASSUME NEW n \in Nodes, n \notin ToSet(a)  PROVE g[n] = node[n]
    <3>1. g[n].next = node[n].next /\ g[n].prev = node[n].prev /\ g[n].data = node[n].data
      BY <1>6, <2>3, <2>4, <2>5
    <3>2. /\ g[n] = [next |-> g[n].next, prev |-> g[n].prev, data |-> g[n].data]
          /\ node[n] = [next |-> node[n].next, prev |-> node[n].prev, data |-> node[n].data]
      BY <1>1, <2>4, NodeIs
    <3> QED  BY <3>1, <3>2
  <2> QED  BY <2>2, <2>3, <2>4, <2>5
<1>8. \A n \in ToSet(a) : node'[n] # Free
  <2>1. Free.data \notin Elems  BY ElemsAssumption DEF Free
  <2> QED  BY <1>6, <1>7, <2>1
<1>9. /\ e \in [Lists -> Seq(Nodes)] /\ e[l] = <<>>
      /\ \A m \in Lists : m # l => e[m] = c[m]
  BY <1>1
<1>10. ASSUME NEW m \in Lists, m # l
       PROVE  IsList(Of(m)', c[m]) /\ Data(node', c[m]) = Data(node, c[m])
  <2>1. \A n \in ToSet(c[m]) : node'[n] = node[n]
    <3>1. \A n \in ToSet(c[m]) : n \in Nodes  BY <1>1, ChainInUse
    <3>2. Apart(c[m], a)  BY <1>1, <1>10 DEF a
    <3> QED  BY <1>7, <3>1, <3>2 DEF Apart
  <2>2. IsList(Of(m), c[m])  BY <1>1
  <2>a. /\ Of(m)'.node = node' /\ Of(m)'.head = head[m] /\ Of(m)'.tail = tail[m]
        /\ Of(m)'.count = count[m]
    BY <1>3, <1>10 DEF Of
  <2> DEFINE s == Of(m)
             u == Of(m)'
  <2>3. /\ u.node = node' /\ u.head = s.head /\ u.tail = s.tail /\ u.count = s.count
        /\ s.node = node /\ IsList(s, c[m])
    BY <2>a, <2>2, OfIs
  <2> HIDE DEF u, s
  <2>4. IsList(u, c[m]) /\ Data(u.node, c[m]) = Data(s.node, c[m])
    <3>1. u.node \in Heaps /\ \A n \in ToSet(c[m]) : u.node[n] = s.node[n]
      BY <1>7, <2>1, <2>3
    <3> QED  BY <2>3, <3>1, SameList
  <2> QED  BY <2>3, <2>4 DEF u
<1>11. IsList(Of(l)', <<>>)
  <2>1. /\ Of(l)'.node = node' /\ Of(l)'.head = NULL /\ Of(l)'.tail = NULL /\ Of(l)'.count = 0
    BY <1>3 DEF Of
  <2> DEFINE u == Of(l)'
  <2>2. u.node \in Heaps /\ u.head = NULL /\ u.tail = NULL /\ u.count = 0
    BY <1>7, <2>1
  <2> HIDE DEF u
  <2>3. IsList(u, <<>>)  BY <2>2, NoList
  <2> QED  BY <2>3 DEF u
<1>12. ToSet(<<>>) = {}  BY DEF ToSet
<1>13. \A m \in Lists : IsList(Of(m)', e[m])  BY <1>9, <1>10, <1>11
<1>14. \A j, m \in Lists : j # m => Apart(e[j], e[m])
  BY <1>1, <1>9, <1>12 DEF Apart
<1>15. \A n \in lost \cup ToSet(a) :
          n \in Nodes /\ node'[n] # Free /\ \A m \in Lists : n \notin ToSet(e[m])
  <2>1. \A n \in lost : n \in Nodes /\ node[n] # Free /\ \A m \in Lists : n \notin ToSet(c[m])
    BY DEF Chains
  <2>2. \A n \in lost : n \notin ToSet(a)  BY <2>1 DEF a
  <2>3. \A m \in Lists : ToSet(e[m]) \subseteq ToSet(c[m])  BY <1>9, <1>12
  <2>4. \A m \in Lists : m # l => Apart(a, c[m])  BY <1>1 DEF a
  <2>5. \A n \in ToSet(a), m \in Lists : n \notin ToSet(e[m])
    BY <1>9, <1>12, <2>4 DEF Apart
  <2> QED  BY <1>6, <1>7, <1>8, <2>1, <2>2, <2>3, <2>5
<1>16. \A n \in Nodes : node'[n] # Free =>
          n \in lost \cup ToSet(a) \/ \E m \in Lists : n \in ToSet(e[m])
  <2> SUFFICES ASSUME NEW n \in Nodes, node'[n] # Free, n \notin lost, n \notin ToSet(a)
               PROVE  \E m \in Lists : n \in ToSet(e[m])
    OBVIOUS
  <2>1. \E m \in Lists : n \in ToSet(c[m])  BY <1>7 DEF Chains
  <2> QED  BY <1>9, <2>1 DEF a
<1>17. Chains(e)'
  <2>1. lost' = lost \cup ToSet(a)  BY <1>2, <1>5
  <2> QED  BY <1>3, <1>7, <1>9, <1>13, <1>14, <1>15, <1>16, <2>1 DEF Chains
<1>18. Holding(e)' = [Holding(c) EXCEPT ![l] = <<>>]
  <2>1. Data(node', <<>>) = <<>>  BY DEF Data
  <2>2. \A m \in Lists : Data(node', e[m]) = IF m = l THEN <<>> ELSE Data(node, c[m])
    BY <1>9, <1>10, <2>1
  <2> QED  BY <2>2 DEF Holding
<1> QED  BY <1>17, <1>18 DEF Leads, Moves

-----------------------------------------------------------------------------
(* What each operation does to its list. *)

\* List l changes to the chain d, which holds `held`.
Altered(l, c, d, held) ==
    \E t : /\ Becomes(l, t) /\ Changes(Of(l), c[l], t, d)
           /\ d \in Seq(Nodes) /\ Data(t.node, d) = held

\* So the chains are those of before but for d, and so is what the lists hold.
LEMMA AlteredChains ==
    ASSUME NEW c, Chains(c), NEW l \in Lists, NEW d, NEW held, Altered(l, c, d, held),
           NEW e, e = [c EXCEPT ![l] = d]
    PROVE  Moves(c, e, l, held) /\ d \in Seq(Nodes)
<1>1. PICK t : /\ Becomes(l, t) /\ Changes(Of(l), c[l], t, d)
               /\ d \in Seq(Nodes) /\ Data(t.node, d) = held
  BY DEF Altered
<1>2. Moves(c, e, l, Data(t.node, d))
  BY <1>1, BecomesChains
<1> QED  BY <1>1, <1>2

\* A list in the program: its walk, and what it holds.
LEMMA ListIn ==
    ASSUME NEW c, Chains(c), NEW l \in Lists
    PROVE  /\ IsList(Of(l), c[l]) /\ Forward(l) = c[l] /\ Backward(l) = Reverse(c[l])
           /\ count[l] = Len(c[l]) /\ Len(c[l]) \in 0 .. NODES
           /\ Holding(c)[l] = Data(node, c[l]) /\ Len(Holding(c)[l]) = Len(c[l])
           /\ Holding(c)[l] \in Seq(Elems)
           /\ Of(l) \in ListStates
<1>1. IsList(Of(l), c[l]) /\ Of(l).node = node /\ Of(l).head = head[l]
      /\ Of(l).tail = tail[l] /\ Of(l).count = count[l]
  BY OfIs DEF Chains
<1>2. Forward(l) = c[l] /\ Backward(l) = Reverse(c[l])
  BY <1>1, WalksAre DEF Forward, Backward
<1>3. count[l] = Len(c[l])  BY <1>1 DEF IsList
<1>4. Len(c[l]) \in 0 .. NODES
  <2>1. c[l] \in Seq(Nodes) /\ \A i, j \in 1 .. Len(c[l]) : c[l][i] = c[l][j] => i = j
    BY <1>1 DEF IsList
  <2> QED  BY <2>1, ChainFits
<1>5. Holding(c)[l] = Data(node, c[l])  BY DEF Holding
<1>6. Data(node, c[l]) \in Seq(Elems) /\ Len(Data(node, c[l])) = Len(c[l])
  <2>1. Data(Of(l).node, c[l]) \in Seq(Elems) /\ Len(Data(Of(l).node, c[l])) = Len(c[l])
    BY <1>1, DataIs
  <2> QED  BY <1>1, <2>1
<1>7. Of(l) \in ListStates
  <2>1. [node |-> Of(l).node, head |-> Of(l).head, tail |-> Of(l).tail,
         count |-> Of(l).count] \in ListStates
    BY <1>1, ListState
  <2>2. Of(l) = [node |-> node, head |-> head[l], tail |-> tail[l], count |-> count[l]]
    BY DEF Of
  <2> QED  BY <1>1, <2>1, <2>2
<1> QED  BY <1>1, <1>2, <1>3, <1>4, <1>5, <1>6, <1>7

\* An insertion puts the element where it was asked to be.
LEMMA InsertSteps ==
    ASSUME NEW c, Chains(c), NEW l \in Lists, NEW index \in Nat, NEW e \in Elems,
           list_insert(l, index, e)
    PROVE  /\ index + 1 \in 1 .. Len(Holding(c)[l]) + 1
           /\ \E d : /\ Altered(l, c, d, InsertAt(Holding(c)[l], index + 1, e))
                     /\ OrderKept(c[l], d)
<1> DEFINE n == CHOOSE m \in FreeNodes : \A k \in FreeNodes : m <= k
           t == IF index = 0 THEN PushFront(l, n, e)
                ELSE IF index = count[l] THEN PushBack(l, n, e)
                ELSE InsertBetween(l, n, e, list_find_node(l, index))
           s == Of(l)
           a == c[l]
           p == index + 1
           d == InsertAt(a, p, n)
<1>1. FreeNodes # {} /\ index <= count[l] /\ Becomes(l, t)  BY DEF list_insert
<1>2. n \in Nodes /\ node[n] = Free
  <2>1. FreeNodes \subseteq Nat  BY DEF FreeNodes, Nodes
  <2>2. \E m \in FreeNodes : \A k \in FreeNodes : m <= k  BY <1>1, <2>1, HasLeast
  <2>3. n \in FreeNodes  BY <2>2
  <2> QED  BY <2>3 DEF FreeNodes
<1>3. /\ IsList(s, a) /\ count[l] = Len(a) /\ Len(a) \in Nat /\ s.node = node
      /\ Holding(c)[l] = Data(node, a) /\ Len(Holding(c)[l]) = Len(a)
  <2>1. IsList(s, a) /\ count[l] = Len(a) /\ Len(a) \in 0 .. NODES
        /\ Holding(c)[l] = Data(node, a) /\ Len(Holding(c)[l]) = Len(a)
    BY ListIn
  <2> QED  BY <2>1, OfIs
<1> HIDE DEF n
<1>4. Put(s, a, p, n, e, t)
  <2>1. /\ Put(s, a, 1, n, e, PushFront(l, n, e))
        /\ Put(s, a, Len(a) + 1, n, e, PushBack(l, n, e))
        /\ \A i \in 2 .. Len(a) : Put(s, a, i, n, e, InsertBetween(l, n, e, a[i]))
    BY <1>2, <1>3, InsertsPut
  <2>2. CASE index = 0
    <3>1. p = 1 /\ t = PushFront(l, n, e)  BY <2>2
    <3> HIDE DEF t, s, a, p
    <3> QED  BY <2>1, <3>1
  <2>3. CASE index # 0 /\ index = count[l]
    <3>1. p = Len(a) + 1 /\ t = PushBack(l, n, e)  BY <1>3, <2>3
    <3> HIDE DEF t, s, a, p
    <3> QED  BY <2>1, <3>1
  <2>4. CASE index # 0 /\ index # count[l]
    <3>1. p \in 2 .. Len(a) /\ index < count[l]  BY <1>1, <1>3, <2>4
    <3>2. list_find_node(l, index) = a[p]  BY <1>3, <3>1, FindIs
    <3>3. t = InsertBetween(l, n, e, a[p])  BY <2>4, <3>2
    <3> HIDE DEF t, s, a, p
    <3> QED  BY <2>1, <3>1, <3>3
  <2> QED  BY <2>2, <2>3, <2>4
<1>5. p \in 1 .. Len(a) + 1  BY <1>1, <1>3
<1> HIDE DEF t, s, a, p
<1>6. Changes(s, a, t, d) /\ OrderKept(a, d)
      /\ Data(t.node, d) = InsertAt(Data(s.node, a), p, e)
  BY <1>2, <1>3, <1>4, <1>5, PutIn
<1>7. d \in Seq(Nodes)  BY <1>6 DEF Changes, IsList
<1> HIDE DEF d
<1>8. Altered(l, c, d, InsertAt(Holding(c)[l], p, e))
  BY <1>1, <1>3, <1>6, <1>7 DEF Altered, s, a
<1> QED  BY <1>3, <1>5, <1>6, <1>8 DEF p, a

\* A list from which the node at place p was taken.
LEMMA TookSteps ==
    ASSUME NEW c, Chains(c), NEW l \in Lists, NEW p \in 1 .. Len(c[l]), NEW t,
           Took(Of(l), c[l], p, t), Becomes(l, t)
    PROVE  /\ p \in 1 .. Len(Holding(c)[l])
           /\ \E d : /\ Altered(l, c, d, RemoveAt(Holding(c)[l], p)) /\ OrderKept(c[l], d)
<1> DEFINE s == Of(l)
           a == c[l]
           d == RemoveAt(a, p)
<1>1. IsList(s, a) /\ s.node = node
      /\ Holding(c)[l] = Data(node, a) /\ Len(Holding(c)[l]) = Len(a)
  BY ListIn, OfIs
<1>2. Took(s, a, p, t) /\ p \in 1 .. Len(a)  OBVIOUS
<1> HIDE DEF s, a
<1>3. Changes(s, a, t, d) /\ OrderKept(a, d)
      /\ Data(t.node, d) = RemoveAt(Data(s.node, a), p)
  BY <1>1, <1>2, TakenOut
<1>4. d \in Seq(Nodes)  BY <1>3 DEF Changes, IsList
<1> HIDE DEF d
<1>5. Altered(l, c, d, RemoveAt(Holding(c)[l], p))
  BY <1>1, <1>3, <1>4 DEF Altered, s, a
<1> QED  BY <1>1, <1>2, <1>3, <1>5 DEF a

\* What list l becomes when the element at place p goes.
OneGoes(c, l, p) ==
    /\ p \in 1 .. Len(Holding(c)[l])
    /\ \E d : Altered(l, c, d, RemoveAt(Holding(c)[l], p)) /\ OrderKept(c[l], d)

\* Popping takes the first or the last element, removing the one at the index.
LEMMA RemoveSteps ==
    ASSUME NEW c, Chains(c), NEW l \in Lists
    PROVE  /\ list_pop_front(l) => OneGoes(c, l, 1)
           /\ list_pop_back(l) => OneGoes(c, l, count[l])
           /\ \A index \in Nat : list_remove(l, index) => OneGoes(c, l, index + 1)
<1> DEFINE a == c[l]
<1>1. /\ IsList(Of(l), a) /\ Len(a) \in 0 .. NODES /\ count[l] = Len(a)
      /\ Of(l).head = head[l] /\ Of(l).tail = tail[l]
  BY ListIn, OfIs
<1>2. Len(a) \in Nat /\ (head[l] # NULL => Len(a) # 0) /\ (tail[l] # NULL => Len(a) # 0)
  BY <1>1, EndsOf, NoNode
<1>3. ASSUME list_pop_front(l)  PROVE OneGoes(c, l, 1)
  <2>1. head[l] # NULL /\ Becomes(l, DropFirst(Of(l)))  BY <1>3 DEF list_pop_front
  <2>2. Len(a) # 0  BY <1>2, <2>1
  <2>3. Took(Of(l), a, 1, DropFirst(Of(l)))  BY <1>1, <2>2, DropTakes
  <2>4. 1 \in 1 .. Len(a)  BY <1>2, <2>2
  <2> QED  BY <2>1, <2>3, <2>4, TookSteps DEF OneGoes
<1>4. ASSUME list_pop_back(l)  PROVE OneGoes(c, l, count[l])
  <2>1. tail[l] # NULL /\ Becomes(l, DropLast(Of(l)))  BY <1>4 DEF list_pop_back
  <2>2. Len(a) # 0  BY <1>2, <2>1
  <2>3. Took(Of(l), a, Len(a), DropLast(Of(l)))  BY <1>1, <2>2, DropTakes
  <2>4. Len(a) \in 1 .. Len(a)  BY <1>2, <2>2
  <2>5. OneGoes(c, l, Len(a))  BY <2>1, <2>3, <2>4, TookSteps DEF OneGoes
  <2> QED  BY <1>1, <2>5
<1>5. ASSUME NEW index \in Nat, list_remove(l, index)  PROVE OneGoes(c, l, index + 1)
  <2>1. index < count[l] /\ Becomes(l, Unlink(Of(l), list_find_node(l, index)))
    BY <1>5 DEF list_remove
  <2> DEFINE p == index + 1
  <2>2. p \in 1 .. Len(a) /\ list_find_node(l, index) = a[p]  BY <1>1, <2>1, FindIs
  <2> HIDE DEF p
  <2>3. Took(Of(l), a, p, Unlink(Of(l), a[p]))  BY <1>1, <2>2, UnlinkTakes
  <2>4. Becomes(l, Unlink(Of(l), a[p]))  BY <2>1, <2>2
  <2>5. OneGoes(c, l, p)  BY <2>2, <2>3, <2>4, TookSteps DEF OneGoes
  <2> QED  BY <2>5 DEF p
<1> QED  BY <1>3, <1>4, <1>5

\* A list that lost some of its nodes.
LEMMA LosesSteps ==
    ASSUME NEW c, Chains(c), NEW l \in Lists, NEW t, NEW d \in Seq(Nodes),
           Loses(Of(l), c[l], t, d), Becomes(l, t)
    PROVE  Altered(l, c, d, Data(node, d)) /\ OrderKept(c[l], d)
<1>1. Changes(Of(l), c[l], t, d) /\ OrderKept(c[l], d)
      /\ \A m \in ToSet(d) : t.node[m].data = node[m].data
  BY OfIs DEF Loses
<1>2. Data(t.node, d) = Data(node, d)
  <2>1. \A i \in 1 .. Len(d) : d[i] \in ToSet(d)  BY DEF ToSet
  <2> QED  BY <1>1, <2>1 DEF Data
<1> QED  BY <1>1, <1>2 DEF Altered

\* Erasing the first n leaves the rest.
LEMMA EraseSteps ==
    ASSUME NEW c, Chains(c), NEW l \in Lists, NEW n \in Nat, list_erase_first_n(l, n),
           NEW h, h = Holding(c)[l]
    PROVE  \E d : /\ Altered(l, c, d, SubSeq(h, n + 1, Len(h)))
                  /\ OrderKept(c[l], d)
<1> DEFINE a == c[l]
           len == Len(a)
           t == FirstGone(Of(l), n)
           r == SubSeq(h, n + 1, Len(h))
<1>1. /\ IsList(Of(l), a) /\ len \in Nat /\ h = Data(node, a) /\ Len(h) = len
      /\ h \in Seq(Elems) /\ Of(l) \in ListStates
  <2>1. len \in 0 .. NODES  BY ListIn
  <2> QED  BY <2>1, ListIn
<1>2. Becomes(l, t)  BY Zenon DEF list_erase_first_n, FirstGone
<1> HIDE DEF t
<1>3. PICK d \in Seq(Nodes) :
         /\ Loses(Of(l), a, t, d)
         /\ Len(d) = IF n < len THEN len - n ELSE 0
         /\ \A j \in 1 .. Len(d) : d[j] = a[n + j]
  <2>1. \E d \in Seq(Nodes) : Loses(Of(l), a, FirstGone(Of(l), n), d) /\ RestOf(a, n, d)
    BY <1>1, FirstGoneIs
  <2> QED  BY <2>1 DEF t, RestOf
<1>4. Altered(l, c, d, Data(node, d)) /\ OrderKept(a, d)  BY <1>2, <1>3, LosesSteps
<1>5. h = [i \in 1 .. len |-> node[a[i]].data]  BY <1>1 DEF Data
<1> HIDE DEF a, len
<1>6. Data(node, d) = r
  <2> DEFINE f == Data(node, d)
             m == Len(d)
             p == n + 1
  <2>1. f = [j \in 1 .. m |-> node[d[j]].data] /\ m \in Nat  BY DEF Data
  <2>2. \A j \in 1 .. m : n + j \in 1 .. len /\ d[j] = a[n + j]  BY <1>1, <1>3
  <2>3. \A j \in 1 .. m : f[j] = h[n + j]  BY <1>5, <2>1, <2>2
  <2>4. f \in Seq(Elems) /\ Len(f) = m
    <3>1. \A j \in 1 .. m : h[n + j] \in Elems  BY <1>1, <2>2, ElementOfSeq
    <3>2. \A j \in 1 .. m : node[d[j]].data \in Elems
      <4>1. \A j \in 1 .. m : f[j] = node[d[j]].data  BY <2>1
      <4> QED  BY <2>3, <3>1, <4>1
    <3> QED  BY <2>1, <3>2
  <2>5. r \in Seq(Elems) /\ Len(r) = m /\ \A j \in 1 .. m : r[j] = h[n + j]
    <3>1. CASE n <= len
      <4>1. p \in Nat \ {0} /\ p <= len + 1 /\ len - p + 1 = m /\ r = SubSeq(h, p, len)
        BY <1>1, <1>3, <3>1
      <4>2. \A j \in 1 .. m : p + j - 1 = n + j  BY <2>1
      <4> HIDE DEF p, m, r
      <4>3. r \in Seq(Elems) /\ Len(r) = len - p + 1
            /\ \A j \in 1 .. len - p + 1 : r[j] = h[p + j - 1]
        BY <1>1, <4>1, Part
      <4> QED  BY <4>1, <4>2, <4>3
    <3>2. CASE ~(n <= len)
      <4>1. p \in Int /\ p > len /\ m = 0 /\ len \in Int /\ r = SubSeq(h, p, len)
        BY <1>1, <1>3, <3>2
      <4> HIDE DEF p, m, r
      <4>2. \A i \in p .. len : h[i] \in Elems  BY <4>1
      <4>3. r \in Seq(Elems) /\ Len(r) = IF p <= len THEN len - p + 1 ELSE 0
        BY <4>1, <4>2, SubSeqProperties
      <4> QED  BY <4>1, <4>3
    <3> QED  BY <1>1, <3>1, <3>2
  <2> HIDE DEF f, r, m
  <2>6. \A j \in 1 .. m : f[j] = r[j]  BY <2>3, <2>5
  <2>7. f = r  BY <2>4, <2>5, <2>6, SeqEqual
  <2> QED  BY <2>7 DEF f
<1> QED  BY <1>4, <1>6 DEF a

\* Removing every e leaves the others, in their order.
LEMMA IfSteps ==
    ASSUME NEW c, Chains(c), NEW l \in Lists, NEW e, list_remove_if(l, e),
           NEW h, h = Holding(c)[l]
    PROVE  \E d : Altered(l, c, d, Kept(h, e)) /\ OrderKept(c[l], d)
<1> DEFINE a == c[l]
           t == IfGone(Of(l), a, e)
<1>1. /\ IsList(Of(l), a) /\ h = Data(node, a) /\ Of(l) \in ListStates /\ Forward(l) = a
      /\ Of(l).node = node
  BY ListIn, OfIs
<1>2. Becomes(l, t)
  <2>1. Becomes(l, IfGone(Of(l), Forward(l), e))  BY Zenon DEF list_remove_if, IfGone
  <2> QED  BY <1>1, <2>1
<1> HIDE DEF t
<1>3. PICK d \in Seq(Nodes) : Loses(Of(l), a, t, d) /\ Data(node, d) = Kept(Data(node, a), e)
  <2>1. \E d \in Seq(Nodes) : Loses(Of(l), a, t, d)
                              /\ Data(Of(l).node, d) = Kept(Data(Of(l).node, a), e)
    BY <1>1, IfGoneIs DEF t
  <2> QED  BY <1>1, <2>1
<1>4. Altered(l, c, d, Data(node, d)) /\ OrderKept(a, d)  BY <1>2, <1>3, LosesSteps
<1> QED  BY <1>1, <1>3, <1>4

\* Removing the copies leaves the first of each run.
LEMMA UniqueSteps ==
    ASSUME NEW c, Chains(c), NEW l \in Lists, list_unique(l), NEW h, h = Holding(c)[l]
    PROVE  \E d : Altered(l, c, d, Firsts(h)) /\ OrderKept(c[l], d)
<1> DEFINE a == c[l]
           t == CopiesGone(Of(l), a)
<1>1. /\ IsList(Of(l), a) /\ h = Data(node, a) /\ Of(l) \in ListStates /\ Forward(l) = a
      /\ Of(l).node = node /\ count[l] = Len(a)
  BY ListIn, OfIs
<1>2. Becomes(l, t) /\ count[l] >= 2
  <2>1. Becomes(l, CopiesGone(Of(l), Forward(l))) /\ count[l] >= 2
    BY Zenon DEF list_unique, CopiesGone
  <2> QED  BY <1>1, <2>1
<1> HIDE DEF t
<1>3. PICK d \in Seq(Nodes) : Loses(Of(l), a, t, d) /\ Data(node, d) = Firsts(Data(node, a))
  <2>1. Len(a) # 0  BY <1>1, <1>2
  <2>2. \E d \in Seq(Nodes) : Loses(Of(l), a, t, d)
                              /\ Data(Of(l).node, d) = Firsts(Data(Of(l).node, a))
    BY <1>1, <2>1, CopiesGoneIs DEF t
  <2> QED  BY <1>1, <2>2
<1>4. Altered(l, c, d, Data(node, d)) /\ OrderKept(a, d)  BY <1>2, <1>3, LosesSteps
<1> QED  BY <1>1, <1>3, <1>4

\* Clearing leaves nothing.
LEMMA ClearSteps ==
    ASSUME NEW c, Chains(c), NEW l \in Lists, list_clear(l)
    PROVE  \E d : Altered(l, c, d, <<>>) /\ OrderKept(c[l], d)
<1> DEFINE a == c[l]
           mine == ToSet(a)
           t == Emptied([n \in Nodes |-> IF n \in mine THEN Free ELSE node[n]])
           none == <<>>
<1>1. IsList(Of(l), a) /\ Forward(l) = a /\ Of(l).node = node  BY ListIn, OfIs
<1>2. Becomes(l, t)
  <2>1. Becomes(l, Emptied([n \in Nodes |-> IF n \in ToSet(Forward(l)) THEN Free ELSE node[n]]))
    BY DEF list_clear
  <2> QED  BY <1>1, <2>1
<1>3. Loses(Of(l), a, t, none)
  <2>1. t = Emptied([n \in Nodes |-> IF n \in mine THEN Free ELSE Of(l).node[n]])  BY <1>1
  <2> HIDE DEF t
  <2> QED  BY <1>1, <2>1, EmptiedIs
<1>4. none \in Seq(Nodes) /\ Data(node, none) = <<>>  BY DEF Data
<1> HIDE DEF t, none
<1>5. Altered(l, c, none, Data(node, none)) /\ OrderKept(a, none)
  BY <1>2, <1>3, <1>4, LosesSteps
<1> QED  BY <1>4, <1>5

\* Setting replaces one element.
LEMMA SetSteps ==
    ASSUME NEW c, Chains(c), NEW l \in Lists, NEW index \in Nat, NEW e \in Elems,
           list_set(l, index, e), NEW h, h = Holding(c)[l]
    PROVE  /\ index + 1 \in 1 .. Len(h)
           /\ \E d : Altered(l, c, d, ReplaceAt(h, index + 1, e)) /\ OrderKept(c[l], d)
<1> DEFINE a == c[l]
           s == Of(l)
           p == index + 1
           n == list_find_node(l, index)
           t == [Of(l) EXCEPT !.node = SetData(node, n, e)]
<1>1. /\ IsList(s, a) /\ h = Data(node, a) /\ s.node = node /\ a \in Seq(Nodes)
      /\ Len(h) = Len(a)
  <2>1. IsList(s, a) /\ h = Data(node, a) /\ s.node = node /\ Len(h) = Len(a)  BY ListIn, OfIs
  <2> QED  BY <2>1 DEF IsList
<1>2. index < count[l] /\ Becomes(l, t)  BY DEF list_set
<1>3. p \in 1 .. Len(a) /\ n = a[p]  BY <1>1, <1>2, FindIs
<1>4. /\ t.node = SetData(node, n, e) /\ t.head = s.head /\ t.tail = s.tail /\ t.count = s.count
  <2> HIDE DEF n
  <2> QED  BY DEF Of
<1> HIDE DEF t, s, n, p
<1>5. Changes(s, a, t, a) /\ Data(t.node, a) = ReplaceAt(Data(s.node, a), p, e)
  BY <1>1, <1>3, <1>4, SetIn
<1>6. Altered(l, c, a, ReplaceAt(h, p, e))
  BY <1>1, <1>2, <1>5 DEF Altered, s
<1>7. OrderKept(a, a)  BY DEF OrderKept
<1> QED  BY <1>1, <1>3, <1>6, <1>7 DEF p

\* Reversing turns the elements round, and keeps the nodes.
LEMMA ReverseSteps ==
    ASSUME NEW c, Chains(c), NEW l \in Lists, list_reverse(l), NEW h, h = Holding(c)[l]
    PROVE  Altered(l, c, Reverse(c[l]), Reverse(h))
<1> DEFINE a == c[l]
           s == Of(l)
           mine == ToSet(a)
           t == [node |-> Flipped(node, mine), head |-> tail[l], tail |-> head[l],
                 count |-> count[l]]
           d == Reverse(a)
<1>1. /\ IsList(s, a) /\ h = Data(node, a) /\ Forward(l) = a
      /\ s.node = node /\ s.head = head[l] /\ s.tail = tail[l] /\ s.count = count[l]
  BY ListIn, OfIs
<1>2. Becomes(l, t)
  <2>1. Becomes(l, [node |-> Flipped(node, ToSet(Forward(l))),
                    head |-> tail[l], tail |-> head[l], count |-> count[l]])
    BY DEF list_reverse
  <2> QED  BY <1>1, <2>1
<1>3. /\ t.node = Flipped(s.node, mine) /\ t.head = s.tail /\ t.tail = s.head
      /\ t.count = s.count
  BY <1>1
<1> HIDE DEF t, s
<1>4. /\ Changes(s, a, t, Reverse(a))
      /\ Data(t.node, Reverse(a)) = Reverse(Data(s.node, a))
  BY <1>1, <1>3, Turned
<1>5. d \in Seq(Nodes)  BY <1>4 DEF Changes, IsList
<1> HIDE DEF d
<1>6. Altered(l, c, d, Reverse(h))
  <2>1. Changes(s, a, t, d) /\ Data(t.node, d) = Reverse(h)  BY <1>1, <1>4 DEF d
  <2> QED  BY <1>2, <1>5, <2>1 DEF Altered, s
<1> QED  BY <1>6 DEF d

-----------------------------------------------------------------------------
(* The iterator: what it has passed is before it, what it owes behind it. *)

\* The iterator stands on a node of the chain a.
On(a) ==
    /\ it.current \in ToSet(a)
    /\ \A n \in owed : Before(a, it.current, n)
    /\ \A n \in passed : n = it.current \/ Before(a, n, it.current)

Follows(c) ==
    /\ it \in [current : Links, index : 0 .. MaxIndex]
    /\ owed \subseteq Nodes /\ passed \subseteq Nodes /\ stale \in BOOLEAN
    /\ ~stale /\ it.current # NULL => \E l \in Lists : On(c[l])

FollowsThen(c) == Follows(c)'

\* What the list of the iterator loses, it neither owes nor has passed.
LEMMA FollowsAltered ==
    ASSUME NEW c, Chains(c), Follows(c), NEW l \in Lists, NEW d, NEW held,
           Altered(l, c, d, held), OrderKept(c[l], d), Watched,
           NEW e, e = [c EXCEPT ![l] = d]
    PROVE  FollowsThen(e)
<1>1. PICK t : Becomes(l, t) /\ Changes(Of(l), c[l], t, d)  BY DEF Altered
<1>2. /\ it' = it /\ node' = t.node
      /\ \A m \in ToSet(c[l]) : m \notin ToSet(d) => node'[m] = Free
  BY <1>1 DEF Becomes, Changes
<1>3. /\ owed' = owed \ Freed(node') /\ passed' = passed \ Freed(node')
      /\ stale' = (stale \/ (it.current # NULL /\ node'[it.current] = Free))
  BY DEF Watched
<1>4. c \in [Lists -> Seq(Nodes)] /\ e[l] = d /\ \A k \in Lists : k # l => e[k] = c[k]
  BY DEF Chains
<1>5. /\ it' \in [current : Links, index : 0 .. MaxIndex]
      /\ owed' \subseteq Nodes /\ passed' \subseteq Nodes /\ stale' \in BOOLEAN
  BY <1>2, <1>3 DEF Follows
<1>6. ASSUME ~stale', it'.current # NULL  PROVE \E k \in Lists : On(e[k])'
  <2>1. ~stale /\ node'[it.current] # Free /\ it.current # NULL
    BY <1>2, <1>3, <1>6 DEF Follows
  <2>2. PICK k \in Lists : On(c[k])  BY <2>1 DEF Follows
  <2> DEFINE a == c[k]
             b == e[k]
  <2>3. it.current \in ToSet(a) /\ (\A n \in owed : Before(a, it.current, n))
        /\ \A n \in passed : n = it.current \/ Before(a, n, it.current)
    BY <2>2 DEF On
  <2>4. \A n \in Nodes : n \in Freed(node') <=> node'[n] = Free  BY DEF Freed
  <2>5. /\ it.current \in ToSet(b)
        /\ \A n \in owed' : Before(b, it.current, n)
        /\ \A n \in passed' : n = it.current \/ Before(b, n, it.current)
    <3>1. CASE k # l
      <4>1. b = a  BY <1>4, <3>1
      <4> HIDE DEF a, b
      <4> QED  BY <1>3, <2>3, <4>1
    <3>2. CASE k = l
      <4>1. /\ b = d /\ OrderKept(a, d)
            /\ \A m \in ToSet(a) : m \notin ToSet(d) => node'[m] = Free
        BY <1>2, <1>4, <3>2
      <4>2. a \in Seq(Nodes)  BY <1>4
      <4>3. \A m, n : Before(a, m, n) => m \in ToSet(a) /\ n \in ToSet(a)
        BY <4>2 DEF Before, ToSet
      <4>4. \A n \in Nodes : (n \in owed' => n \in owed /\ node'[n] # Free)
                             /\ (n \in passed' => n \in passed /\ node'[n] # Free)
        BY <1>3, <2>4
      <4>5. \A m, n \in ToSet(d) : Before(a, m, n) => Before(d, m, n)
        BY <4>1 DEF OrderKept
      <4> HIDE DEF a, b
      <4>6. it.current \in ToSet(d)  BY <2>1, <2>3, <4>1
      <4>7. ASSUME NEW n \in owed'  PROVE Before(d, it.current, n)
        <5>1. n \in owed /\ node'[n] # Free  BY <1>5, <4>4, <4>7
        <5>2. Before(a, it.current, n)  BY <2>3, <5>1
        <5>3. n \in ToSet(d)  BY <4>1, <4>3, <5>1, <5>2
        <5> QED  BY <4>5, <4>6, <5>2, <5>3
      <4>8. ASSUME NEW n \in passed', n # it.current  PROVE Before(d, n, it.current)
        <5>1. n \in passed /\ node'[n] # Free  BY <1>5, <4>4, <4>8
        <5>2. Before(a, n, it.current)  BY <2>3, <4>8, <5>1
        <5>3. n \in ToSet(d)  BY <4>1, <4>3, <5>1, <5>2
        <5> QED  BY <4>5, <4>6, <5>2, <5>3
      <4> QED  BY <4>1, <4>6, <4>7, <4>8
    <3> QED  BY <3>1, <3>2
  <2>6. On(b)'  BY <1>2, <2>5 DEF On
  <2> QED  BY <2>6
<1> QED  BY <1>5, <1>6 DEF FollowsThen, Follows

\* One chain behind another keeps the order of both.
LEMMA OrderBehind ==
    ASSUME NEW a \in Seq(Nodes), NEW b \in Seq(Nodes), NEW d, Behind(a, b, d)
    PROVE  /\ \A m \in ToSet(a) \cup ToSet(b) : m \in ToSet(d)
           /\ \A m, n : Before(a, m, n) \/ Before(b, m, n) => Before(d, m, n)
<1>1. /\ Len(a) \in Nat /\ Len(b) \in Nat /\ Len(d) = Len(a) + Len(b) /\ d \in Seq(Nodes)
      /\ \A i \in 1 .. Len(a) : d[i] = a[i]
      /\ \A i \in 1 .. Len(b) : d[Len(a) + i] = b[i]
  BY DEF Behind
<1>2. /\ ToSet(a) = {a[i] : i \in 1 .. Len(a)} /\ ToSet(b) = {b[i] : i \in 1 .. Len(b)}
      /\ ToSet(d) = {d[i] : i \in 1 .. Len(d)}
  <2>1. \A x \in Seq(Nodes) : ToSet(x) = {x[i] : i \in 1 .. Len(x)}  BY DEF ToSet
  <2>2. d \in Seq(Nodes)  BY <1>1
  <2> QED  BY <2>1, <2>2
<1> DEFINE p == Len(a)
           q == Len(b)
           r == Len(d)
<1>a. p = Len(a) /\ q = Len(b) /\ r = Len(d)  OBVIOUS
<1> HIDE DEF p, q, r
<1>3. \A m \in ToSet(a) \cup ToSet(b) : m \in ToSet(d)
  <2>1. \A i \in 1 .. p : i \in 1 .. r  BY <1>1, <1>a
  <2>2. \A i \in 1 .. q : p + i \in 1 .. r  BY <1>1, <1>a
  <2>3. \A i \in 1 .. p : a[i] \in ToSet(d)  BY <1>1, <1>2, <1>a, <2>1
  <2>4. \A i \in 1 .. q : b[i] \in ToSet(d)
    <3> SUFFICES ASSUME NEW i \in 1 .. q  PROVE b[i] \in ToSet(d)  OBVIOUS
    <3> DEFINE j == p + i
    <3>1. j \in 1 .. r /\ d[j] = b[i]  BY <1>1, <1>a, <2>2
    <3> HIDE DEF j
    <3> QED  BY <1>2, <1>a, <3>1
  <2> QED  BY <1>2, <1>a, <2>3, <2>4
<1>4. \A m, n : Before(a, m, n) => Before(d, m, n)
  <2> SUFFICES ASSUME NEW m, NEW n, Before(a, m, n)  PROVE Before(d, m, n)  OBVIOUS
  <2>1. PICK i \in 1 .. p, j \in 1 .. p : i < j /\ a[i] = m /\ a[j] = n
    BY DEF Before, p, q, r
  <2>2. i \in 1 .. r /\ j \in 1 .. r /\ d[i] = m /\ d[j] = n  BY <1>1, <1>a, <2>1
  <2> QED  BY <2>1, <2>2 DEF Before, p, q, r
<1>5. \A m, n : Before(b, m, n) => Before(d, m, n)
  <2> SUFFICES ASSUME NEW m, NEW n, Before(b, m, n)  PROVE Before(d, m, n)  OBVIOUS
  <2>1. PICK i \in 1 .. q, j \in 1 .. q : i < j /\ b[i] = m /\ b[j] = n
    BY DEF Before, p, q, r
  <2> DEFINE x == p + i
             y == p + j
  <2>2. x \in 1 .. r /\ y \in 1 .. r /\ x < y /\ d[x] = m /\ d[y] = n
    BY <1>1, <1>a, <2>1
  <2> HIDE DEF x, y
  <2> QED  BY <2>2 DEF Before, p, q, r
<1> QED  BY <1>3, <1>4, <1>5

\* An iterator whose node is in one of two merged lists has the same nodes behind it,
\* and before it.
LEMMA FollowsMerged ==
    ASSUME NEW c, Chains(c), Follows(c), NEW l \in Lists, NEW k \in Lists, l # k,
           list_merge(l, k), NEW d, d = c[l] \o c[k],
           NEW e, e = [c EXCEPT ![l] = d, ![k] = <<>>]
    PROVE  FollowsThen(e)
<1>1. it' = it /\ owed' = owed /\ passed' = passed /\ stale' = stale
  BY DEF list_merge, Follows
<1>2. c \in [Lists -> Seq(Nodes)]  BY DEF Chains
<1>3. e[l] = d /\ \A m \in Lists : m # l /\ m # k => e[m] = c[m]  BY <1>2
<1> DEFINE a == c[l]
           b == c[k]
<1>4. a \in Seq(Nodes) /\ b \in Seq(Nodes) /\ d = a \o b  BY <1>2
<1> HIDE DEF a, b
<1>5. Behind(a, b, d)  BY <1>4, AtBehind
<1>6. /\ \A m \in ToSet(a) \cup ToSet(b) : m \in ToSet(d)
      /\ \A m, n : Before(a, m, n) \/ Before(b, m, n) => Before(d, m, n)
  BY <1>4, <1>5, OrderBehind
<1>11. On(a) => On(d)  BY <1>6 DEF On
<1>12. On(b) => On(d)  BY <1>6 DEF On
<1>14. ASSUME ~stale, it.current # NULL  PROVE \E m \in Lists : On(e[m])'
  <2>1. PICK m \in Lists : On(c[m])  BY <1>14 DEF Follows
  <2>2. CASE m = l \/ m = k
    <3>1. On(d)  BY <1>11, <1>12, <2>1, <2>2 DEF a, b
    <3>2. On(d)'  BY <1>1, <3>1 DEF On
    <3> QED  BY <1>3, <3>2
  <2>3. CASE m # l /\ m # k
    <3>1. e[m] = c[m]  BY <1>3, <2>3
    <3>2. On(e[m])  BY <2>1, <3>1
    <3>3. On(e[m])'  BY <1>1, <3>2 DEF On
    <3> QED  BY <3>3
  <2> QED  BY <2>2, <2>3
<1> QED  BY <1>1, <1>14 DEF FollowsThen, Follows

\* When the order turns, or a list is merged with itself, the iterator is stale or at its end.
LEMMA FollowsNone ==
    ASSUME NEW c, Follows(c), it' = it, owed' = owed, passed' = passed,
           stale' = (stale \/ it.current # NULL), NEW e
    PROVE  FollowsThen(e)
  BY DEF FollowsThen, Follows

\* A new iterator stands on the first node and owes all the others.
LEMMA FollowsNew ==
    ASSUME NEW c, Chains(c), NEW l \in Lists, list_iterator(l)
    PROVE  FollowsThen(c)
<1> DEFINE a == c[l]
           len == Len(a)
<1>1. /\ it' = [current |-> head[l], index |-> 0]
      /\ passed' = {head[l]} \ {NULL}
      /\ owed' = ToSet(Forward(l)) \ {head[l]}
      /\ stale' = FALSE
  BY DEF list_iterator
<1>2. IsList(Of(l), a) /\ Forward(l) = a /\ Of(l).head = head[l]  BY ListIn, OfIs
<1>3. /\ len \in Nat /\ ToSet(a) = {a[j] : j \in 1 .. len}
      /\ \A j \in 1 .. len : a[j] \in Nodes /\ a[j] # NULL /\ At(a, j) = a[j]
  BY <1>2, AtOnce
<1>4. head[l] = At(a, 1)  BY <1>2 DEF IsList
<1> HIDE DEF a, len
<1>5. CASE len = 0
  <2>1. head[l] = NULL  BY <1>4, <1>5 DEF At, len
  <2>2. ToSet(a) = {}  BY <1>3, <1>5
  <2>3. passed' = {} /\ owed' = {}  BY <1>1, <1>2, <2>1, <2>2 DEF a
  <2>4. it' \in [current : Links, index : 0 .. MaxIndex] /\ it'.current = NULL
    BY <1>1, <2>1, NoNode, SizesAssumption
  <2> QED  BY <1>1, <2>3, <2>4 DEF FollowsThen, Follows
<1>6. CASE len # 0
  <2>1. 1 \in 1 .. len  BY <1>3, <1>6
  <2>2. head[l] = a[1] /\ a[1] \in Nodes /\ a[1] \in ToSet(a)  BY <1>3, <1>4, <2>1
  <2>3. ASSUME NEW n \in ToSet(a), n # a[1]  PROVE Before(a, a[1], n)
    <3>1. PICK j \in 1 .. len : n = a[j]  BY <1>3
    <3>2. 1 < j  BY <2>3, <3>1
    <3> QED  BY <2>1, <3>1, <3>2 DEF Before, len
  <2>4. /\ it'.current = a[1] /\ owed' = ToSet(a) \ {a[1]} /\ passed' \subseteq {a[1]}
    BY <1>1, <1>2, <2>2
  <2>5. On(a)'  BY <2>2, <2>3, <2>4 DEF On
  <2>6. it' \in [current : Links, index : 0 .. MaxIndex]
    BY <1>1, <2>2, NoNode, SizesAssumption
  <2>7. ToSet(a) \subseteq Nodes  BY <1>3
  <2> QED  BY <1>1, <2>2, <2>4, <2>5, <2>6, <2>7 DEF FollowsThen, Follows, a
<1> QED  BY <1>5, <1>6

\* Each step goes to the next node, which was not passed; at the end nothing is owed.
LEMMA FollowsOn ==
    ASSUME NEW c, Chains(c), Follows(c), list_iterator_next
    PROVE  /\ FollowsThen(c)
           /\ ~stale => it'.current \notin passed /\ (it'.current = NULL => owed = {})
<1>1. /\ it.current # NULL /\ it.index < MaxIndex /\ stale' = stale
      /\ \E n \in IF node[it.current] # Free THEN {node[it.current].next} ELSE Nodes \cup {NULL} :
            /\ it' = [current |-> n, index |-> it.index + 1]
            /\ passed' = (passed \cup {n}) \ {NULL}
            /\ owed' = owed \ {n}
  BY DEF list_iterator_next
<1>2. /\ it \in [current : Links, index : 0 .. MaxIndex]
      /\ owed \subseteq Nodes /\ passed \subseteq Nodes /\ stale \in BOOLEAN
      /\ it.current \in Nodes
  <2>1. it.current \in Links  BY DEF Follows
  <2> QED  BY <1>1, <2>1 DEF Follows, Links
<1>3. PICK n \in Links :
         /\ node[it.current] # Free => n = node[it.current].next
         /\ it' = [current |-> n, index |-> it.index + 1]
         /\ passed' = (passed \cup {n}) \ {NULL} /\ owed' = owed \ {n}
  <2>1. node \in Heaps  BY DEF Chains
  <2>2. node[it.current].next \in Links  BY <1>2, <2>1, NodeIs
  <2> QED  BY <1>1, <2>2 DEF Links
<1>4. /\ it' \in [current : Links, index : 0 .. MaxIndex]
      /\ owed' \subseteq Nodes /\ passed' \subseteq Nodes /\ stale' \in BOOLEAN
      /\ it'.current = n
  <2>1. it.index + 1 \in 0 .. MaxIndex  BY <1>1, <1>2, SizesAssumption
  <2>2. \A m \in Links : m # NULL => m \in Nodes  BY DEF Links
  <2> QED  BY <1>1, <1>2, <1>3, <2>1, <2>2
<1>5. ASSUME ~stale
      PROVE  /\ n \notin passed /\ (n = NULL => owed = {})
             /\ n # NULL => \E l \in Lists : On(c[l])'
  <2>1. PICK l \in Lists : On(c[l])  BY <1>1, <1>5 DEF Follows
  <2> DEFINE a == c[l]
             len == Len(a)
             now == it.current
  <2>2. /\ now \in ToSet(a) /\ (\A m \in owed : Before(a, now, m))
        /\ \A m \in passed : m = now \/ Before(a, m, now)
    BY <2>1 DEF On
  <2>3. IsList(Of(l), a) /\ Of(l).node = node  BY OfIs DEF Chains
  <2>4. /\ len \in Nat /\ ToSet(a) = {a[j] : j \in 1 .. len}
        /\ \A j \in 1 .. len : a[j] \in Nodes /\ a[j] # NULL /\ At(a, j) = a[j]
    BY <2>3, AtOnce
  <2>5. /\ \A i, j \in 1 .. len : a[i] = a[j] => i = j
        /\ \A i \in 1 .. len : node[a[i]].next = At(a, i + 1)
    BY <2>3 DEF IsList
  <2>6. node[now] # Free  BY <2>2, <2>3, ChainInUse
  <2>7. n = node[now].next  BY <1>3, <2>6
  <2> HIDE DEF a, now
  <2>8. PICK i \in 1 .. len : now = a[i]  BY <2>2, <2>4
  <2>9. n = At(a, i + 1)  BY <2>5, <2>7, <2>8
  <2>10. \A m \in owed : \E j \in 1 .. len : i < j /\ m = a[j]
    <3> SUFFICES ASSUME NEW m \in owed  PROVE \E j \in 1 .. len : i < j /\ m = a[j]
      OBVIOUS
    <3>1. Before(a, now, m)  BY <2>2
    <3>2. PICK x \in 1 .. len, y \in 1 .. len : x < y /\ a[x] = now /\ a[y] = m
      BY <3>1 DEF Before
    <3>3. x = i  BY <2>5, <2>8, <3>2
    <3> QED  BY <3>2, <3>3
  <2>11. \A m \in passed : \E j \in 1 .. len : j <= i /\ m = a[j]
    <3> SUFFICES ASSUME NEW m \in passed  PROVE \E j \in 1 .. len : j <= i /\ m = a[j]
      OBVIOUS
    <3>1. CASE m = now  BY <2>8, <3>1
    <3>2. CASE m # now
      <4>1. Before(a, m, now)  BY <2>2, <3>2
      <4>2. PICK x \in 1 .. len, y \in 1 .. len : x < y /\ a[x] = m /\ a[y] = now
        BY <4>1 DEF Before
      <4>3. y = i  BY <2>5, <2>8, <4>2
      <4> QED  BY <4>2, <4>3
    <3> QED  BY <3>1, <3>2
  <2> HIDE DEF len
  <2>12. CASE i = len
    <3>1. n = NULL
      <4>1. i + 1 \notin 1 .. len  BY <2>4, <2>12
      <4> QED  BY <2>9, <4>1 DEF At, len
    <3>2. owed = {}
      <4>1. \A j \in 1 .. len : ~(i < j)  BY <2>4, <2>12
      <4> QED  BY <2>10, <4>1
    <3>3. NULL \notin passed  BY <1>2, NoNode
    <3> QED  BY <3>1, <3>2, <3>3
  <2>13. CASE i # len
    <3> DEFINE j == i + 1
    <3>1. j \in 1 .. len /\ i < j /\ \A x \in 1 .. len : x <= i => x # j  BY <2>4, <2>13
    <3>a. n = At(a, j)  BY <2>9
    <3> HIDE DEF j
    <3>2. n = a[j] /\ n # NULL /\ n \in ToSet(a)  BY <2>4, <3>1, <3>a
    <3>3. n \notin passed
      <4> SUFFICES ASSUME n \in passed  PROVE FALSE  OBVIOUS
      <4>1. PICK x \in 1 .. len : x <= i /\ n = a[x]  BY <2>11
      <4>2. x = j  BY <2>5, <3>1, <3>2, <4>1
      <4> QED  BY <3>1, <4>1, <4>2
    <3>4. ASSUME NEW m \in owed, m # n  PROVE Before(a, n, m)
      <4>1. PICK x \in 1 .. len : i < x /\ m = a[x]  BY <2>10
      <4>2. x # j  BY <3>2, <3>4, <4>1
      <4>3. j < x  BY <2>4, <4>1, <4>2 DEF j
      <4> QED  BY <3>1, <3>2, <4>1, <4>3 DEF Before, len
    <3>5. ASSUME NEW m \in passed  PROVE Before(a, m, n)
      <4>1. PICK x \in 1 .. len : x <= i /\ m = a[x]  BY <2>11
      <4>2. x < j  BY <2>4, <3>1, <4>1
      <4> QED  BY <3>1, <3>2, <4>1, <4>2 DEF Before, len
    <3>6. On(a)'
      <4>1. /\ it'.current = n
            /\ \A m \in owed' : m \in owed /\ m # n
            /\ \A m \in passed' : m \in passed \/ m = n
        BY <1>3, <1>4
      <4> QED  BY <3>2, <3>4, <3>5, <4>1 DEF On
    <3> QED  BY <3>2, <3>3, <3>6 DEF a
  <2> QED  BY <2>12, <2>13
<1> QED  BY <1>1, <1>4, <1>5 DEF FollowsThen, Follows

-----------------------------------------------------------------------------
(* The lists as ordered containers. *)

\* What the lists show of themselves.
Shown == [l \in Lists |-> Contents(l)]

ListsOK == \E c : Chains(c) /\ Follows(c)

\* That is what is read along their chains.
LEMMA ShownIs ==
    ASSUME NEW c, Chains(c)
    PROVE  Shown = Holding(c)
<1>1. ASSUME NEW l \in Lists  PROVE Contents(l) = Data(node, c[l])
  <2>1. Forward(l) = c[l] /\ IsList(Of(l), c[l])  BY ListIn
  <2>2. DOMAIN c[l] = 1 .. Len(c[l])
    <3>1. c[l] \in Seq(Nodes)  BY <2>1 DEF IsList
    <3> QED  BY <3>1
  <2> QED  BY <2>1, <2>2 DEF Contents, Data
<1> QED  BY <1>1 DEF Shown, Holding

\* In the state that a step leads to as well.
LEMMA ShownThen ==
    ASSUME NEW c
    PROVE  Chains(c)' => Shown' = Holding(c)'
<1>1. Chains(c) => Shown = Holding(c)  BY ShownIs
<1>2. (Chains(c) => Shown = Holding(c))'  BY <1>1, PTL
<1> QED  BY <1>2

\* Each operation of the containers, by what it does to one of them.
LEMMA OperationsAre ==
    ASSUME NEW l \in Lists, NEW held, Shown' = [Shown EXCEPT ![l] = held]
    PROVE  /\ \A i, e : held = InsertAt(Shown[l], i, e) => Container!InsertBefore(l, i, e)
           /\ \A i : held = RemoveAt(Shown[l], i) => Container!Erase(l, i)
           /\ \A n : held = SubSeq(Shown[l], n + 1, Len(Shown[l])) => Container!EraseFirst(l, n)
           /\ \A i, e : held = ReplaceAt(Shown[l], i, e) => Container!Replace(l, i, e)
           /\ \A e : held = Kept(Shown[l], e) => Container!EraseAll(l, e)
           /\ held = Reverse(Shown[l]) => Container!Turn(l)
           /\ held = Firsts(Shown[l]) => Container!Unique(l)
           /\ held = <<>> => Container!Clear(l)
<1> USE DEF Shown, Container!Holds
<1>1. ASSUME NEW i, NEW e, held = InsertAt(Shown[l], i, e)  PROVE Container!InsertBefore(l, i, e)
  <2>1. Container!InsertAt(Shown[l], i, e) = held
    BY <1>1 DEF Container!InsertAt, InsertAt
  <2> QED  BY <2>1 DEF Container!InsertBefore
<1>2. \A i : held = RemoveAt(Shown[l], i) => Container!Erase(l, i)
  BY Zenon DEF Container!Erase, Container!RemoveAt, RemoveAt
<1>3. \A n : held = SubSeq(Shown[l], n + 1, Len(Shown[l])) => Container!EraseFirst(l, n)
  BY Zenon DEF Container!EraseFirst
<1>4. ASSUME NEW i, NEW e, held = ReplaceAt(Shown[l], i, e)  PROVE Container!Replace(l, i, e)
  <2>1. Container!ReplaceAt(Shown[l], i, e) = held
    BY <1>4 DEF Container!ReplaceAt, ReplaceAt
  <2> QED  BY <2>1 DEF Container!Replace
<1>5. \A e : held = Kept(Shown[l], e) => Container!EraseAll(l, e)
  BY Zenon DEF Container!EraseAll, Kept
<1>6. held = Reverse(Shown[l]) => Container!Turn(l)
  BY Zenon DEF Container!Turn, Container!Reverse, Reverse
<1>7. held = Firsts(Shown[l]) => Container!Unique(l)
  BY Zenon DEF Container!Unique, Firsts
<1>8. held = <<>> => Container!Clear(l)
  BY Zenon DEF Container!Clear
<1> QED  BY <1>1, <1>2, <1>3, <1>4, <1>5, <1>6, <1>7, <1>8

\* A list that alters in one of the containers' ways goes on well.
LEMMA AlteredGoesOn ==
    ASSUME NEW c, Chains(c), Follows(c), NEW l \in Lists, NEW d, NEW held,
           Altered(l, c, d, held),
           \A e : e = [c EXCEPT ![l] = d] => FollowsThen(e)
    PROVE  ListsOK' /\ Shown' = [Shown EXCEPT ![l] = held]
<1> DEFINE e == [c EXCEPT ![l] = d]
<1>1. Moves(c, e, l, held)  BY AlteredChains
<1>2. FollowsThen(e)  OBVIOUS
<1> HIDE DEF e
<1>3. Chains(e)' /\ Holding(e)' = [Holding(c) EXCEPT ![l] = held]
  BY <1>1 DEF Moves, Leads
<1>4. Follows(e)'  BY <1>2 DEF FollowsThen
<1>5. Shown = Holding(c) /\ Shown' = Holding(e)'  BY <1>3, ShownIs, ShownThen
<1> QED  BY <1>3, <1>4, <1>5 DEF ListsOK

\* So does one that is watched and keeps its order.
LEMMA WatchedGoesOn ==
    ASSUME NEW c, Chains(c), Follows(c), NEW l \in Lists, NEW d, NEW held,
           Altered(l, c, d, held), OrderKept(c[l], d), Watched
    PROVE  ListsOK' /\ Shown' = [Shown EXCEPT ![l] = held]
<1>1. \A e : e = [c EXCEPT ![l] = d] => FollowsThen(e)  BY FollowsAltered
<1> QED  BY <1>1, AlteredGoesOn

\* A merge puts the elements of the second list behind those of the first; a list merged
\* with itself is left empty.
LEMMA MergeActs ==
    ASSUME ListsOK, NEW l \in Lists, NEW k \in Lists, list_merge(l, k)
    PROVE  /\ ListsOK'
           /\ IF l = k THEN Container!Clear(l) ELSE Container!Merge(l, k)
<1>1. PICK c : Chains(c) /\ Follows(c)  BY DEF ListsOK
<1>0. Shown = Holding(c)  BY <1>1, ShownIs
<1>2. CASE l # k
  <2> DEFINE d == c[l] \o c[k]
             e == [c EXCEPT ![l] = d, ![k] = <<>>]
             h == [Holding(c) EXCEPT ![l] = Holding(c)[l] \o Holding(c)[k], ![k] = <<>>]
  <2>1. Leads(e, h)  BY <1>1, <1>2, MergeChains
  <2>2. FollowsThen(e)  BY <1>1, <1>2, FollowsMerged
  <2> HIDE DEF e
  <2>3. Chains(e)' /\ Holding(e)' = h /\ Follows(e)'  BY <2>1, <2>2 DEF Leads, FollowsThen
  <2>4. Shown' = [Shown EXCEPT ![l] = Shown[l] \o Shown[k], ![k] = <<>>]
    BY <1>0, <2>3, ShownThen
  <2>5. Container!Merge(l, k)  BY <1>2, <2>4 DEF Container!Merge, Shown
  <2>6. ListsOK'  BY <2>3 DEF ListsOK
  <2> QED  BY <1>2, <2>5, <2>6
<1>3. CASE l = k
  <2> DEFINE e == [c EXCEPT ![l] = <<>>]
  <2>1. list_merge(l, l)  BY <1>3
  <2>2. Moves(c, e, l, <<>>)  BY <1>1, <2>1, MergeSelf
  <2>3. it' = it /\ owed' = owed /\ passed' = passed /\ stale' = (stale \/ it.current # NULL)
    BY <2>1 DEF list_merge
  <2>4. FollowsThen(e)  BY <1>1, <2>3, FollowsNone
  <2> HIDE DEF e
  <2>5. Chains(e)' /\ Follows(e)' /\ Holding(e)' = [Holding(c) EXCEPT ![l] = <<>>]
    BY <2>2, <2>4 DEF Moves, Leads, FollowsThen
  <2>6. Shown' = [Shown EXCEPT ![l] = <<>>]  BY <1>0, <2>5, ShownThen
  <2>7. Container!Clear(l)  BY <2>6 DEF Container!Clear, Container!Holds, Shown
  <2>8. ListsOK'  BY <2>5 DEF ListsOK
  <2> QED  BY <1>3, <2>7, <2>8
<1> QED  BY <1>2, <1>3

\* An iterator changes no list.
LEMMA IteratorActs ==
    ASSUME ListsOK, (\E l \in Lists : list_iterator(l)) \/ list_iterator_next
    PROVE  ListsOK' /\ Container!Look
<1>0. PICK c : Chains(c) /\ Follows(c)  BY DEF ListsOK
<1>1. UNCHANGED <<lists, lost>>  BY DEF list_iterator, list_iterator_next
<1>2. FollowsThen(c)
  <2>1. ASSUME NEW l \in Lists, list_iterator(l)  PROVE FollowsThen(c)  BY <1>0, <2>1, FollowsNew
  <2>2. ASSUME list_iterator_next  PROVE FollowsThen(c)  BY <1>0, <2>2, FollowsOn
  <2> QED  BY <2>1, <2>2
<1>3. Chains(c)' /\ Holding(c)' = Holding(c)
  <2>1. node' = node /\ head' = head /\ tail' = tail /\ count' = count /\ lost' = lost
    BY <1>1 DEF lists
  <2>2. \A l : Of(l)' = Of(l)  BY <2>1 DEF Of
  <2> QED  BY <1>0, <2>1, <2>2 DEF Chains, Holding
<1>4. Shown' = Shown  BY <1>0, <1>3, ShownIs, ShownThen
<1>5. Container!Look  BY <1>4 DEF Container!Look, Shown
<1>6. ListsOK'  BY <1>2, <1>3 DEF ListsOK, FollowsThen
<1> QED  BY <1>5, <1>6

\* An insertion puts the element before the one at the index.
LEMMA InsertActs ==
    ASSUME ListsOK, NEW l \in Lists, NEW index \in Nat, NEW e \in Elems,
           list_insert(l, index, e)
    PROVE  ListsOK' /\ Container!InsertBefore(l, index + 1, e)
<1>1. PICK c : Chains(c) /\ Follows(c)  BY DEF ListsOK
<1>2. Shown = Holding(c)  BY <1>1, ShownIs
<1> DEFINE p == index + 1
           held == InsertAt(Shown[l], p, e)
<1>3. \E d : Altered(l, c, d, held) /\ OrderKept(c[l], d)  BY <1>1, <1>2, InsertSteps
<1>4. Watched  BY DEF list_insert
<1>5. held = InsertAt(Shown[l], p, e)  OBVIOUS
<1> HIDE DEF p, held
<1>6. ListsOK' /\ Shown' = [Shown EXCEPT ![l] = held]  BY <1>1, <1>3, <1>4, WatchedGoesOn
<1>7. Container!InsertBefore(l, p, e)  BY <1>5, <1>6, OperationsAre
<1> QED  BY <1>6, <1>7 DEF p

\* Where one element goes, it is erased from the container.
LEMMA GoneActs ==
    ASSUME NEW c, Chains(c), Follows(c), NEW l \in Lists, NEW p, OneGoes(c, l, p), Watched
    PROVE  ListsOK' /\ Container!Erase(l, p)
<1>1. Shown = Holding(c)  BY ShownIs
<1> DEFINE held == RemoveAt(Shown[l], p)
<1>2. \E d : Altered(l, c, d, held) /\ OrderKept(c[l], d)  BY <1>1 DEF OneGoes
<1>3. held = RemoveAt(Shown[l], p)  OBVIOUS
<1> HIDE DEF held
<1>4. ListsOK' /\ Shown' = [Shown EXCEPT ![l] = held]  BY <1>2, WatchedGoesOn
<1> QED  BY <1>3, <1>4, OperationsAre

\* Popping takes the first and the last element, removing the one at the index.
LEMMA RemoveActs ==
    ASSUME ListsOK, NEW l \in Lists
    PROVE  /\ list_pop_front(l) => ListsOK' /\ Container!Erase(l, 1)
           /\ list_pop_back(l) => ListsOK' /\ Container!Erase(l, count[l])
           /\ \A index \in Nat :
                 list_remove(l, index) => ListsOK' /\ Container!Erase(l, index + 1)
<1>1. PICK c : Chains(c) /\ Follows(c)  BY DEF ListsOK
<1>2. ASSUME list_pop_front(l)  PROVE ListsOK' /\ Container!Erase(l, 1)
  <2>1. OneGoes(c, l, 1)  BY <1>1, <1>2, RemoveSteps
  <2>2. Watched  BY <1>2 DEF list_pop_front
  <2> QED  BY <1>1, <2>1, <2>2, GoneActs
<1>3. ASSUME list_pop_back(l)  PROVE ListsOK' /\ Container!Erase(l, count[l])
  <2>1. OneGoes(c, l, count[l])  BY <1>1, <1>3, RemoveSteps
  <2>2. Watched  BY <1>3 DEF list_pop_back
  <2> QED  BY <1>1, <2>1, <2>2, GoneActs
<1>4. ASSUME NEW index \in Nat, list_remove(l, index)
      PROVE  ListsOK' /\ Container!Erase(l, index + 1)
  <2> DEFINE p == index + 1
  <2>1. OneGoes(c, l, p)  BY <1>1, <1>4, RemoveSteps
  <2>2. Watched  BY <1>4 DEF list_remove
  <2> HIDE DEF p
  <2>3. ListsOK' /\ Container!Erase(l, p)  BY <1>1, <2>1, <2>2, GoneActs
  <2> QED  BY <2>3 DEF p
<1> QED  BY <1>2, <1>3, <1>4

\* Erasing the first n leaves the rest.
LEMMA EraseActs ==
    ASSUME ListsOK, NEW l \in Lists, NEW n \in 1 .. NODES, list_erase_first_n(l, n)
    PROVE  ListsOK' /\ Container!EraseFirst(l, n)
<1>1. PICK c : Chains(c) /\ Follows(c)  BY DEF ListsOK
<1>2. Shown = Holding(c)  BY <1>1, ShownIs
<1> DEFINE held == SubSeq(Shown[l], n + 1, Len(Shown[l]))
<1>3. \E d : Altered(l, c, d, held) /\ OrderKept(c[l], d)
  <2>1. n \in Nat  BY SizesAssumption
  <2> QED  BY <1>1, <1>2, <2>1, EraseSteps
<1>4. Watched  BY DEF list_erase_first_n
<1>5. held = SubSeq(Shown[l], n + 1, Len(Shown[l]))  OBVIOUS
<1> HIDE DEF held
<1>6. ListsOK' /\ Shown' = [Shown EXCEPT ![l] = held]  BY <1>1, <1>3, <1>4, WatchedGoesOn
<1> QED  BY <1>5, <1>6, OperationsAre

\* list_remove_if takes the elements the predicate holds of and no others.
LEMMA IfActs ==
    ASSUME ListsOK, NEW l \in Lists, NEW e \in Elems, list_remove_if(l, e)
    PROVE  ListsOK' /\ Container!EraseAll(l, e)
<1>1. PICK c : Chains(c) /\ Follows(c)  BY DEF ListsOK
<1>2. Shown = Holding(c)  BY <1>1, ShownIs
<1> DEFINE held == Kept(Shown[l], e)
<1>3. \E d : Altered(l, c, d, held) /\ OrderKept(c[l], d)  BY <1>1, <1>2, IfSteps
<1>4. Watched  BY DEF list_remove_if
<1>5. held = Kept(Shown[l], e)  OBVIOUS
<1> HIDE DEF held
<1>6. ListsOK' /\ Shown' = [Shown EXCEPT ![l] = held]  BY <1>1, <1>3, <1>4, WatchedGoesOn
<1> QED  BY <1>5, <1>6, OperationsAre

\* list_unique leaves the first of equal neighbours.
LEMMA UniqueActs ==
    ASSUME ListsOK, NEW l \in Lists, list_unique(l)
    PROVE  ListsOK' /\ Container!Unique(l)
<1>1. PICK c : Chains(c) /\ Follows(c)  BY DEF ListsOK
<1>2. Shown = Holding(c)  BY <1>1, ShownIs
<1> DEFINE held == Firsts(Shown[l])
<1>3. \E d : Altered(l, c, d, held) /\ OrderKept(c[l], d)  BY <1>1, <1>2, UniqueSteps
<1>4. Watched  BY Zenon DEF list_unique
<1>5. held = Firsts(Shown[l])  OBVIOUS
<1> HIDE DEF held
<1>6. ListsOK' /\ Shown' = [Shown EXCEPT ![l] = held]  BY <1>1, <1>3, <1>4, WatchedGoesOn
<1> QED  BY <1>5, <1>6, OperationsAre

\* list_clear leaves nothing.
LEMMA ClearActs ==
    ASSUME ListsOK, NEW l \in Lists, list_clear(l)
    PROVE  ListsOK' /\ Container!Clear(l)
<1>1. PICK c : Chains(c) /\ Follows(c)  BY DEF ListsOK
<1> DEFINE held == <<>>
<1>2. \E d : Altered(l, c, d, held) /\ OrderKept(c[l], d)  BY <1>1, ClearSteps
<1>3. Watched  BY DEF list_clear
<1>4. held = <<>>  OBVIOUS
<1> HIDE DEF held
<1>5. ListsOK' /\ Shown' = [Shown EXCEPT ![l] = held]  BY <1>1, <1>2, <1>3, WatchedGoesOn
<1> QED  BY <1>4, <1>5, OperationsAre

\* list_set replaces the element at the index.
LEMMA SetActs ==
    ASSUME ListsOK, NEW l \in Lists, NEW index \in Nat, NEW e \in Elems, list_set(l, index, e)
    PROVE  ListsOK' /\ Container!Replace(l, index + 1, e)
<1>1. PICK c : Chains(c) /\ Follows(c)  BY DEF ListsOK
<1>2. Shown = Holding(c)  BY <1>1, ShownIs
<1> DEFINE p == index + 1
           held == ReplaceAt(Shown[l], p, e)
<1>3. \E d : Altered(l, c, d, held) /\ OrderKept(c[l], d)  BY <1>1, <1>2, SetSteps
<1>4. Watched  BY DEF list_set
<1>5. held = ReplaceAt(Shown[l], p, e)  OBVIOUS
<1> HIDE DEF p, held
<1>6. ListsOK' /\ Shown' = [Shown EXCEPT ![l] = held]  BY <1>1, <1>3, <1>4, WatchedGoesOn
<1>7. Container!Replace(l, p, e)  BY <1>5, <1>6, OperationsAre
<1> QED  BY <1>6, <1>7 DEF p

\* list_reverse turns the list.
LEMMA ReverseActs ==
    ASSUME ListsOK, NEW l \in Lists, list_reverse(l)
    PROVE  ListsOK' /\ Container!Turn(l)
<1>1. PICK c : Chains(c) /\ Follows(c)  BY DEF ListsOK
<1>2. Shown = Holding(c)  BY <1>1, ShownIs
<1> DEFINE held == Reverse(Shown[l])
           d == Reverse(c[l])
<1>3. Altered(l, c, d, held)  BY <1>1, <1>2, ReverseSteps
<1>4. it' = it /\ owed' = owed /\ passed' = passed /\ stale' = (stale \/ it.current # NULL)
  BY DEF list_reverse, Becomes
<1>5. \A e : FollowsThen(e)  BY <1>1, <1>4, FollowsNone
<1>6. held = Reverse(Shown[l])  OBVIOUS
<1> HIDE DEF held, d
<1>7. ListsOK' /\ Shown' = [Shown EXCEPT ![l] = held]  BY <1>1, <1>3, <1>5, AlteredGoesOn
<1> QED  BY <1>6, <1>7, OperationsAre

\* Every call acts on the containers as its arguments say.
LEMMA CallsAct ==
    ASSUME ListsOK
    PROVE  (\A l \in Lists : ActsOn(l)) /\ (list_iterator_next => Container!Look)
<1>1. ASSUME NEW l \in Lists  PROVE ActsOn(l)
  <2>1. 0 .. NODES \subseteq Nat  BY SizesAssumption
  <2>2. /\ list_pop_front(l) => Container!Erase(l, 1)
        /\ list_pop_back(l) => Container!Erase(l, count[l])
        /\ \A index \in 0 .. NODES : list_remove(l, index) => Container!Erase(l, index + 1)
    BY <2>1, RemoveActs
  <2>3. /\ list_unique(l) => Container!Unique(l)
        /\ list_clear(l) => Container!Clear(l)
        /\ list_reverse(l) => Container!Turn(l)
        /\ list_iterator(l) => Container!Look
    BY UniqueActs, ClearActs, ReverseActs, IteratorActs
  <2>4. /\ \A e \in Elems : list_remove_if(l, e) => Container!EraseAll(l, e)
        /\ \A n \in 1 .. NODES : list_erase_first_n(l, n) => Container!EraseFirst(l, n)
    BY IfActs, EraseActs
  <2>5. \A index \in 0 .. NODES : \A e \in Elems :
            /\ list_insert(l, index, e) => Container!InsertBefore(l, index + 1, e)
            /\ list_set(l, index, e) => Container!Replace(l, index + 1, e)
    BY <2>1, InsertActs, SetActs
  <2>6. \A k \in Lists :
            list_merge(l, k) => IF l = k THEN Container!Clear(l) ELSE Container!Merge(l, k)
    BY MergeActs
  <2> QED  BY <2>2, <2>3, <2>4, <2>5, <2>6, Zenon DEF ActsOn
<1> QED  BY <1>1, IteratorActs

\* Every step leaves lists that are chains and an iterator on its way.
LEMMA NextGoesOn ==
    ASSUME ListsOK, Next
    PROVE  ListsOK'
<1>1. 0 .. NODES \subseteq Nat  BY SizesAssumption
<1>2. \A l \in Lists : \A index \in 0 .. NODES :
         /\ list_remove(l, index) => ListsOK'
         /\ \A e \in Elems : list_insert(l, index, e) \/ list_set(l, index, e) => ListsOK'
  BY <1>1, RemoveActs, InsertActs, SetActs
<1>3. \A l \in Lists :
         list_pop_front(l) \/ list_pop_back(l) \/ list_unique(l) \/ list_clear(l)
             \/ list_reverse(l) \/ list_iterator(l) => ListsOK'
  BY RemoveActs, UniqueActs, ClearActs, ReverseActs, IteratorActs
<1>4. \A l \in Lists :
         /\ \A e \in Elems : list_remove_if(l, e) => ListsOK'
         /\ \A n \in 1 .. NODES : list_erase_first_n(l, n) => ListsOK'
         /\ \A k \in Lists : list_merge(l, k) => ListsOK'
  BY IfActs, EraseActs, MergeActs
<1>5. list_iterator_next => ListsOK'  BY IteratorActs
<1> QED  BY <1>2, <1>3, <1>4, <1>5, Zenon DEF Next

\* At the start the lists are empty.
LEMMA ListsStart ==
    ASSUME Init
    PROVE  ListsOK /\ Container!Init
<1> DEFINE c == [l \in Lists |-> <<>>]
           none == <<>>
<1>0. none \in Seq(Nodes) /\ ToSet(none) = {} /\ Data(node, none) = <<>>  BY DEF ToSet, Data
<1>1. /\ node = [n \in Nodes |-> Free] /\ head = [l \in Lists |-> NULL]
      /\ tail = [l \in Lists |-> NULL] /\ count = [l \in Lists |-> 0]
      /\ it = [current |-> NULL, index |-> 0] /\ owed = {} /\ passed = {} /\ stale = FALSE
      /\ lost = {}
  BY DEF Init
<1>2. Free \in [next : Links, prev : Links, data : Elems \cup {NULL}]  BY NoNode DEF Free
<1>3. node \in Heaps  BY <1>1, <1>2 DEF Heaps
<1>4. ASSUME NEW l \in Lists  PROVE IsList(Of(l), none)
  <2>1. /\ Of(l).node = node /\ Of(l).head = NULL /\ Of(l).tail = NULL /\ Of(l).count = 0
    BY <1>1 DEF Of
  <2> DEFINE s == Of(l)
  <2>2. s.node \in Heaps /\ s.head = NULL /\ s.tail = NULL /\ s.count = 0  BY <1>3, <2>1
  <2> HIDE DEF s, none
  <2>3. IsList(s, <<>>)  BY <2>2, NoList
  <2> QED  BY <2>3 DEF s, none
<1>5. c \in [Lists -> Seq(Nodes)] /\ \A l \in Lists : c[l] = none  BY <1>0
<1> HIDE DEF c, none
<1>6. Chains(c)
  <2>1. /\ head \in [Lists -> Links] /\ tail \in [Lists -> Links] /\ count \in [Lists -> Nat]
    BY <1>1, NoNode
  <2>2. \A n \in Nodes : node[n] = Free  BY <1>1
  <2> QED  BY <1>0, <1>1, <1>3, <1>4, <1>5, <2>1, <2>2 DEF Chains, Apart
<1>7. Follows(c)
  <2>1. it.current = NULL /\ it.current \in Links /\ it.index \in 0 .. MaxIndex
    BY <1>1, NoNode, SizesAssumption
  <2>2. it = [current |-> it.current, index |-> it.index]  BY <1>1
  <2>3. it \in [current : Links, index : 0 .. MaxIndex]  BY <2>1, <2>2
  <2> QED  BY <1>1, <2>1, <2>3 DEF Follows
<1>8. Shown = [l \in Lists |-> <<>>]
  <2>1. Shown = Holding(c)  BY <1>6, ShownIs
  <2>2. \A l \in Lists : Data(node, c[l]) = <<>>  BY <1>0, <1>5
  <2> QED  BY <2>1, <2>2 DEF Holding
<1>9. Container!Init  BY <1>8 DEF Container!Init, Shown
<1> QED  BY <1>6, <1>7, <1>9 DEF ListsOK

\* What the lists are, they are after a step that changes nothing.
LEMMA ListsStay ==
    ASSUME ListsOK, UNCHANGED vars
    PROVE  ListsOK'
<1>1. /\ node' = node /\ head' = head /\ tail' = tail /\ count' = count /\ lost' = lost
      /\ it' = it /\ owed' = owed /\ passed' = passed /\ stale' = stale
  BY DEF vars, lists, ghosts
<1>2. PICK c : Chains(c) /\ Follows(c)  BY DEF ListsOK
<1>3. Chains(c)'
  <2>1. \A l : Of(l)' = Of(l)  BY <1>1 DEF Of
  <2> QED  BY <1>1, <1>2, <2>1 DEF Chains
<1>4. Follows(c)'
  <2>1. \A l \in Lists : On(c[l])' <=> On(c[l])  BY <1>1 DEF On
  <2> QED  BY <1>1, <1>2, <2>1 DEF Follows
<1> QED  BY <1>3, <1>4 DEF ListsOK

\* At every moment the lists are chains that share no node, and the iterator is on its way.
THEOREM ListsAlwaysOK == Spec => []ListsOK
<1>1. Init => ListsOK  BY ListsStart
<1>2. ListsOK /\ [Next]_vars => ListsOK'  BY NextGoesOn, ListsStay
<1> QED  BY <1>1, <1>2, PTL DEF Spec

\* What the chains say is what list_validate and the heap show.
LEMMA ListsShow ==
    ASSUME ListsOK
    PROVE  NodesInOneList
<1>1. PICK c : Chains(c) /\ Follows(c)  BY DEF ListsOK
<1>2. \A l \in Lists : /\ IsList(Of(l), c[l]) /\ Forward(l) = c[l] /\ Backward(l) = Reverse(c[l])
                       /\ count[l] = Len(c[l]) /\ Len(c[l]) \in 0 .. NODES
  BY <1>1, ListIn
<1>3. TypeOK
  <2>1. count \in [Lists -> 0 .. NODES]
    <3>1. count \in [Lists -> Nat] /\ \A l \in Lists : count[l] \in 0 .. NODES
      BY <1>1, <1>2 DEF Chains
    <3> QED  BY <3>1
  <2>2. lost \subseteq Nodes  BY <1>1 DEF Chains
  <2> QED  BY <1>1, <2>1, <2>2 DEF TypeOK, Chains, Follows, Heaps
<1>4. \A l \in Lists : list_validate(l)  BY <1>2 DEF list_validate
<1>5. \A l, k \in Lists : l # k => ToSet(Forward(l)) \cap ToSet(Forward(k)) = {}
  BY <1>1, <1>2 DEF Chains, Apart
<1>6. UNION {ToSet(Forward(l)) : l \in Lists} = Nodes \ (FreeNodes \cup lost)
  <2>1. \A l \in Lists : \A n \in ToSet(c[l]) : n \in Nodes /\ node[n] # Free /\ n \notin lost
    <3>1. \A l \in Lists : Of(l).node = node  BY OfIs
    <3>2. \A l \in Lists : \A n \in ToSet(c[l]) : n \in Nodes /\ node[n] # Free
      BY <1>2, <3>1, ChainInUse
    <3> QED  BY <1>1, <3>2 DEF Chains
  <2>2. \A n \in Nodes : node[n] # Free /\ n \notin lost => \E l \in Lists : n \in ToSet(c[l])
    BY <1>1 DEF Chains
  <2>3. {ToSet(Forward(l)) : l \in Lists} = {ToSet(c[l]) : l \in Lists}  BY <1>2
  <2> QED  BY <2>1, <2>2, <2>3 DEF FreeNodes
<1> QED  BY <1>3, <1>4, <1>5, <1>6 DEF NodesInOneList

\* Both walks of every list agree with each other and with its count, no node is in two
\* lists, and every node in use is in one or was lost in a merge with itself (list.c:551).
THEOREM NodesAlwaysInOneList == Spec => []NodesInOneList
<1>1. ListsOK => NodesInOneList  BY ListsShow
<1> QED  BY <1>1, ListsAlwaysOK, PTL

\* Every call, with the index, the element or the second list it is given, does to its
\* list what an ordered container promises of it, whatever was called before (list.c:239).
THEOREM ListsImplementContainers == Spec => ImplementsContainers
<1> DEFINE Calls == (\A l \in Lists : ActsOn(l)) /\ (list_iterator_next => Container!Look)
<1>1. Init => Container!Init  BY ListsStart
<1>2. ListsOK => Calls  BY CallsAct
<1>3. ListsOK /\ [Next]_vars => [Calls]_vars  BY <1>2
<1> HIDE DEF Calls
<1>4. Spec => Container!Init /\ [][Calls]_vars  BY <1>1, <1>3, ListsAlwaysOK, PTL DEF Spec
<1> QED  BY <1>4 DEF Calls, ImplementsContainers

\* An iterator whose node lives and whose list keeps its order passes each node that was in
\* the list at its start and still is, and none twice (list.c:439).
THEOREM EachPassedOnce == Spec => IteratorPassesEachOnce
<1>1. ListsOK /\ [Next]_vars =>
         [list_iterator_next /\ ~stale =>
             /\ it'.current \notin passed
             /\ it'.current = NULL => owed = {}]_vars
  <2>1. ASSUME ListsOK, list_iterator_next, ~stale
        PROVE  it'.current \notin passed /\ (it'.current = NULL => owed = {})
    BY <2>1, FollowsOn DEF ListsOK
  <2> QED  BY <2>1
<1> QED  BY <1>1, ListsAlwaysOK, PTL DEF Spec, IteratorPassesEachOnce
=============================================================================

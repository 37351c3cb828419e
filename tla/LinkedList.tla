----------------------------- MODULE LinkedList -----------------------------
(***************************************************************************)
(* list.c: doubly linked lists whose nodes come from one heap, and an      *)
(* iterator that keeps the node it stands on while the lists change.       *)
(*                                                                         *)
(* A node carries its element: list_node_new copies it (elem_size > 0),    *)
(* and node and copy are allocated and freed together.  The heap gives     *)
(* the lowest free node, so a freed node soon comes back with another      *)
(* element.  An allocation that fails changes nothing and is no step.      *)
(***************************************************************************)
EXTENDS Integers, FiniteSets, SequencesExt

CONSTANTS
    Lists,      \* the lists of the program
    Elems,      \* what they hold
    NODES,      \* how many nodes the heap has room for
    MaxIndex    \* bound: an iterator takes at most that many steps

NULL == 0

ASSUME SizesAssumption == NODES \in Nat /\ MaxIndex \in Nat
\* The copy of an element is an address.
ASSUME ElemsAssumption == NULL \notin Elems

Nodes == 1 .. NODES
Links == Nodes \cup {NULL}
Free == [next |-> NULL, prev |-> NULL, data |-> NULL]

VARIABLES
    node,       \* the heap: Free or [next, prev, data]
    head, tail, count,
    it,         \* ListIterator: [current, index]
    owed,       \* ghost: nodes the iterator has still to pass
    passed,     \* ghost: nodes it has passed or stands on
    stale,      \* ghost: its node was freed, a list reversed or merged with itself
    lost        \* ghost: nodes of a list that was merged with itself

lists == <<node, head, tail, count>>
ghosts == <<owed, passed, stale>>
vars == <<lists, it, ghosts, lost>>

FreeNodes == {n \in Nodes : node[n] = Free}

\* The nodes met from `from` on, following the links, no more than there are.
Walk(from, links) ==
    LET walk[left \in 0 .. NODES] ==
            [n \in Links |-> IF n = NULL \/ left = 0 THEN <<>>
                             ELSE <<n>> \o walk[left - 1][links[n]]]
    IN  walk[NODES][from]

Forward(l) == Walk(head[l], [n \in Nodes |-> node[n].next])
Backward(l) == Walk(tail[l], [n \in Nodes |-> node[n].prev])

Contents(l) == LET mine == Forward(l) IN [i \in DOMAIN mine |-> node[mine[i]].data]

SetNext(heap, n, m) == IF n = NULL THEN heap ELSE [heap EXCEPT ![n].next = m]
SetPrev(heap, n, m) == IF n = NULL THEN heap ELSE [heap EXCEPT ![n].prev = m]
SetData(heap, n, e) == [heap EXCEPT ![n].data = e]

\* One list with the heap it lives in.
Of(l) == [node |-> node, head |-> head[l], tail |-> tail[l], count |-> count[l]]

\* What every operation leaves behind: the heap and list l of state s, and
\* the iterator where it was, on a node that may be gone.
Becomes(l, s) ==
    /\ node' = s.node
    /\ head' = [head EXCEPT ![l] = s.head]
    /\ tail' = [tail EXCEPT ![l] = s.tail]
    /\ count' = [count EXCEPT ![l] = s.count]
    /\ UNCHANGED <<it, lost>>

Freed(heap) == {n \in Nodes : heap[n] = Free}

Watched ==
    /\ owed' = owed \ Freed(node')
    /\ passed' = passed \ Freed(node')
    /\ stale' = (stale \/ (it.current # NULL /\ node'[it.current] = Free))

---------------------------------------------------------------------------
(* list_node_new, list_find_node: the half of the list that is nearer.     *)

list_node_new(e) == [next |-> NULL, prev |-> NULL, data |-> e]

\* Mutant: the walk from the tail stops one node late.
FindOneFurther(l, index) ==
    IF index < count[l] \div 2
    THEN Forward(l)[index + 1]
    ELSE Backward(l)[IF index = 0 THEN count[l] ELSE count[l] - index + 1]

list_find_node(l, index) ==
    IF index < count[l] \div 2
    THEN Forward(l)[index + 1]
    ELSE Backward(l)[count[l] - index]

PushFront(l, n, e) ==
    [node |-> SetPrev([node EXCEPT ![n] = [list_node_new(e) EXCEPT !.next = head[l]]],
                      head[l], n),
     head |-> n,
     tail |-> IF head[l] = NULL THEN n ELSE tail[l],
     count |-> count[l] + 1]

PushBack(l, n, e) ==
    [node |-> SetNext([node EXCEPT ![n] = [list_node_new(e) EXCEPT !.prev = tail[l]]],
                      tail[l], n),
     head |-> IF tail[l] = NULL THEN n ELSE head[l],
     tail |-> n,
     count |-> count[l] + 1]

\* The node is given back when the one at the index is missing or the first.
InsertBetween(l, n, e, after) ==
    LET before == node[after].prev
        linked == [node EXCEPT ![n] = [next |-> after, prev |-> before, data |-> e]]
    IN  IF after = NULL \/ before = NULL THEN Of(l)
        ELSE [Of(l) EXCEPT !.node = SetPrev(SetNext(linked, before, n), after, n),
                           !.count = @ + 1]

\* list_push_front, list_push_back and list_insert, which calls them at the ends.
list_insert(l, index, e) ==
    /\ FreeNodes # {}
    /\ index <= count[l]
    /\ LET n == CHOOSE m \in FreeNodes : \A k \in FreeNodes : m <= k
       IN  Becomes(l, IF index = 0 THEN PushFront(l, n, e)
                      ELSE IF index = count[l] THEN PushBack(l, n, e)
                      ELSE InsertBetween(l, n, e, list_find_node(l, index)))
    /\ Watched

---------------------------------------------------------------------------
(* Taking nodes out.                                                       *)

DropFirst(s) ==
    LET n == s.head
        rest == s.node[n].next
    IN  [node |-> SetPrev([s.node EXCEPT ![n] = Free], rest, NULL),
         head |-> rest,
         tail |-> IF rest = NULL THEN NULL ELSE s.tail,
         count |-> s.count - 1]

DropLast(s) ==
    LET n == s.tail
        rest == s.node[n].prev
    IN  [node |-> SetNext([s.node EXCEPT ![n] = Free], rest, NULL),
         head |-> IF rest = NULL THEN NULL ELSE s.head,
         tail |-> rest,
         count |-> s.count - 1]

\* Mutant: the tail is left on the node that went.
UnlinkKeepTail(s, n) ==
    LET before == s.node[n].prev
        after == s.node[n].next
        linked == SetPrev(SetNext(s.node, before, after), after, before)
    IN  [node |-> [linked EXCEPT ![n] = Free],
         head |-> IF before = NULL THEN after ELSE s.head,
         tail |-> s.tail,
         count |-> s.count - 1]

\* Mutant: only the way back is closed over the node that goes.
UnlinkBackOnly(s, n) ==
    LET before == s.node[n].prev
        after == s.node[n].next
    IN  [node |-> [SetPrev(s.node, after, before) EXCEPT ![n] = Free],
         head |-> IF before = NULL THEN after ELSE s.head,
         tail |-> IF after = NULL THEN before ELSE s.tail,
         count |-> s.count - 1]

Unlink(s, n) ==
    LET before == s.node[n].prev
        after == s.node[n].next
        linked == SetPrev(SetNext(s.node, before, after), after, before)
    IN  [node |-> [linked EXCEPT ![n] = Free],
         head |-> IF before = NULL THEN after ELSE s.head,
         tail |-> IF after = NULL THEN before ELSE s.tail,
         count |-> s.count - 1]

list_pop_front(l) == head[l] # NULL /\ Becomes(l, DropFirst(Of(l))) /\ Watched

list_pop_back(l) == tail[l] # NULL /\ Becomes(l, DropLast(Of(l))) /\ Watched

list_remove(l, index) ==
    /\ index < count[l]
    /\ Becomes(l, Unlink(Of(l), list_find_node(l, index)))
    /\ Watched

list_erase_first_n(l, n) ==
    LET left[i \in 0 .. n] ==
            IF i = 0 THEN Of(l)
            ELSE IF left[i - 1].head = NULL THEN left[i - 1] ELSE DropFirst(left[i - 1])
    IN  Becomes(l, left[n]) /\ Watched

\* The predicate holds of the element e; the next node is read before a node goes.
list_remove_if(l, e) ==
    LET mine == Forward(l)
        left[i \in 0 .. Len(mine)] ==
            IF i = 0 THEN Of(l)
            ELSE IF left[i - 1].node[mine[i]].data = e THEN Unlink(left[i - 1], mine[i])
            ELSE left[i - 1]
    IN  Becomes(l, left[Len(mine)]) /\ Watched

\* The node behind n goes, as in list_unique.
DropAfter(s, n) ==
    LET dup == s.node[n].next
        rest == s.node[dup].next
        linked == SetPrev(SetNext(s.node, n, rest), rest, n)
    IN  [node |-> [linked EXCEPT ![dup] = Free],
         head |-> s.head,
         tail |-> IF rest = NULL THEN n ELSE s.tail,
         count |-> s.count - 1]

\* A node equal to the one before it that stays goes.
list_unique(l) ==
    LET mine == Forward(l)
        left[i \in 1 .. Len(mine)] ==
            IF i = 1 THEN [s |-> Of(l), kept |-> mine[1]]
            ELSE LET s == left[i - 1].s
                     n == left[i - 1].kept
                 IN  IF s.node[n].data = s.node[mine[i]].data
                     THEN [s |-> DropAfter(s, n), kept |-> n]
                     ELSE [s |-> s, kept |-> mine[i]]
    IN  /\ count[l] >= 2
        /\ Becomes(l, left[Len(mine)].s)
        /\ Watched

Emptied(heap) == [node |-> heap, head |-> NULL, tail |-> NULL, count |-> 0]

list_clear(l) ==
    LET mine == ToSet(Forward(l))
    IN  Becomes(l, Emptied([n \in Nodes |-> IF n \in mine THEN Free ELSE node[n]])) /\ Watched

---------------------------------------------------------------------------
(* Changes that keep every node.                                           *)

list_set(l, index, e) ==
    /\ index < count[l]
    /\ Becomes(l, [Of(l) EXCEPT !.node = SetData(node, list_find_node(l, index), e)])
    /\ Watched

\* The two links of each of these nodes are exchanged.
Flipped(heap, mine) ==
    [n \in Nodes |-> IF n \in mine
                     THEN [heap[n] EXCEPT !.next = heap[n].prev, !.prev = heap[n].next]
                     ELSE heap[n]]

list_reverse(l) ==
    /\ count[l] >= 2
    /\ Becomes(l, [node |-> Flipped(node, ToSet(Forward(l))),
                   head |-> tail[l], tail |-> head[l], count |-> count[l]])
    /\ stale' = (stale \/ it.current # NULL)
    /\ UNCHANGED <<owed, passed>>

\* The nodes of k follow those of l.  Nothing asks whether k and l are one list:
\* then its last node is followed by its first, and the list is emptied.
list_merge(l, k) ==
    /\ head[k] # NULL
    /\ node' = IF tail[l] = NULL THEN node
               ELSE SetPrev(SetNext(node, tail[l], head[k]), head[k], tail[l])
    /\ head' = [head EXCEPT ![l] = IF tail[l] = NULL THEN head[k] ELSE @, ![k] = NULL]
    /\ tail' = [tail EXCEPT ![l] = tail[k], ![k] = NULL]
    /\ count' = [count EXCEPT ![l] = @ + count[k], ![k] = 0]
    /\ lost' = IF l = k THEN lost \cup ToSet(Forward(l)) ELSE lost
    /\ stale' = (stale \/ (l = k /\ it.current # NULL))
    /\ UNCHANGED <<it, owed, passed>>

---------------------------------------------------------------------------
(* list_iterator and list_iterator_next; list_foreach is the same walk     *)
(* with the callback between two steps.  A freed node may read as any.     *)

list_iterator(l) ==
    /\ it' = [current |-> head[l], index |-> 0]
    /\ passed' = {head[l]} \ {NULL}
    /\ owed' = ToSet(Forward(l)) \ {head[l]}
    /\ stale' = FALSE
    /\ UNCHANGED <<lists, lost>>

list_iterator_next ==
    /\ it.current # NULL
    /\ it.index < MaxIndex
    /\ \E n \in IF node[it.current] # Free THEN {node[it.current].next}
                ELSE Nodes \cup {NULL} :
          /\ it' = [current |-> n, index |-> it.index + 1]
          /\ passed' = (passed \cup {n}) \ {NULL}
          /\ owed' = owed \ {n}
    /\ UNCHANGED <<lists, stale, lost>>

Init ==
    /\ node = [n \in Nodes |-> Free]
    /\ head = [l \in Lists |-> NULL]
    /\ tail = [l \in Lists |-> NULL]
    /\ count = [l \in Lists |-> 0]
    /\ it = [current |-> NULL, index |-> 0]
    /\ owed = {} /\ passed = {} /\ stale = FALSE
    /\ lost = {}

Next ==
    \/ \E l \in Lists :
          \/ list_pop_front(l)
          \/ list_pop_back(l)
          \/ list_unique(l)
          \/ list_clear(l)
          \/ list_reverse(l)
          \/ list_iterator(l)
          \/ \E e \in Elems : list_remove_if(l, e)
          \/ \E n \in 1 .. NODES : list_erase_first_n(l, n)
          \/ \E index \in 0 .. NODES :
                \/ list_remove(l, index)
                \/ \E e \in Elems : list_insert(l, index, e) \/ list_set(l, index, e)
          \/ \E k \in Lists : list_merge(l, k)
    \/ list_iterator_next

Spec == Init /\ [][Next]_vars

---------------------------------------------------------------------------
(* Properties.                                                             *)

\* list_validate, the code's own check: both walks agree with each other and the count.
list_validate(l) ==
    /\ Backward(l) = Reverse(Forward(l))
    /\ Len(Forward(l)) = count[l]

\* The type invariant: links are nodes, counts fit the heap.
TypeOK ==
    /\ node \in [Nodes -> [next : Links, prev : Links, data : Elems \cup {NULL}]]
    /\ head \in [Lists -> Links] /\ tail \in [Lists -> Links]
    /\ count \in [Lists -> 0 .. NODES]
    /\ it \in [current : Links, index : 0 .. MaxIndex]
    /\ owed \subseteq Nodes /\ passed \subseteq Nodes /\ lost \subseteq Nodes
    /\ stale \in BOOLEAN

\* After any sequence of operations on the lists of one heap, each of them passes
\* list_validate, no node is in two of them, and a node that is allocated is in one
\* of them, unless its list was merged with itself (list.c:551).
NodesInOneList ==
    /\ TypeOK
    /\ \A l \in Lists : list_validate(l)
    /\ \A l, k \in Lists : l # k => ToSet(Forward(l)) \cap ToSet(Forward(k)) = {}
    /\ UNION {ToSet(Forward(l)) : l \in Lists} = Nodes \ (FreeNodes \cup lost)

\* The lists are sequences, and each call does to the one it is given what its name and
\* its arguments say and nothing to the others, whichever end the code walks from: an
\* index names the element at that place, a merge moves the second list behind the first,
\* and merging a list with itself empties it (list.c:239, 551).
Container == INSTANCE OrderedContainers
    WITH Objs <- Lists, MaxErase <- NODES, seq <- [l \in Lists |-> Contents(l)]
ActsOn(l) ==
    /\ list_pop_front(l) => Container!Erase(l, 1)
    /\ list_pop_back(l) => Container!Erase(l, count[l])
    /\ list_unique(l) => Container!Unique(l)
    /\ list_clear(l) => Container!Clear(l)
    /\ list_reverse(l) => Container!Turn(l)
    /\ list_iterator(l) => Container!Look
    /\ \A e \in Elems : list_remove_if(l, e) => Container!EraseAll(l, e)
    /\ \A n \in 1 .. NODES : list_erase_first_n(l, n) => Container!EraseFirst(l, n)
    /\ \A index \in 0 .. NODES :
          /\ list_remove(l, index) => Container!Erase(l, index + 1)
          /\ \A e \in Elems :
                /\ list_insert(l, index, e) => Container!InsertBefore(l, index + 1, e)
                /\ list_set(l, index, e) => Container!Replace(l, index + 1, e)
    /\ \A k \in Lists :
          list_merge(l, k) => IF l = k THEN Container!Clear(l) ELSE Container!Merge(l, k)
ImplementsContainers ==
    /\ Container!Init
    /\ [][(\A l \in Lists : ActsOn(l)) /\ (list_iterator_next => Container!Look)]_vars

\* An iterator passes every node that was in its list when it began and still lives,
\* and none twice, whatever else is inserted, removed, cleared or merged on the way,
\* unless the node it stands on is taken from under it or the order is turned (list.c:439).
IteratorPassesEachOnce ==
    [][list_iterator_next /\ ~stale =>
          /\ it'.current \notin passed
          /\ it'.current = NULL => owed = {}]_vars

=============================================================================

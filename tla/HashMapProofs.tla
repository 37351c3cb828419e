---------------------------- MODULE HashMapProofs ----------------------------
(***************************************************************************)
(* The hash table for every hash function, every set of keys and values    *)
(* and every capacity.  A search is known by the one slot it stops at, and *)
(* what hash_set does by the slot it writes to.  A table is fit if every   *)
(* entry is within reach and a slot is free, and clean if it also holds no *)
(* key twice and no tombstone; a growth makes any fit table clean, and has *)
(* the entries of a clean one.  That is shown along the tables the growth  *)
(* goes through, whose least wrong one would have a right one before it.   *)
(***************************************************************************)
EXTENDS HashMap, SequenceLemmas

\* The tables a growth goes through.
LEMMA RehashSteps ==
    ASSUME capacity \in Nat, NEW cap \in Nat
    PROVE  \E m : /\ m[0] = NoEntries(cap) /\ Rehash(cap) = m[capacity]
                  /\ \A i \in 1 .. capacity : m[i] = Moved(m[i - 1], cap, entries[i - 1])
<1> DEFINE Good(f, n) ==
             f = [i \in 0 .. n |->
                    IF i = 0 THEN NoEntries(cap) ELSE Moved(f[i - 1], cap, entries[i - 1])]
<1> DEFINE Bad == {n \in Nat : ~ \E f : Good(f, n)}
<1>1. Bad = {}
  <2> SUFFICES ASSUME Bad # {} PROVE FALSE
    OBVIOUS
  <2>1. PICK n \in Bad : \A j \in Bad : n <= j
    BY HasLeast
  <2>2. n # 0
    <3>1. Good([i \in 0 .. 0 |-> NoEntries(cap)], 0)
      OBVIOUS
    <3> QED BY <3>1, <2>1
  <2>3. n - 1 \in Nat /\ n \in Nat
    BY <2>2
  <2>4. PICK f : Good(f, n - 1)
    BY <2>1, <2>3
  <2> DEFINE g == [i \in 0 .. n |-> IF i = n THEN Moved(f[n - 1], cap, entries[n - 1]) ELSE f[i]]
  <2>5. \A i \in 0 .. n : g[i] = IF i = 0 THEN NoEntries(cap) ELSE Moved(g[i - 1], cap, entries[i - 1])
    BY <2>2, <2>3, <2>4
  <2>6. Good(g, n)
    BY <2>5, <2>3, Zenon
  <2> QED BY <2>1, <2>6
<1>2. \E f : Good(f, capacity)
  BY <1>1
<1> DEFINE m == CHOOSE f : Good(f, capacity)
<1>3. Good(m, capacity)
  BY <1>2, Zenon
<1>4. Rehash(cap) = m[capacity]
  BY DEF Rehash
<1> HIDE DEF m
<1>5. m[0] = NoEntries(cap) /\ \A i \in 1 .. capacity : m[i] = Moved(m[i - 1], cap, entries[i - 1])
  BY <1>3
<1> QED BY <1>4, <1>5

\* The slots that a key is looked for at are all of the table.
LEMMA ProbeIn ==
    ASSUME NEW k \in Keys, NEW i \in Nat, NEW cap \in Nat, cap > 0
    PROVE  Probe(k, i, cap) \in 0 .. cap - 1
BY ConstantsAssumption DEF Probe

\* Counting from any number through as many numbers as there are remainders meets each.
LEMMA AllRemainders ==
    ASSUME NEW c \in Nat \ {0}, NEW h \in Nat, NEW s \in 0 .. c - 1
    PROVE  \E i \in 0 .. c - 1 : (h + i) % c = s
<1> DEFINE Split(n) == \E q \in Nat, r \in 0 .. c - 1 : n = c * q + r
           Bad == {n \in Nat : ~Split(n)}
<1>1. Bad = {}
  <2> SUFFICES ASSUME Bad # {} PROVE FALSE
    OBVIOUS
  <2>1. PICK n \in Bad : \A j \in Bad : n <= j
    BY HasLeast
  <2>2. CASE n < c
    <3>1. n = c * 0 + n /\ n \in 0 .. c - 1
      BY <2>2
    <3> QED BY <2>1, <3>1
  <2>3. CASE n >= c
    <3>1. n - c \in Nat /\ ~(n <= n - c)
      BY <2>3
    <3>2. PICK q \in Nat, r \in 0 .. c - 1 : n - c = c * q + r
      BY <2>1, <3>1
    <3>3. n = c * (q + 1) + r /\ q + 1 \in Nat
      BY <3>2
    <3>4. Split(n)
      BY <3>3, Zenon
    <3> QED BY <2>1, <3>4
  <2> QED BY <2>2, <2>3
<1>2. PICK q \in Nat, r \in 0 .. c - 1 : h = c * q + r
  BY <1>1
<1>3. ASSUME NEW p \in Nat PROVE (c * p + s) % c = s
  BY Z3
<1>4. CASE s >= r
  <2>1. h + (s - r) = c * q + s /\ s - r \in 0 .. c - 1
    BY <1>2, <1>4
  <2>2. (h + (s - r)) % c = s
    BY <1>3, <2>1, Zenon
  <2> QED BY <2>1, <2>2, Zenon
<1>5. CASE s < r
  <2>1. h + (s - r + c) = c * (q + 1) + s /\ s - r + c \in 0 .. c - 1 /\ q + 1 \in Nat
    BY <1>2, <1>5
  <2>2. (h + (s - r + c)) % c = s
    BY <1>3, <2>1, Zenon
  <2> QED BY <2>1, <2>2, Zenon
<1> QED BY <1>4, <1>5

\* Every slot is looked at within one turn around the table.
LEMMA ProbeAll ==
    ASSUME NEW k \in Keys, NEW cap \in Nat, cap > 0, NEW s \in 0 .. cap - 1
    PROVE  \E i \in 0 .. cap - 1 : Probe(k, i, cap) = s
<1>1. Hash[k] \in Nat /\ cap \in Nat \ {0}
  BY ConstantsAssumption
<1> QED BY <1>1, AllRemainders, Zenon DEF Probe
-----------------------------------------------------------------------------
(* Tables, and what a search finds in one. *)

\* A table of cap slots, those of its slots that hold an entry, and whether an entry is
\* among them.
Table(t, cap) ==
    cap \in Nat \ {0} /\ t \in [0 .. cap - 1 -> Entry \cup {Empty, Tomb}]
Full(t, cap)   == {s \in 0 .. cap - 1 : Occupied(t[s])}
Has(t, cap, e) == \E s \in 0 .. cap - 1 : t[s] = e

\* No empty slot on the way to an entry.
Reached(t, cap) ==
    \A s \in Full(t, cap) :
        \E i \in 0 .. cap - 1 :
            /\ Probe(t[s].key, i, cap) = s
            /\ \A j \in 0 .. i : t[Probe(t[s].key, j, cap)] # Empty

\* What is not empty and not deleted is an entry.
LEMMA SlotCases ==
    ASSUME NEW e \in Entry \cup {Empty, Tomb}
    PROVE  Occupied(e) <=> e \in Entry
BY ConstantsAssumption DEF Occupied, Entry

\* The n-th slot is where the search for k stops.
StopsAt(t, cap, k, find_empty, n) ==
    /\ n \in 0 .. cap - 1
    /\ Stops(t[Probe(k, n, cap)], k, find_empty)
    /\ \A j \in 0 .. n - 1 : ~Stops(t[Probe(k, j, cap)], k, find_empty)

\* A search stops nowhere, or at one slot.
LEMMA FindCases ==
    ASSUME NEW t, NEW cap \in Nat, NEW k, NEW fe \in BOOLEAN
    PROVE  \/ /\ \A i \in 0 .. cap - 1 : ~Stops(t[Probe(k, i, cap)], k, fe)
              /\ FindEntry(t, cap, k, fe) = NotFound
           \/ \E n : /\ StopsAt(t, cap, k, fe, n)
                     /\ FindEntry(t, cap, k, fe) =
                          IF t[Probe(k, n, cap)] = Empty /\ ~fe THEN NotFound
                          ELSE Probe(k, n, cap)
<1> DEFINE stops == {i \in 0 .. cap - 1 : Stops(t[Probe(k, i, cap)], k, fe)}
           first == CHOOSE i \in stops : \A j \in stops : i <= j
<1>1. CASE stops = {}
  BY <1>1 DEF FindEntry
<1>2. CASE stops # {}
  <2>1. stops \subseteq Nat
    OBVIOUS
  <2>2. \E i \in stops : \A j \in stops : i <= j
    BY <1>2, <2>1, HasLeast
  <2>3. first \in stops /\ \A j \in stops : first <= j
    BY <2>2, Zenon
  <2>4. FindEntry(t, cap, k, fe) =
          IF t[Probe(k, first, cap)] = Empty /\ ~fe THEN NotFound ELSE Probe(k, first, cap)
    BY <1>2 DEF FindEntry
  <2> HIDE DEF first
  <2>5. StopsAt(t, cap, k, fe, first)
    BY <2>3 DEF StopsAt
  <2> QED BY <2>4, <2>5
<1> QED BY <1>1, <1>2

\* A search for an entry that stops at one finds it, and one that stops at an empty slot
\* finds nothing.
LEMMA FindAt ==
    ASSUME NEW t, NEW cap \in Nat, NEW k, NEW n, StopsAt(t, cap, k, FALSE, n)
    PROVE  /\ t[Probe(k, n, cap)] # Empty => FindEntry(t, cap, k, FALSE) = Probe(k, n, cap)
           /\ t[Probe(k, n, cap)] = Empty => FindEntry(t, cap, k, FALSE) = NotFound
<1>1. ASSUME NEW m, StopsAt(t, cap, k, FALSE, m) PROVE m = n
  <2>1. /\ m \in 0 .. cap - 1 /\ n \in 0 .. cap - 1
        /\ m \notin 0 .. n - 1 /\ n \notin 0 .. m - 1
    BY <1>1 DEF StopsAt
  <2> QED BY <2>1
<1>2. n \in 0 .. cap - 1 /\ Stops(t[Probe(k, n, cap)], k, FALSE)
  BY DEF StopsAt
<1> QED BY <1>1, <1>2, FindCases, ZenonT(60)

\* What is found is a slot of the table.
LEMMA FoundIn ==
    ASSUME NEW t, NEW cap \in Nat \ {0}, NEW k \in Keys, NEW fe \in BOOLEAN,
           FindEntry(t, cap, k, fe) # NotFound
    PROVE  /\ FindEntry(t, cap, k, fe) \in 0 .. cap - 1
           /\ \E n : /\ StopsAt(t, cap, k, fe, n)
                     /\ FindEntry(t, cap, k, fe) = Probe(k, n, cap)
<1>1. PICK n : /\ StopsAt(t, cap, k, fe, n)
               /\ FindEntry(t, cap, k, fe) = Probe(k, n, cap)
  BY FindCases
<1>2. n \in Nat
  BY <1>1 DEF StopsAt
<1> QED BY <1>1, <1>2, ProbeIn

\* A slot to write to is where the search for one stops.
LEMMA StopFor ==
    ASSUME NEW t, NEW cap \in Nat \ {0}, NEW k \in Keys, FindEntry(t, cap, k, TRUE) # NotFound
    PROVE  \E n : /\ StopsAt(t, cap, k, TRUE, n)
                  /\ FindEntry(t, cap, k, TRUE) = Probe(k, n, cap)
BY FoundIn

\* A table with a free slot has a slot for every key.
LEMMA Room ==
    ASSUME NEW t, NEW cap \in Nat \ {0}, Table(t, cap), NEW k \in Keys,
           NEW s \in 0 .. cap - 1, ~Occupied(t[s])
    PROVE  FindEntry(t, cap, k, TRUE) # NotFound
<1>1. cap \in Nat /\ cap > 0
  BY DEF Table
<1>2. PICK i \in 0 .. cap - 1 : Probe(k, i, cap) = s
  BY <1>1, ProbeAll
<1>3. Stops(t[Probe(k, i, cap)], k, TRUE)
  BY <1>2 DEF Stops, Occupied
<1>4. PICK n : /\ StopsAt(t, cap, k, TRUE, n)
               /\ FindEntry(t, cap, k, TRUE) = Probe(k, n, cap)
  BY <1>1, <1>3, FindCases, ZenonT(60)
<1>5. Probe(k, n, cap) \in 0 .. cap - 1
  BY <1>1, <1>4, ProbeIn DEF StopsAt
<1>6. NotFound \notin 0 .. cap - 1
  BY DEF NotFound
<1> QED BY <1>4, <1>5, <1>6, Zenon
-----------------------------------------------------------------------------
(* What writing an entry to the slot found for it does to a table. *)

\* The table after an entry of key k is written to the slot found for k.
Written(t, cap, k, v) ==
    [t EXCEPT ![FindEntry(t, cap, k, TRUE)] = [key |-> k, value |-> v]]

\* Table w of cap slots is t but for the slot s, where it has e.
Replaced(w, t, cap, s, e) ==
    w[s] = e /\ \A q \in 0 .. cap - 1 : q # s => w[q] = t[q]

\* The slot holds the entry and the others are as they were.
LEMMA WrittenIs ==
    ASSUME NEW t, NEW cap \in Nat \ {0}, Table(t, cap), NEW k \in Keys, NEW v \in Values,
           FindEntry(t, cap, k, TRUE) # NotFound
    PROVE  LET s == FindEntry(t, cap, k, TRUE)
               w == Written(t, cap, k, v)
               e == [key |-> k, value |-> v]
           IN  /\ s \in 0 .. cap - 1 /\ e \in Entry
               /\ Table(w, cap)
               /\ Replaced(w, t, cap, s, e)
               /\ Full(w, cap) = Full(t, cap) \cup {s}
               /\ Occupied(t[s]) => t[s].key = k
<1> DEFINE s == FindEntry(t, cap, k, TRUE)
<1>2. s \in 0 .. cap - 1
  BY FoundIn
<1>3. [key |-> k, value |-> v] \in Entry
  BY DEF Entry
<1>4. Occupied([key |-> k, value |-> v])
  BY <1>3, SlotCases
<1> DEFINE w == Written(t, cap, k, v)
<1>5. w = [t EXCEPT ![s] = [key |-> k, value |-> v]]
  BY DEF Written
<1> HIDE DEF w, s
<1>6. w[s] = [key |-> k, value |-> v] /\ \A q \in 0 .. cap - 1 : q # s => w[q] = t[q]
  BY <1>2, <1>5 DEF Table
<1>7. Table(w, cap)
  BY <1>2, <1>3, <1>5 DEF Table
<1>8. Full(w, cap) = Full(t, cap) \cup {s}
  BY <1>2, <1>4, <1>6 DEF Full
<1>9. Occupied(t[s]) => t[s].key = k
  <2>1. PICK n : StopsAt(t, cap, k, TRUE, n) /\ s = Probe(k, n, cap)
    BY FoundIn DEF s
  <2> QED BY <2>1 DEF StopsAt, Stops, Occupied
<1> QED BY <1>2, <1>3, <1>6, <1>7, <1>8, <1>9 DEF w, s, Replaced

\* Every entry stays within reach: no slot becomes empty, and on the way to the new one
\* the search met entries of other keys only.
LEMMA WrittenReached ==
    ASSUME NEW t, NEW cap \in Nat \ {0}, Table(t, cap), NEW k \in Keys, NEW v \in Values,
           FindEntry(t, cap, k, TRUE) # NotFound, Reached(t, cap)
    PROVE  Reached(Written(t, cap, k, v), cap)
<1> DEFINE s == FindEntry(t, cap, k, TRUE)
           w == Written(t, cap, k, v)
           e == [key |-> k, value |-> v]
<1>0. cap \in Nat /\ cap > 0 /\ t \in [0 .. cap - 1 -> Entry \cup {Empty, Tomb}]
  BY DEF Table
<1>1. /\ s \in 0 .. cap - 1 /\ e \in Entry
      /\ w[s] = e /\ \A q \in 0 .. cap - 1 : q # s => w[q] = t[q]
      /\ Full(w, cap) = Full(t, cap) \cup {s}
      /\ Occupied(t[s]) => t[s].key = k
  <2>1. Replaced(w, t, cap, s, e)
    BY WrittenIs, Zenon
  <2> QED BY <2>1, WrittenIs, ZenonT(60) DEF Replaced
<1>2. PICK n : StopsAt(t, cap, k, TRUE, n) /\ s = Probe(k, n, cap)
  BY StopFor, Zenon
<1> HIDE DEF w, s
<1>3. \A q \in 0 .. cap - 1 : t[q] # Empty => w[q] # Empty
  BY <1>0, <1>1, SlotCases DEF Occupied
<1>4. ASSUME NEW p \in Full(t, cap), p # s
      PROVE  \E i \in 0 .. cap - 1 : /\ Probe(w[p].key, i, cap) = p
                                     /\ \A j \in 0 .. i : w[Probe(w[p].key, j, cap)] # Empty
  <2>1. w[p] = t[p] /\ t[p].key \in Keys
    BY <1>0, <1>1, <1>4, SlotCases DEF Full, Entry
  <2>2. PICK i \in 0 .. cap - 1 : /\ Probe(t[p].key, i, cap) = p
                                  /\ \A j \in 0 .. i : t[Probe(t[p].key, j, cap)] # Empty
    BY <1>4 DEF Reached
  <2>3. ASSUME NEW j \in 0 .. i PROVE w[Probe(t[p].key, j, cap)] # Empty
    <3>1. j \in Nat
      BY <2>2
    <3>2. Probe(t[p].key, j, cap) \in 0 .. cap - 1
      BY <1>0, <2>1, <3>1, ProbeIn, Zenon
    <3> QED BY <1>3, <2>2, <3>2
  <2> QED BY <2>1, <2>2, <2>3
<1>5. \E i \in 0 .. cap - 1 : /\ Probe(w[s].key, i, cap) = s
                              /\ \A j \in 0 .. i : w[Probe(w[s].key, j, cap)] # Empty
  <2>1. w[s] = e /\ w[s].key = k /\ w[s] # Empty /\ n \in 0 .. cap - 1
    BY <1>0, <1>1, <1>2, SlotCases DEF Occupied, StopsAt
  <2>2. ASSUME NEW j \in 0 .. n PROVE w[Probe(k, j, cap)] # Empty
    <3>1. Probe(k, j, cap) \in 0 .. cap - 1
      BY <1>0, <1>1, <2>1, ProbeIn
    <3>2. j # n => t[Probe(k, j, cap)] # Empty
      BY <1>2, <2>1 DEF StopsAt, Stops
    <3> QED BY <1>0, <1>2, <1>3, <2>1, <3>1, <3>2
  <2> QED BY <1>2, <2>1, <2>2
<1> QED BY <1>0, <1>1, <1>4, <1>5, ZenonT(60) DEF Reached, Full, w, s
-----------------------------------------------------------------------------
(* Clean tables: no key twice, nothing deleted. *)

\* No two slots hold entries of one key.
Apart(t, cap) == \A a, b \in Full(t, cap) : t[a].key = t[b].key => a = b

\* A table that nothing was deleted from.
Clean(t, cap) ==
    /\ Table(t, cap) /\ Reached(t, cap) /\ Apart(t, cap)
    /\ \A s \in 0 .. cap - 1 : t[s] # Tomb

\* The entries of a key, of which a clean table has one or none.
LEMMA FindsEntry ==
    ASSUME NEW t, NEW cap \in Nat \ {0}, Clean(t, cap), NEW p \in Full(t, cap)
    PROVE  FindEntry(t, cap, t[p].key, FALSE) = p
<1> DEFINE k == t[p].key
<1>1. /\ t[p] \in Entry /\ k \in Keys /\ Occupied(t[p]) /\ cap \in Nat /\ cap > 0
      /\ t \in [0 .. cap - 1 -> Entry \cup {Empty, Tomb}]
  BY SlotCases DEF Clean, Table, Full, Entry
<1>2. PICK i \in 0 .. cap - 1 : /\ Probe(k, i, cap) = p
                                /\ \A j \in 0 .. i : t[Probe(k, j, cap)] # Empty
  BY DEF Clean, Reached
<1> HIDE DEF k
<1>3. Stops(t[Probe(k, i, cap)], k, FALSE)
  BY <1>1, <1>2 DEF Stops, k
<1>4. PICK n : /\ StopsAt(t, cap, k, FALSE, n)
               /\ FindEntry(t, cap, k, FALSE) =
                    IF t[Probe(k, n, cap)] = Empty /\ ~FALSE THEN NotFound ELSE Probe(k, n, cap)
  BY <1>1, <1>3, FindCases
<1>5. n \in 0 .. i
  <2>1. n \in 0 .. cap - 1 /\ i \notin 0 .. n - 1
    BY <1>3, <1>4 DEF StopsAt
  <2> QED BY <2>1
<1>6. Probe(k, n, cap) \in 0 .. cap - 1
  <2>1. n \in Nat
    BY <1>5
  <2> QED BY <1>1, <2>1, ProbeIn, Zenon
<1>7. t[Probe(k, n, cap)] # Empty
  BY <1>2, <1>5
<1>8. Occupied(t[Probe(k, n, cap)]) /\ t[Probe(k, n, cap)].key = k
  BY <1>4, <1>7 DEF StopsAt, Stops
<1>9. Probe(k, n, cap) = p
  BY <1>6, <1>8 DEF Clean, Apart, Full, k
<1> QED BY <1>4, <1>7, <1>9 DEF k

\* A key that no entry is of is not found.
LEMMA FindsNone ==
    ASSUME NEW t, NEW cap \in Nat \ {0}, NEW k \in Keys,
           \A p \in Full(t, cap) : t[p].key # k
    PROVE  FindEntry(t, cap, k, FALSE) = NotFound
<1>1. ASSUME NEW n, StopsAt(t, cap, k, FALSE, n) PROVE t[Probe(k, n, cap)] = Empty
  <2>1. n \in Nat /\ cap \in Nat /\ cap > 0
    BY <1>1 DEF StopsAt
  <2>2. Probe(k, n, cap) \in 0 .. cap - 1
    BY <2>1, ProbeIn, Zenon
  <2> QED BY <1>1, <2>2 DEF StopsAt, Stops, Full
<1> QED BY <1>1, FindCases, ZenonT(60)

\* What a search of table t reads of key k (hash_get).
ValueIn(t, cap, k) ==
    LET s == FindEntry(t, cap, k, FALSE) IN IF s = NotFound THEN NULL ELSE t[s].value

\* In a clean table it is the value of the entry of k.
LEMMA ValueIs ==
    ASSUME NEW t, NEW cap \in Nat \ {0}, Clean(t, cap), NEW k \in Keys
    PROVE  /\ \A e \in Entry : Has(t, cap, e) /\ e.key = k => ValueIn(t, cap, k) = e.value
           /\ (\A e \in Entry : Has(t, cap, e) => e.key # k) => ValueIn(t, cap, k) = NULL
<1>1. ASSUME NEW e \in Entry, Has(t, cap, e), e.key = k
      PROVE  ValueIn(t, cap, k) = e.value
  <2>1. PICK p \in 0 .. cap - 1 : t[p] = e
    BY <1>1 DEF Has
  <2>2. p \in Full(t, cap)
    BY <2>1, SlotCases DEF Full
  <2>3. FindEntry(t, cap, k, FALSE) = p
    BY <1>1, <2>1, <2>2, FindsEntry
  <2>4. NotFound \notin 0 .. cap - 1
    BY DEF NotFound
  <2> QED BY <2>1, <2>3, <2>4, Zenon DEF ValueIn
<1>2. ASSUME \A e \in Entry : Has(t, cap, e) => e.key # k
      PROVE  ValueIn(t, cap, k) = NULL
  <2>1. \A p \in Full(t, cap) : t[p] \in Entry /\ Has(t, cap, t[p])
    BY SlotCases DEF Full, Has, Clean, Table
  <2>2. FindEntry(t, cap, k, FALSE) = NotFound
    BY <1>2, <2>1, FindsNone
  <2> QED BY <2>2 DEF ValueIn
<1> QED BY <1>1, <1>2

\* Tables with the same entries of a key are read alike.
LEMMA ReadAlike ==
    ASSUME NEW t, NEW c \in Nat \ {0}, Clean(t, c), NEW u, NEW d \in Nat \ {0}, Clean(u, d),
           NEW k \in Keys,
           \A e \in Entry : e.key = k => (Has(t, c, e) <=> Has(u, d, e))
    PROVE  ValueIn(t, c, k) = ValueIn(u, d, k)
<1>1. CASE \E e \in Entry : Has(t, c, e) /\ e.key = k
  BY <1>1, ValueIs
<1>2. CASE \A e \in Entry : Has(t, c, e) => e.key # k
  <2>1. \A e \in Entry : Has(u, d, e) => e.key # k
    BY <1>2
  <2> QED BY <1>2, <2>1, ValueIs
<1> QED BY <1>1, <1>2

\* Table w has the entries of t, but e instead of the one of its key.
Puts(w, t, cap, e) ==
    \A f \in Entry : Has(w, cap, f) <=> f = e \/ (Has(t, cap, f) /\ f.key # e.key)

\* Written to a clean table an entry takes the place of the one of its key.
LEMMA WrittenClean ==
    ASSUME NEW t, NEW cap \in Nat \ {0}, Clean(t, cap), NEW k \in Keys, NEW v \in Values,
           FindEntry(t, cap, k, TRUE) # NotFound
    PROVE  LET w == Written(t, cap, k, v)
               e == [key |-> k, value |-> v]
           IN  /\ Clean(w, cap)
               /\ Puts(w, t, cap, e)
               /\ ~Occupied(t[FindEntry(t, cap, k, TRUE)]) =>
                    \A f \in Entry : Has(t, cap, f) => f.key # k
<1> DEFINE s == FindEntry(t, cap, k, TRUE)
           w == Written(t, cap, k, v)
           e == [key |-> k, value |-> v]
<1>1. /\ cap \in Nat /\ cap > 0 /\ t \in [0 .. cap - 1 -> Entry \cup {Empty, Tomb}]
      /\ Table(t, cap) /\ Reached(t, cap) /\ Apart(t, cap)
      /\ \A q \in 0 .. cap - 1 : t[q] # Tomb
  BY DEF Clean, Table
<1>2. /\ s \in 0 .. cap - 1 /\ e \in Entry /\ e.key = k /\ Table(w, cap)
      /\ w[s] = e /\ \A q \in 0 .. cap - 1 : q # s => w[q] = t[q]
      /\ Full(w, cap) = Full(t, cap) \cup {s}
      /\ Occupied(t[s]) => t[s].key = k
  <2>1. Replaced(w, t, cap, s, e)
    BY <1>1, WrittenIs, Zenon
  <2>2. s \in 0 .. cap - 1 /\ e \in Entry /\ Table(w, cap) /\ Full(w, cap) = Full(t, cap) \cup {s}
    BY <1>1, WrittenIs, Zenon
  <2>3. Occupied(t[s]) => t[s].key = k
    BY <1>1, WrittenIs, Zenon
  <2>4. e.key = k
    OBVIOUS
  <2> QED BY <2>1, <2>2, <2>3, <2>4, Zenon DEF Replaced
<1>3. PICK n : StopsAt(t, cap, k, TRUE, n) /\ s = Probe(k, n, cap)
  BY StopFor, Zenon
<1>4. Reached(w, cap)
  BY <1>1, WrittenReached
<1> HIDE DEF s, w, e
<1>5. ASSUME NEW p \in Full(t, cap), t[p].key = k PROVE p = s
  <2>1. CASE Occupied(t[s])
    BY <1>1, <1>2, <1>5, <2>1 DEF Apart, Full
  <2>2. CASE ~Occupied(t[s])
    <3>1. t[s] = Empty
      BY <1>1, <1>2, <2>2 DEF Occupied
    <3>2. PICK i \in 0 .. cap - 1 : /\ Probe(k, i, cap) = p
                                    /\ \A j \in 0 .. i : t[Probe(k, j, cap)] # Empty
      BY <1>1, <1>5 DEF Reached
    <3>3. n \in 0 .. cap - 1 /\ n \notin 0 .. i
      BY <1>3, <3>1, <3>2 DEF StopsAt
    <3>4. i \in 0 .. n - 1
      BY <3>3
    <3>5. Stops(t[Probe(k, i, cap)], k, TRUE)
      BY <1>5, <3>2 DEF Stops, Full
    <3> QED BY <1>3, <3>4, <3>5 DEF StopsAt
  <2> QED BY <2>1, <2>2
<1>6. Apart(w, cap)
  <2> SUFFICES ASSUME NEW a \in Full(w, cap), NEW b \in Full(w, cap), w[a].key = w[b].key
               PROVE  a = b
    BY DEF Apart
  <2>1. \A q \in Full(w, cap) : q # s => q \in Full(t, cap) /\ w[q] = t[q]
    BY <1>2 DEF Full
  <2>2. CASE a # s /\ b # s
    BY <1>1, <2>1, <2>2 DEF Apart
  <2>3. CASE a = s
    BY <1>2, <1>5, <2>1, <2>3
  <2>4. CASE b = s
    BY <1>2, <1>5, <2>1, <2>4
  <2> QED BY <2>2, <2>3, <2>4
<1>7. \A q \in 0 .. cap - 1 : w[q] # Tomb
  BY <1>1, <1>2, SlotCases DEF Occupied
<1>8. ASSUME NEW f \in Entry
      PROVE  Has(w, cap, f) <=> f = e \/ (Has(t, cap, f) /\ f.key # k)
  <2>1. ASSUME NEW q \in 0 .. cap - 1, w[q] = f, f # e
        PROVE  Has(t, cap, f) /\ f.key # k
    <3>1. q # s /\ t[q] = f
      BY <1>2, <2>1
    <3>2. q \in Full(t, cap)
      BY <3>1, SlotCases DEF Full
    <3> QED BY <1>5, <3>1, <3>2 DEF Has
  <2>2. ASSUME NEW q \in 0 .. cap - 1, t[q] = f, f.key # k
        PROVE  Has(w, cap, f)
    <3>1. q # s
      BY <1>2, <2>2, SlotCases
    <3> QED BY <1>2, <2>2, <3>1 DEF Has
  <2>3. Has(w, cap, e)
    BY <1>2 DEF Has
  <2> QED BY <2>1, <2>2, <2>3 DEF Has
<1>9. ~Occupied(t[s]) => \A f \in Entry : Has(t, cap, f) => f.key # k
  <2> SUFFICES ASSUME ~Occupied(t[s]), NEW q \in 0 .. cap - 1, t[q] \in Entry, t[q].key = k
               PROVE  FALSE
    BY DEF Has
  <2>1. q \in Full(t, cap)
    BY SlotCases DEF Full
  <2> QED BY <1>5, <2>1 DEF Full
<1>10. Clean(w, cap)
  BY <1>2, <1>4, <1>6, <1>7 DEF Clean
<1>11. Puts(w, t, cap, e)
  BY <1>2, <1>8 DEF Puts
<1> QED BY <1>9, <1>10, <1>11, Zenon DEF s, w, e
-----------------------------------------------------------------------------
(* How full a table is. *)

\* There are no more entries than slots; with fewer, a slot is free.
LEMMA FullCounted ==
    ASSUME NEW t, NEW cap \in Nat
    PROVE  /\ IsFiniteSet(Full(t, cap)) /\ Cardinality(Full(t, cap)) \in 0 .. cap
           /\ Cardinality(Full(t, cap)) < cap => \E s \in 0 .. cap - 1 : ~Occupied(t[s])
<1>1. IsFiniteSet(0 .. cap - 1) /\ Cardinality(0 .. cap - 1) = cap
  <2>1. 0 \in Int /\ cap - 1 \in Int
    OBVIOUS
  <2>2. IsFiniteSet(0 .. cap - 1)
        /\ Cardinality(0 .. cap - 1) = IF 0 > cap - 1 THEN 0 ELSE (cap - 1) - 0 + 1
    BY <2>1, FS_Interval
  <2> QED BY <2>2
<1>2. Full(t, cap) \subseteq 0 .. cap - 1
  BY DEF Full
<1>3. /\ IsFiniteSet(Full(t, cap)) /\ Cardinality(Full(t, cap)) <= cap
      /\ Cardinality(Full(t, cap)) \in Nat
  BY <1>1, <1>2, FS_Subset, FS_CardinalityType
<1>4. ASSUME \A s \in 0 .. cap - 1 : Occupied(t[s])
      PROVE  Cardinality(Full(t, cap)) = cap
  <2>1. Full(t, cap) = 0 .. cap - 1
    BY <1>4 DEF Full
  <2> QED BY <1>1, <2>1
<1> QED BY <1>3, <1>4

\* Writing an entry fills one more slot, or none if the slot holds an entry already.
LEMMA WrittenCounted ==
    ASSUME NEW t, NEW cap \in Nat \ {0}, Table(t, cap), NEW k \in Keys, NEW v \in Values,
           FindEntry(t, cap, k, TRUE) # NotFound
    PROVE  Cardinality(Full(Written(t, cap, k, v), cap)) =
             IF Occupied(t[FindEntry(t, cap, k, TRUE)]) THEN Cardinality(Full(t, cap))
             ELSE Cardinality(Full(t, cap)) + 1
<1> DEFINE s == FindEntry(t, cap, k, TRUE)
           F == Full(t, cap)
<1>1. s \in 0 .. cap - 1
  BY WrittenIs, Zenon
<1>2. Full(Written(t, cap, k, v), cap) = F \cup {s}
  BY WrittenIs, Zenon
<1>3. IsFiniteSet(F)
  BY FullCounted
<1>4. s \in F <=> Occupied(t[s])
  BY <1>1 DEF Full
<1> HIDE DEF F, s
<1>5. CASE s \in F
  <2>1. F \cup {s} = F
    BY <1>5
  <2> QED BY <1>2, <1>4, <1>5, <2>1 DEF F, s
<1>6. CASE s \notin F
  <2>1. Cardinality(F \cup {s}) = Cardinality(F) + 1
    BY <1>3, <1>6, FS_AddElement
  <2> QED BY <1>2, <1>4, <1>6, <2>1 DEF F, s
<1> QED BY <1>5, <1>6

-----------------------------------------------------------------------------
(* Growth. *)

\* The table with no entries is clean.
LEMMA NoEntriesClean ==
    ASSUME NEW cap \in Nat \ {0}
    PROVE  /\ Clean(NoEntries(cap), cap) /\ Full(NoEntries(cap), cap) = {}
           /\ \A e \in Entry : ~Has(NoEntries(cap), cap, e)
<1> DEFINE t == NoEntries(cap)
<1>1. t \in [0 .. cap - 1 -> Entry \cup {Empty, Tomb}] /\ \A s \in 0 .. cap - 1 : t[s] = Empty
  BY DEF NoEntries
<1> HIDE DEF t
<1>2. Empty # Tomb /\ Empty \notin Entry /\ ~Occupied(Empty)
  BY ConstantsAssumption DEF Entry, Occupied
<1>3. Full(t, cap) = {}
  BY <1>1, <1>2 DEF Full
<1>4. \A e \in Entry : ~Has(t, cap, e)
  BY <1>1, <1>2 DEF Has
<1>5. Table(t, cap) /\ Reached(t, cap) /\ Apart(t, cap) /\ \A s \in 0 .. cap - 1 : t[s] # Tomb
  BY <1>1, <1>2, <1>3 DEF Table, Reached, Apart
<1> QED BY <1>3, <1>4, <1>5 DEF Clean, t

\* The old table's entries, without the deleted: each is within reach in the new table, of
\* a key that was there more than once the last; of keys apart, all.
LEMMA RehashIs ==
    ASSUME capacity \in Nat \ {0}, Table(entries, capacity), NEW cap \in Nat, cap > capacity
    PROVE  /\ Clean(Rehash(cap), cap)
           /\ Cardinality(Full(Rehash(cap), cap)) <= Cardinality(Full(entries, capacity))
           /\ Apart(entries, capacity) =>
                /\ \A e \in Entry : Has(Rehash(cap), cap, e) <=> Has(entries, capacity, e)
                /\ Cardinality(Full(Rehash(cap), cap)) = Cardinality(Full(entries, capacity))
<1>1. PICK m : /\ m[0] = NoEntries(cap) /\ Rehash(cap) = m[capacity]
               /\ \A i \in 1 .. capacity : m[i] = Moved(m[i - 1], cap, entries[i - 1])
  BY RehashSteps
<1> DEFINE Old(i)   == Full(entries, i)
           Same(i)  == /\ \A e \in Entry : Has(m[i], cap, e) <=> \E s \in Old(i) : entries[s] = e
                       /\ Cardinality(Full(m[i], cap)) = Cardinality(Old(i))
           Claim(i) == /\ Clean(m[i], cap)
                       /\ Cardinality(Full(m[i], cap)) <= Cardinality(Old(i))
                       /\ Apart(entries, capacity) => Same(i)
           Bad      == {i \in 0 .. capacity : ~Claim(i)}
<1>2. Claim(0)
  <2>1. Full(entries, 0) = {}
    BY DEF Full
  <2>2. cap \in Nat \ {0} /\ m[0] = NoEntries(cap)
    BY <1>1
  <2>3. /\ Clean(m[0], cap) /\ Full(m[0], cap) = {} /\ Old(0) = {}
        /\ \A e \in Entry : ~Has(m[0], cap, e)
    BY <2>1, <2>2, NoEntriesClean
  <2>4. Cardinality({}) = 0
    BY FS_EmptySet
  <2> HIDE DEF Old
  <2> QED BY <2>3, <2>4
<1>3. ASSUME NEW i \in 1 .. capacity, Claim(i - 1), ~Occupied(entries[i - 1])
      PROVE  Claim(i)
  <2>1. Old(i) = Old(i - 1)
    BY <1>3 DEF Full
  <2>2. m[i] = m[i - 1]
    BY <1>1, <1>3 DEF Moved
  <2> QED BY <1>3, <2>1, <2>2
<1>4. ASSUME NEW i \in 1 .. capacity, Claim(i - 1), Occupied(entries[i - 1])
      PROVE  Claim(i)
  <2>1. i - 1 \in 0 .. capacity - 1 /\ i - 1 \in Nat /\ i \in Nat /\ cap \in Nat \ {0}
    OBVIOUS
  <2>2. entries[i - 1] \in Entry
    BY <1>4, <2>1, SlotCases DEF Table
  <2>3. PICK k \in Keys, v \in Values : entries[i - 1] = [key |-> k, value |-> v]
    BY <2>2 DEF Entry
  <2> DEFINE t == m[i - 1]
             e == [key |-> k, value |-> v]
             w == Written(t, cap, k, v)
             s == FindEntry(t, cap, k, TRUE)
  <2>4. m[i] = w
    <3>1. m[i] = Moved(t, cap, entries[i - 1])
      BY <1>1
    <3>2. Occupied(e) /\ e.key = k
      BY <1>4, <2>3
    <3>3. Moved(t, cap, e) = w
      BY <3>2 DEF Moved, Written
    <3>4. entries[i - 1] = e
      BY <2>3
    <3> HIDE DEF t, e, w
    <3> QED BY <3>1, <3>3, <3>4, Zenon
  <2>5. /\ Old(i) = Old(i - 1) \cup {i - 1} /\ i - 1 \notin Old(i - 1)
        /\ IsFiniteSet(Old(i - 1)) /\ Cardinality(Old(i - 1)) \in 0 .. i - 1
    <3>1. Old(i) = Old(i - 1) \cup {i - 1} /\ i - 1 \notin Old(i - 1)
      BY <1>4, <2>1 DEF Full
    <3>2. IsFiniteSet(Old(i - 1)) /\ Cardinality(Old(i - 1)) \in 0 .. i - 1
      BY <2>1, FullCounted
    <3> QED BY <3>1, <3>2
  <2>6. Cardinality(Old(i)) = Cardinality(Old(i - 1)) + 1
    BY <2>5, FS_AddElement
  <2>7. Clean(t, cap) /\ Table(t, cap) /\ Cardinality(Full(t, cap)) <= Cardinality(Old(i - 1))
    BY <1>4 DEF Clean
  <2>8. Cardinality(Full(t, cap)) \in Nat
    BY FullCounted
  <2>9. PICK q \in 0 .. cap - 1 : ~Occupied(t[q])
    BY <2>1, <2>5, <2>7, <2>8, FullCounted
  <2>10. s # NotFound
    BY <2>1, <2>7, <2>9, Room, Zenon
  <2>11. Clean(w, cap) /\ Puts(w, t, cap, e)
    BY <2>1, <2>7, <2>10, WrittenClean, Zenon
  <2>12. Cardinality(Full(w, cap)) =
           IF Occupied(t[s]) THEN Cardinality(Full(t, cap)) ELSE Cardinality(Full(t, cap)) + 1
    BY <2>1, <2>7, <2>10, WrittenCounted, Zenon
  <2>13. ASSUME Apart(entries, capacity) PROVE Same(i)
    <3>1. \A f \in Entry : Has(t, cap, f) <=> \E p \in Old(i - 1) : entries[p] = f
      BY <1>4, <2>13
    <3>2. \A p \in Old(i - 1) : entries[p].key # k
      BY <1>4, <2>1, <2>3, <2>13 DEF Full, Apart
    <3>3. \A f \in Entry : Has(t, cap, f) => f.key # k
      BY <3>1, <3>2
    <3>4. \A f \in Entry : Has(w, cap, f) <=> \E p \in Old(i) : entries[p] = f
      <4>1. \A f \in Entry : Has(w, cap, f) <=> f = e \/ Has(t, cap, f)
        BY <2>11, <3>3 DEF Puts
      <4>2. ASSUME NEW f \in Entry
            PROVE  (\E p \in Old(i) : entries[p] = f) <=>
                     f = entries[i - 1] \/ \E p \in Old(i - 1) : entries[p] = f
        BY <2>5
      <4> HIDE DEF w, t, Old
      <4> QED BY <2>3, <3>1, <4>1, <4>2
    <3>5. ~Occupied(t[s])
      <4>1. s \in 0 .. cap - 1
        BY <2>1, <2>7, <2>10, WrittenIs, Zenon
      <4>2. Occupied(t[s]) => t[s].key = k
        BY <2>1, <2>7, <2>10, WrittenIs, Zenon
      <4>3. Occupied(t[s]) => t[s] \in Entry /\ Has(t, cap, t[s])
        BY <2>7, <4>1, SlotCases DEF Has, Table
      <4> QED BY <3>3, <4>2, <4>3
    <3>6. Cardinality(Full(t, cap)) = Cardinality(Old(i - 1))
      BY <1>4, <2>13
    <3> QED BY <2>4, <2>6, <2>12, <3>4, <3>5, <3>6
  <2>14. Cardinality(Full(m[i], cap)) <= Cardinality(Old(i))
    <3>1. Cardinality(Old(i - 1)) \in Nat
      BY <2>1, <2>5
    <3>2. \A x, y \in Nat : x <= y => x <= y + 1 /\ x + 1 <= y + 1
      OBVIOUS
    <3>3. CASE Occupied(t[s])
      BY <2>4, <2>6, <2>7, <2>8, <2>12, <3>1, <3>2, <3>3, Zenon
    <3>4. CASE ~Occupied(t[s])
      BY <2>4, <2>6, <2>7, <2>8, <2>12, <3>1, <3>2, <3>4, Zenon
    <3> QED BY <3>3, <3>4
  <2> QED BY <2>4, <2>11, <2>13, <2>14
<1> HIDE DEF Claim
<1>5. Bad = {}
  <2> SUFFICES ASSUME Bad # {} PROVE FALSE
    OBVIOUS
  <2>1. Bad \subseteq Nat
    OBVIOUS
  <2>2. PICK i \in Bad : \A j \in Bad : i <= j
    BY <2>1, HasLeast
  <2>3. i \in 1 .. capacity /\ i - 1 \notin Bad /\ i - 1 \in 0 .. capacity
    BY <1>2, <2>2
  <2>4. Claim(i - 1)
    BY <2>3
  <2> QED BY <1>3, <1>4, <2>2, <2>3, <2>4
<1>6. Claim(capacity)
  BY <1>5
<1>7. \A e \in Entry : (\E s \in Old(capacity) : entries[s] = e) <=> Has(entries, capacity, e)
  BY SlotCases DEF Full, Has
<1> QED BY <1>1, <1>6, <1>7 DEF Claim
-----------------------------------------------------------------------------
(* The invariant. *)

\* A table that can be searched, with the count the load check goes by.
Fit(t, cap, n) ==
    /\ cap \in InitialCapacity .. MaxCapacity
    /\ Table(t, cap) /\ Reached(t, cap)
    /\ n \in Nat /\ Cardinality(Full(t, cap)) <= n
    /\ \E s \in 0 .. cap - 1 : ~Occupied(t[s])

\* A clean table that is counted exactly.
Exact(t, cap, n) == Clean(t, cap) /\ Cardinality(Full(t, cap)) = n

\* The invariant; the counts and the pristine tables are what a growth has to keep.
TableInv ==
    /\ Fit(entries, capacity, count)
    /\ pristine => Exact(entries, capacity, count)
    /\ expected \in [Keys -> Values \cup {NULL}]
    /\ pristine \in BOOLEAN

\* Both tables have the same entries.
SameEntries(t, c, u, d) == \A e \in Entry : Has(t, c, e) <=> Has(u, d, e)

\* A capacity is a number of slots.
LEMMA Capacities ==
    ASSUME NEW c \in InitialCapacity .. MaxCapacity
    PROVE  c \in Nat \ {0} /\ c >= 5
BY ConstantsAssumption

\* The capacity grown to is the largest of three (hash_grow).
LEMMA NewCapacityIs ==
    ASSUME capacity \in Nat, NEW n \in Nat
    PROVE  /\ NewCapacity(n) \in Nat
           /\ NewCapacity(n) >= capacity * 2
           /\ NewCapacity(n) >= InitialCapacity
           /\ NewCapacity(n) >= n
<1> DEFINE S == {capacity * 2, InitialCapacity, n}
<1>1. S \subseteq Nat
  BY ConstantsAssumption
<1>2. \E m \in S : \A x \in S : x <= m
  BY <1>1
<1>3. MaxOf(S) \in S /\ \A x \in S : x <= MaxOf(S)
  BY <1>2, Zenon DEF MaxOf
<1>4. NewCapacity(n) = MaxOf(S)
  BY DEF NewCapacity
<1> HIDE DEF S
<1>5. NewCapacity(n) \in Nat /\ \A x \in S : x <= NewCapacity(n)
  BY <1>1, <1>3, <1>4
<1>6. capacity * 2 \in S /\ InitialCapacity \in S /\ n \in S
  BY DEF S
<1>7. capacity * 2 \in Nat /\ InitialCapacity \in Nat
  BY ConstantsAssumption
<1> QED BY <1>5, <1>6, <1>7

\* A growth leaves a fit table, at least twice as large, with the entries of a clean one.
LEMMA GrownIs ==
    ASSUME TableInv, NEW n \in Nat, CanGrow(n)
    PROVE  LET g == Grown(n)
           IN  /\ Fit(g.entries, g.capacity, g.count)
               /\ capacity >= n => g.capacity = capacity /\ g.entries = entries /\ g.count = count
               /\ capacity < n => /\ g.capacity >= capacity * 2
                                  /\ Cardinality(Full(g.entries, g.capacity)) <= capacity
               /\ pristine => /\ Exact(g.entries, g.capacity, g.count)
                              /\ SameEntries(entries, capacity, g.entries, g.capacity)
<1>1. /\ capacity \in Nat \ {0} /\ capacity >= 5 /\ Table(entries, capacity)
      /\ capacity \in InitialCapacity .. MaxCapacity
      /\ Cardinality(Full(entries, capacity)) \in 0 .. capacity
  BY Capacities, FullCounted DEF TableInv, Fit
<1>2. CASE capacity >= n
  <2>1. Grown(n) = [capacity |-> capacity, entries |-> entries, count |-> count]
    BY <1>2 DEF Grown
  <2>2. ~(capacity < n)
    BY <1>1, <1>2
  <2>3. SameEntries(entries, capacity, entries, capacity)
    BY DEF SameEntries
  <2> QED BY <1>2, <2>1, <2>2, <2>3 DEF TableInv
<1>3. CASE ~(capacity >= n)
  <2> DEFINE cap == NewCapacity(n)
             new == Rehash(cap)
             old == Cardinality(Full(entries, capacity))
  <2>1. /\ cap \in Nat /\ cap >= capacity * 2 /\ cap >= InitialCapacity
        /\ cap <= MaxCapacity
    BY <1>1, <1>3, NewCapacityIs DEF CanGrow
  <2>2. cap > capacity /\ cap \in InitialCapacity .. MaxCapacity
    BY <1>1, <2>1, ConstantsAssumption
  <2>3. OccupiedSlots = Full(entries, capacity)
    BY DEF OccupiedSlots, Full, Slots
  <2>4. Grown(n).capacity = cap /\ Grown(n).entries = new /\ Grown(n).count = old
    BY <1>3, <2>3 DEF Grown
  <2>5. /\ Clean(new, cap) /\ Cardinality(Full(new, cap)) <= old
        /\ Apart(entries, capacity) =>
             /\ \A e \in Entry : Has(new, cap, e) <=> Has(entries, capacity, e)
             /\ Cardinality(Full(new, cap)) = old
    BY <1>1, <2>1, <2>2, RehashIs
  <2>6. Cardinality(Full(new, cap)) \in Nat
    BY <2>1, FullCounted
  <2> HIDE DEF cap, new, old
  <2>7. old \in Nat /\ old <= capacity
    BY <1>1 DEF old
  <2>8. Cardinality(Full(new, cap)) < cap /\ Cardinality(Full(new, cap)) <= capacity
    BY <1>1, <2>1, <2>2, <2>5, <2>6, <2>7
  <2>9. Fit(new, cap, old)
    <3>1. \E s \in 0 .. cap - 1 : ~Occupied(new[s])
      BY <2>1, <2>8, FullCounted
    <3> QED BY <2>2, <2>5, <2>7, <3>1 DEF Fit, Clean
  <2>10. ASSUME pristine
         PROVE  Exact(new, cap, old) /\ SameEntries(entries, capacity, new, cap)
    <3>1. Apart(entries, capacity)
      BY <2>10 DEF TableInv, Exact, Clean
    <3> QED BY <2>5, <3>1 DEF Exact, SameEntries
  <2> QED BY <1>3, <2>1, <2>4, <2>8, <2>9, <2>10
<1> QED BY <1>2, <1>3

\* The table hash_set works on has room for one more entry, after which a slot is free.
LEMMA LoadedIs ==
    ASSUME TableInv, NeedsGrowth => CanGrow(capacity * 2)
    PROVE  LET g == Loaded
           IN  /\ Fit(g.entries, g.capacity, g.count)
               /\ Cardinality(Full(g.entries, g.capacity)) + 1 < g.capacity
               /\ g.capacity = InitialCapacity => g.capacity = capacity /\ g.entries = entries
               /\ pristine => /\ Exact(g.entries, g.capacity, g.count)
                              /\ SameEntries(entries, capacity, g.entries, g.capacity)
<1>1. /\ capacity \in Nat \ {0} /\ capacity >= 5 /\ count \in Nat /\ capacity * 2 \in Nat
      /\ capacity >= InitialCapacity /\ InitialCapacity \in Nat
      /\ Cardinality(Full(entries, capacity)) \in Nat
      /\ Cardinality(Full(entries, capacity)) <= count
  BY Capacities, FullCounted, ConstantsAssumption DEF TableInv, Fit
<1>2. CASE NeedsGrowth
  <2> DEFINE g == Grown(capacity * 2)
             n == Cardinality(Full(g.entries, g.capacity))
  <2>1. Loaded = g
    BY <1>2 DEF Loaded
  <2>2. capacity < capacity * 2 /\ ~(capacity >= capacity * 2)
    BY <1>1
  <2>3. /\ Fit(g.entries, g.capacity, g.count)
        /\ g.capacity >= capacity * 2 /\ n <= capacity
        /\ pristine => /\ Exact(g.entries, g.capacity, g.count)
                       /\ SameEntries(entries, capacity, g.entries, g.capacity)
    BY <1>1, <1>2, <2>2, GrownIs
  <2>4. g.capacity \in Nat /\ n \in Nat
    BY <2>3, Capacities, FullCounted DEF Fit
  <2> HIDE DEF g, n
  <2>5. n + 1 < g.capacity /\ g.capacity # InitialCapacity
    BY <1>1, <2>3, <2>4
  <2> QED BY <2>1, <2>3, <2>5 DEF n
<1>3. CASE ~NeedsGrowth
  <2>1. Loaded = [capacity |-> capacity, entries |-> entries, count |-> count]
    BY <1>3 DEF Loaded
  <2>2. ~(count * 4 > capacity * 3)
    BY <1>3 DEF NeedsGrowth
  <2>3. Cardinality(Full(entries, capacity)) + 1 < capacity
    BY <1>1, <2>2
  <2> QED BY <2>1, <2>3 DEF TableInv, SameEntries
<1> QED BY <1>2, <1>3

\* An entry written to a fit table with room leaves it fit and, if it was, exact.
LEMMA WrittenFit ==
    ASSUME NEW t, NEW cap, NEW n, Fit(t, cap, n), Cardinality(Full(t, cap)) + 1 < cap,
           NEW k \in Keys, NEW v \in Values, FindEntry(t, cap, k, TRUE) # NotFound
    PROVE  LET w == Written(t, cap, k, v)
               m == IF Occupied(t[FindEntry(t, cap, k, TRUE)]) THEN n ELSE n + 1
           IN  /\ Fit(w, cap, m)
               /\ Exact(t, cap, n) => Exact(w, cap, m) /\ Puts(w, t, cap, [key |-> k, value |-> v])
<1> DEFINE w == Written(t, cap, k, v)
           s == FindEntry(t, cap, k, TRUE)
           m == IF Occupied(t[s]) THEN n ELSE n + 1
<1>1. cap \in Nat \ {0} /\ Table(t, cap) /\ Reached(t, cap) /\ n \in Nat
  BY Capacities DEF Fit
<1>2. Table(w, cap) /\ Reached(w, cap)
  <2>1. Table(w, cap)
    BY <1>1, WrittenIs, Zenon
  <2> QED BY <1>1, <2>1, WrittenReached
<1>3. Cardinality(Full(w, cap)) =
        IF Occupied(t[s]) THEN Cardinality(Full(t, cap)) ELSE Cardinality(Full(t, cap)) + 1
  BY <1>1, WrittenCounted, Zenon
<1>4. Cardinality(Full(t, cap)) \in Nat /\ Cardinality(Full(w, cap)) \in Nat
  BY <1>1, FullCounted
<1>5. Cardinality(Full(w, cap)) < cap
  <2>1. CASE Occupied(t[s])
    BY <1>1, <1>3, <1>4, <2>1
  <2>2. CASE ~Occupied(t[s])
    BY <1>1, <1>3, <1>4, <2>2
  <2> QED BY <2>1, <2>2
<1>6. \E q \in 0 .. cap - 1 : ~Occupied(w[q])
  BY <1>1, <1>5, FullCounted
<1>7. m \in Nat /\ Cardinality(Full(w, cap)) <= m
  <2>1. Cardinality(Full(t, cap)) <= n
    BY DEF Fit
  <2>2. CASE Occupied(t[s])
    BY <1>1, <1>3, <1>4, <2>1, <2>2
  <2>3. CASE ~Occupied(t[s])
    BY <1>1, <1>3, <1>4, <2>1, <2>3
  <2> QED BY <2>2, <2>3
<1>8. Fit(w, cap, m)
  BY <1>2, <1>6, <1>7 DEF Fit
<1>9. ASSUME Exact(t, cap, n)
      PROVE  Exact(w, cap, m) /\ Puts(w, t, cap, [key |-> k, value |-> v])
  <2>1. Clean(t, cap) /\ Cardinality(Full(t, cap)) = n
    BY <1>9 DEF Exact
  <2>2. Clean(w, cap) /\ Puts(w, t, cap, [key |-> k, value |-> v])
    BY <1>1, <2>1, WrittenClean, Zenon
  <2>3. Cardinality(Full(w, cap)) = m
    BY <1>3, <2>1
  <2> QED BY <2>2, <2>3 DEF Exact
<1> QED BY <1>8, <1>9
-----------------------------------------------------------------------------
(* Every step keeps the invariant. *)

\* The new table has every slot empty.
LEMMA InitFit == Init => TableInv
<1> SUFFICES ASSUME Init PROVE TableInv
  OBVIOUS
<1>1. InitialCapacity \in InitialCapacity .. MaxCapacity /\ InitialCapacity \in Nat \ {0}
  BY ConstantsAssumption
<1>2. /\ Clean(NoEntries(InitialCapacity), InitialCapacity)
      /\ Full(NoEntries(InitialCapacity), InitialCapacity) = {}
  BY <1>1, NoEntriesClean
<1>3. Cardinality({}) = 0
  BY FS_EmptySet
<1>4. \E s \in 0 .. InitialCapacity - 1 : ~Occupied(NoEntries(InitialCapacity)[s])
  BY <1>1 DEF NoEntries, Occupied
<1>5. Fit(NoEntries(InitialCapacity), InitialCapacity, 0)
  BY <1>1, <1>2, <1>3, <1>4 DEF Fit, Clean
<1> QED BY <1>2, <1>3, <1>5 DEF Init, TableInv, Exact

\* hash_set writes the entry to the table as it is or has grown.
LEMMA SetIs ==
    ASSUME TableInv, NEW k \in Keys, NEW v \in Values, SetSucceeds(k, v)
    PROVE  LET g == Loaded
           IN  /\ FindEntry(g.entries, g.capacity, k, TRUE) # NotFound
               /\ capacity' = g.capacity /\ entries' = Written(g.entries, g.capacity, k, v)
               /\ Fit(entries, capacity, count)'
               /\ pristine =>
                    /\ Exact(entries, capacity, count)'
                    /\ \A f \in Entry : Has(entries, capacity, f)' <=>
                         f = [key |-> k, value |-> v] \/ (Has(entries, capacity, f) /\ f.key # k)
<1> DEFINE g == Loaded
           s == FindEntry(g.entries, g.capacity, k, TRUE)
           w == Written(g.entries, g.capacity, k, v)
           m == IF Occupied(g.entries[s]) THEN g.count ELSE g.count + 1
<1>1. /\ NeedsGrowth => CanGrow(capacity * 2)
      /\ s # NotFound /\ capacity' = g.capacity /\ entries' = w /\ count' = m
  BY DEF SetSucceeds, Written
<1>2. /\ Fit(g.entries, g.capacity, g.count)
      /\ Cardinality(Full(g.entries, g.capacity)) + 1 < g.capacity
      /\ pristine => /\ Exact(g.entries, g.capacity, g.count)
                     /\ SameEntries(entries, capacity, g.entries, g.capacity)
  BY <1>1, LoadedIs
<1>3. /\ Fit(w, g.capacity, m)
      /\ Exact(g.entries, g.capacity, g.count) =>
           Exact(w, g.capacity, m) /\ Puts(w, g.entries, g.capacity, [key |-> k, value |-> v])
  BY <1>1, <1>2, WrittenFit, Zenon
<1> HIDE DEF g, w, m, s
<1>4. ASSUME pristine, NEW f \in Entry
      PROVE  Has(entries', capacity', f) <=>
               f = [key |-> k, value |-> v] \/ (Has(entries, capacity, f) /\ f.key # k)
  <2>1. Puts(w, g.entries, g.capacity, [key |-> k, value |-> v])
    BY <1>2, <1>3, <1>4
  <2>2. Has(g.entries, g.capacity, f) <=> Has(entries, capacity, f)
    BY <1>2, <1>4 DEF SameEntries
  <2>3. [key |-> k, value |-> v].key = k
    OBVIOUS
  <2> QED BY <1>1, <2>1, <2>2, <2>3 DEF Puts
<1>5. Fit(entries', capacity', count') /\ (pristine => Exact(entries', capacity', count'))
  BY <1>1, <1>2, <1>3
<1> QED BY <1>1, <1>4, <1>5 DEF g, w, s

\* A deletion leaves no slot empty that was not, and frees one (hash_delete).
LEMMA DeleteKeeps ==
    ASSUME TableInv, NEW k \in Keys, hash_delete(k)
    PROVE  Fit(entries, capacity, count)'
<1> DEFINE s == FindEntry(entries, capacity, k, FALSE)
<1>1. /\ s # NotFound /\ entries' = [entries EXCEPT ![s] = Tomb]
      /\ count' = count - 1 /\ capacity' = capacity
  BY DEF hash_delete
<1>2. /\ capacity \in InitialCapacity .. MaxCapacity /\ capacity \in Nat \ {0} /\ capacity \in Nat
      /\ capacity > 0 /\ count \in Nat
      /\ Table(entries, capacity) /\ Reached(entries, capacity)
      /\ Cardinality(Full(entries, capacity)) <= count
      /\ entries \in [0 .. capacity - 1 -> Entry \cup {Empty, Tomb}]
  BY Capacities DEF TableInv, Fit, Table
<1>3. s \in 0 .. capacity - 1 /\ \E n : StopsAt(entries, capacity, k, FALSE, n)
                                       /\ s = Probe(k, n, capacity)
  BY <1>1, <1>2, FoundIn
<1>4. PICK n : StopsAt(entries, capacity, k, FALSE, n) /\ s = Probe(k, n, capacity)
  BY <1>3
<1>5. entries[s] # Empty
  <2>1. StopsAt(entries, capacity, k, FALSE, n)
    BY <1>4
  <2>2. entries[Probe(k, n, capacity)] = Empty => FindEntry(entries, capacity, k, FALSE) = NotFound
    BY <1>2, <2>1, FindAt, Zenon
  <2> QED BY <1>1, <1>4, <2>2
<1>6. s \in Full(entries, capacity)
  BY <1>3, <1>4, <1>5 DEF StopsAt, Stops, Full
<1> HIDE DEF s
<1>7. entries'[s] = Tomb /\ \A p \in 0 .. capacity - 1 : p # s => entries'[p] = entries[p]
  BY <1>1, <1>2, <1>3
<1>8. Tomb # Empty /\ ~Occupied(Tomb)
  BY ConstantsAssumption DEF Occupied
<1>9. Table(entries', capacity)
  BY <1>1, <1>2, <1>3 DEF Table
<1>10. Full(entries', capacity) = Full(entries, capacity) \ {s}
  BY <1>3, <1>7, <1>8 DEF Full
<1>11. Reached(entries', capacity)
  <2> SUFFICES ASSUME NEW p \in Full(entries', capacity)
               PROVE  \E i \in 0 .. capacity - 1 :
                        /\ Probe(entries'[p].key, i, capacity) = p
                        /\ \A j \in 0 .. i : entries'[Probe(entries'[p].key, j, capacity)] # Empty
    BY DEF Reached
  <2>1. p \in Full(entries, capacity) /\ p # s /\ p \in 0 .. capacity - 1
    BY <1>10 DEF Full
  <2>2. entries'[p] = entries[p] /\ entries[p].key \in Keys
    BY <1>2, <1>7, <2>1, SlotCases DEF Full, Entry
  <2>3. PICK i \in 0 .. capacity - 1 :
          /\ Probe(entries[p].key, i, capacity) = p
          /\ \A j \in 0 .. i : entries[Probe(entries[p].key, j, capacity)] # Empty
    BY <1>2, <2>1 DEF Reached
  <2>4. ASSUME NEW j \in 0 .. i PROVE entries'[Probe(entries[p].key, j, capacity)] # Empty
    <3>1. j \in Nat
      BY <2>3
    <3>2. Probe(entries[p].key, j, capacity) \in 0 .. capacity - 1
      BY <1>2, <2>2, <3>1, ProbeIn, Zenon
    <3> QED BY <1>7, <1>8, <2>3, <3>2
  <2> QED BY <2>2, <2>3, <2>4
<1>12. count - 1 \in Nat /\ Cardinality(Full(entries', capacity)) <= count - 1
  <2>1. IsFiniteSet(Full(entries, capacity)) /\ Cardinality(Full(entries, capacity)) \in Nat
    BY <1>2, FullCounted
  <2>2. Cardinality(Full(entries', capacity)) = Cardinality(Full(entries, capacity)) - 1
    BY <1>6, <1>10, <2>1, FS_RemoveElement
  <2>3. Cardinality(Full(entries', capacity)) \in Nat
    BY <1>2, FullCounted
  <2> QED BY <1>2, <2>1, <2>2, <2>3
<1>13. \E p \in 0 .. capacity - 1 : ~Occupied(entries'[p])
  BY <1>3, <1>7, <1>8
<1> QED BY <1>1, <1>2, <1>9, <1>11, <1>12, <1>13 DEF Fit

\* No step unmakes the table.
LEMMA TableStep == TableInv /\ [Next]_vars => TableInv'
<1> SUFFICES ASSUME TableInv, [Next]_vars PROVE TableInv'
  OBVIOUS
<1>1. ASSUME NEW k \in Keys, NEW v \in Values, SetSucceeds(k, v) PROVE TableInv'
  <2>1. Fit(entries, capacity, count)' /\ (pristine => Exact(entries, capacity, count)')
    BY <1>1, SetIs
  <2> QED BY <1>1, <2>1 DEF SetSucceeds, TableInv
<1>2. ASSUME NEW k \in Keys, SetOutOfMemory(k) PROVE TableInv'
  <2> DEFINE g == Loaded
  <2>1. Fit(g.entries, g.capacity, g.count)
    BY <1>2, LoadedIs DEF SetOutOfMemory
  <2>2. /\ capacity' = g.capacity /\ entries' = g.entries
        /\ count' \in {g.count, g.count + 1} /\ pristine' = FALSE /\ expected' = expected
    BY <1>2 DEF SetOutOfMemory
  <2> HIDE DEF g
  <2>3. Cardinality(Full(g.entries, g.capacity)) \in Nat
    BY <2>1, Capacities, FullCounted DEF Fit
  <2>4. Fit(entries', capacity', count')
    BY <2>1, <2>2, <2>3 DEF Fit
  <2> QED BY <2>2, <2>4 DEF TableInv
<1>3. ASSUME NEW k \in Keys, hash_delete(k) PROVE TableInv'
  <2>1. Fit(entries, capacity, count)'
    BY <1>3, DeleteKeeps
  <2> QED BY <1>3, <2>1 DEF hash_delete, TableInv
<1>4. ASSUME hash_clear PROVE TableInv'
  <2>1. capacity \in InitialCapacity .. MaxCapacity /\ capacity \in Nat \ {0}
    BY Capacities DEF TableInv, Fit
  <2>2. Clean(NoEntries(capacity), capacity) /\ Full(NoEntries(capacity), capacity) = {}
    BY <2>1, NoEntriesClean
  <2>3. Cardinality({}) = 0
    BY FS_EmptySet
  <2>4. \E s \in 0 .. capacity - 1 : ~Occupied(NoEntries(capacity)[s])
    BY <2>1 DEF NoEntries, Occupied
  <2>5. Fit(NoEntries(capacity), capacity, 0) /\ Exact(NoEntries(capacity), capacity, 0)
    BY <2>1, <2>2, <2>3, <2>4 DEF Fit, Clean, Exact
  <2> QED BY <1>4, <2>5 DEF hash_clear, TableInv
<1>5. ASSUME NEW n \in Resizes, hash_resize(n) PROVE TableInv'
  <2> DEFINE g == Grown(n)
  <2>1. n \in Nat /\ CanGrow(n)
    BY <1>5, ConstantsAssumption DEF hash_resize
  <2>2. Fit(g.entries, g.capacity, g.count) /\ (pristine => Exact(g.entries, g.capacity, g.count))
    BY <2>1, GrownIs
  <2>3. /\ capacity' = g.capacity /\ entries' = g.entries /\ count' = g.count
        /\ pristine' = pristine /\ expected' = expected
    BY <1>5 DEF hash_resize
  <2> HIDE DEF g
  <2> QED BY <2>2, <2>3 DEF TableInv
<1>6. ASSUME UNCHANGED vars PROVE TableInv'
  BY <1>6 DEF vars, TableInv
<1> QED BY <1>1, <1>2, <1>3, <1>4, <1>5, <1>6 DEF Next, hash_set, SetRefused
-----------------------------------------------------------------------------
(* The last write is read: what is changed on the way to a key's entry does not end the   *)
(* search, and a new entry is nearer to its home slot than any older one of its key.      *)

\* The slot a key is found in, with the slots before it.
LEMMA FoundAt ==
    ASSUME NEW t, NEW cap \in Nat \ {0}, NEW k \in Keys, FindEntry(t, cap, k, FALSE) # NotFound
    PROVE  \E n : /\ StopsAt(t, cap, k, FALSE, n)
                  /\ FindEntry(t, cap, k, FALSE) = Probe(k, n, cap)
                  /\ Occupied(t[Probe(k, n, cap)]) /\ t[Probe(k, n, cap)].key = k
<1>1. PICK n : /\ StopsAt(t, cap, k, FALSE, n)
               /\ FindEntry(t, cap, k, FALSE) =
                    IF t[Probe(k, n, cap)] = Empty /\ ~FALSE THEN NotFound ELSE Probe(k, n, cap)
  BY FindCases, ZenonT(60)
<1>2. t[Probe(k, n, cap)] # Empty
  BY <1>1
<1> QED BY <1>1, <1>2 DEF StopsAt, Stops

\* A change of a slot that stopped no search for q and stops none leaves what is read of q.
LEMMA OthersRead ==
    ASSUME NEW t, NEW u, NEW cap \in Nat \ {0}, NEW q \in Keys, NEW s,
           \A p \in 0 .. cap - 1 : p # s => u[p] = t[p],
           ~(Occupied(t[s]) /\ t[s].key = q), ~Stops(u[s], q, FALSE),
           FindEntry(t, cap, q, FALSE) # NotFound
    PROVE  ValueIn(u, cap, q) = ValueIn(t, cap, q)
<1>1. PICK n : /\ StopsAt(t, cap, q, FALSE, n)
               /\ FindEntry(t, cap, q, FALSE) = Probe(q, n, cap)
               /\ Occupied(t[Probe(q, n, cap)]) /\ t[Probe(q, n, cap)].key = q
  BY FoundAt
<1>2. n \in 0 .. cap - 1 /\ n \in Nat /\ cap \in Nat /\ cap > 0
  BY <1>1 DEF StopsAt
<1>3. \A j \in 0 .. n : Probe(q, j, cap) \in 0 .. cap - 1
  <2> SUFFICES ASSUME NEW j \in 0 .. n PROVE Probe(q, j, cap) \in 0 .. cap - 1
    OBVIOUS
  <2>1. j \in Nat
    BY <1>2
  <2> QED BY <1>2, <2>1, ProbeIn, Zenon
<1>4. Probe(q, n, cap) # s /\ Probe(q, n, cap) \in 0 .. cap - 1
  BY <1>1, <1>2, <1>3
<1>5. u[Probe(q, n, cap)] = t[Probe(q, n, cap)]
  BY <1>4
<1>6. ASSUME NEW j \in 0 .. n - 1 PROVE ~Stops(u[Probe(q, j, cap)], q, FALSE)
  <2>1. ~Stops(t[Probe(q, j, cap)], q, FALSE)
    BY <1>1 DEF StopsAt
  <2>2. j \in 0 .. n
    BY <1>2
  <2>3. Probe(q, j, cap) \in 0 .. cap - 1
    BY <1>3, <2>2
  <2> QED BY <2>1, <2>3
<1>7. StopsAt(u, cap, q, FALSE, n)
  BY <1>1, <1>5, <1>6 DEF StopsAt
<1>8. u[Probe(q, n, cap)] # Empty
  BY <1>1, <1>5 DEF Occupied
<1>11. FindEntry(u, cap, q, FALSE) = Probe(q, n, cap)
  BY <1>2, <1>7, <1>8, FindAt, ZenonT(60)
<1> QED BY <1>1, <1>5, <1>11 DEF ValueIn

\* A key that was written reads its value.
LEMMA WrittenRead ==
    ASSUME NEW t, NEW cap \in Nat \ {0}, Table(t, cap), NEW k \in Keys, NEW v \in Values,
           FindEntry(t, cap, k, TRUE) # NotFound
    PROVE  ValueIn(Written(t, cap, k, v), cap, k) = v
<1> DEFINE s == FindEntry(t, cap, k, TRUE)
           w == Written(t, cap, k, v)
           e == [key |-> k, value |-> v]
<1>1. s \in 0 .. cap - 1 /\ e \in Entry /\ Replaced(w, t, cap, s, e)
  BY WrittenIs, Zenon
<1>2. PICK n : StopsAt(t, cap, k, TRUE, n) /\ s = Probe(k, n, cap)
  BY StopFor, Zenon
<1>3. e.key = k /\ e.value = v
  OBVIOUS
<1> HIDE DEF s, w, e
<1>4. n \in 0 .. cap - 1 /\ n \in Nat /\ cap \in Nat /\ cap > 0
  BY <1>2 DEF StopsAt
<1>5. w[s] = e /\ Occupied(e) /\ \A p \in 0 .. cap - 1 : p # s => w[p] = t[p]
  BY <1>1, SlotCases DEF Replaced
<1>6. ASSUME NEW j \in 0 .. n - 1 PROVE ~Stops(w[Probe(k, j, cap)], k, FALSE)
  <2>1. ~Stops(t[Probe(k, j, cap)], k, TRUE)
    BY <1>2 DEF StopsAt
  <2>2. Stops(t[s], k, TRUE)
    BY <1>2 DEF StopsAt
  <2>3. j \in Nat
    BY <1>4
  <2>4. Probe(k, j, cap) \in 0 .. cap - 1
    BY <1>4, <2>3, ProbeIn, Zenon
  <2>5. w[Probe(k, j, cap)] = t[Probe(k, j, cap)]
    BY <1>5, <2>1, <2>2, <2>4
  <2> QED BY <2>1, <2>5 DEF Stops
<1>7. Stops(w[Probe(k, n, cap)], k, FALSE) /\ w[Probe(k, n, cap)] # Empty
  BY <1>2, <1>3, <1>5 DEF Stops, Occupied
<1>8. StopsAt(w, cap, k, FALSE, n)
  BY <1>4, <1>6, <1>7 DEF StopsAt
<1>9. FindEntry(w, cap, k, FALSE) = Probe(k, n, cap)
  BY <1>4, <1>7, <1>8, FindAt
<1>10. FindEntry(w, cap, k, FALSE) = s
  BY <1>2, <1>9
<1>11. NotFound \notin 0 .. cap - 1
  BY DEF NotFound
<1>12. ValueIn(w, cap, k) = w[s].value
  BY <1>1, <1>10, <1>11, Zenon DEF ValueIn
<1> QED BY <1>3, <1>5, <1>12 DEF w

\* What is read of the keys with a value stays when another is written.
LEMMA WrittenOthers ==
    ASSUME NEW t, NEW cap \in Nat \ {0}, Table(t, cap), NEW k \in Keys, NEW v \in Values,
           FindEntry(t, cap, k, TRUE) # NotFound,
           NEW q \in Keys, q # k, FindEntry(t, cap, q, FALSE) # NotFound
    PROVE  ValueIn(Written(t, cap, k, v), cap, q) = ValueIn(t, cap, q)
<1> DEFINE s == FindEntry(t, cap, k, TRUE)
           w == Written(t, cap, k, v)
           e == [key |-> k, value |-> v]
<1>1. s \in 0 .. cap - 1 /\ e \in Entry /\ Replaced(w, t, cap, s, e)
  BY WrittenIs, Zenon
<1>2. Occupied(t[s]) => t[s].key = k
  BY WrittenIs, Zenon
<1>3. e.key = k
  OBVIOUS
<1> HIDE DEF s, w, e
<1>4. w[s] = e /\ Occupied(e) /\ \A p \in 0 .. cap - 1 : p # s => w[p] = t[p]
  BY <1>1, SlotCases DEF Replaced
<1>5. ~Stops(w[s], q, FALSE)
  BY <1>3, <1>4 DEF Stops, Occupied
<1>6. ~(Occupied(t[s]) /\ t[s].key = q)
  BY <1>2
<1> QED BY <1>4, <1>5, <1>6, OthersRead, ZenonT(60) DEF w

\* hash_get reads the value in the table.
LEMMA GetIs == \A k \in Keys : Get(k) = ValueIn(entries, capacity, k)
BY DEF Get, ValueIn

\* A key that reads a value was found.
LEMMA ReadFound ==
    ASSUME NEW t, NEW cap, NEW k, ValueIn(t, cap, k) # NULL
    PROVE  FindEntry(t, cap, k, FALSE) # NotFound
BY DEF ValueIn

\* A deletion changes nothing that is read of another key.
LEMMA DeletedOthers ==
    ASSUME TableInv, NEW k \in Keys, hash_delete(k), NEW q \in Keys, q # k,
           FindEntry(entries, capacity, q, FALSE) # NotFound
    PROVE  ValueIn(entries', capacity, q) = ValueIn(entries, capacity, q)
<1> DEFINE s == FindEntry(entries, capacity, k, FALSE)
<1>1. s # NotFound /\ entries' = [entries EXCEPT ![s] = Tomb]
  BY DEF hash_delete
<1>2. capacity \in Nat \ {0} /\ entries \in [0 .. capacity - 1 -> Entry \cup {Empty, Tomb}]
  BY Capacities DEF TableInv, Fit, Table
<1>3. s \in 0 .. capacity - 1
  BY <1>1, <1>2, FoundIn
<1>4. PICK n : s = Probe(k, n, capacity) /\ entries[Probe(k, n, capacity)].key = k
  <2>1. FindEntry(entries, capacity, k, FALSE) # NotFound
    BY <1>1
  <2>2. PICK n : /\ StopsAt(entries, capacity, k, FALSE, n)
                 /\ FindEntry(entries, capacity, k, FALSE) = Probe(k, n, capacity)
                 /\ Occupied(entries[Probe(k, n, capacity)])
                 /\ entries[Probe(k, n, capacity)].key = k
    BY <1>2, <2>1, FoundAt, ZenonT(60)
  <2> QED BY <2>2
<1> HIDE DEF s
<1>5. entries'[s] = Tomb /\ \A p \in 0 .. capacity - 1 : p # s => entries'[p] = entries[p]
  BY <1>1, <1>2, <1>3
<1>6. ~Stops(entries'[s], q, FALSE)
  BY <1>5, ConstantsAssumption DEF Stops, Occupied
<1>7. ~(Occupied(entries[s]) /\ entries[s].key = q)
  BY <1>4
<1> QED BY <1>2, <1>5, <1>6, <1>7, OthersRead, ZenonT(60)

\* Every step of a table that has not grown keeps what is read of the keys that were set.
LEMMA ReadsStep ==
    TableInv /\ ReadsLastWrite /\ [Next]_vars => ReadsLastWrite'
<1> SUFFICES ASSUME TableInv, ReadsLastWrite, [Next]_vars, capacity' = InitialCapacity,
                    NEW q \in Keys, expected'[q] # NULL
             PROVE  ValueIn(entries', capacity', q) = expected'[q]
  BY DEF ReadsLastWrite, Get, ValueIn
<1>1. /\ capacity \in InitialCapacity .. MaxCapacity /\ capacity \in Nat \ {0} /\ capacity >= 5
      /\ expected \in [Keys -> Values \cup {NULL}]
  BY Capacities DEF TableInv, Fit
<1>2. ASSUME capacity = InitialCapacity, expected[q] # NULL
      PROVE  /\ ValueIn(entries, capacity, q) = expected[q]
             /\ FindEntry(entries, capacity, q, FALSE) # NotFound
  BY <1>2, GetIs, ReadFound DEF ReadsLastWrite
<1>3. ASSUME capacity' = capacity, entries' = entries, expected' = expected
      PROVE  ValueIn(entries', capacity', q) = expected'[q]
  BY <1>2, <1>3
<1>4. ASSUME NEW k \in Keys, NEW v \in Values, SetSucceeds(k, v)
      PROVE  ValueIn(entries', capacity', q) = expected'[q]
  <2>1. /\ FindEntry(Loaded.entries, Loaded.capacity, k, TRUE) # NotFound
        /\ capacity' = Loaded.capacity
        /\ entries' = Written(Loaded.entries, Loaded.capacity, k, v)
    BY <1>4, SetIs
  <2>2. (NeedsGrowth => CanGrow(capacity * 2)) /\ expected' = [expected EXCEPT ![k] = v]
    BY <1>4 DEF SetSucceeds
  <2>3. Loaded.capacity = capacity /\ Loaded.entries = entries
    BY <2>1, <2>2, LoadedIs
  <2>4. /\ FindEntry(entries, capacity, k, TRUE) # NotFound
        /\ capacity' = capacity /\ entries' = Written(entries, capacity, k, v)
    BY <2>1, <2>3
  <2>5. Table(entries, capacity)
    BY DEF TableInv, Fit
  <2>6. CASE q = k
    BY <1>1, <2>2, <2>4, <2>5, <2>6, WrittenRead
  <2>7. CASE q # k
    <3>1. expected'[q] = expected[q]
      BY <1>1, <2>2, <2>7
    <3>2. /\ ValueIn(entries, capacity, q) = expected[q]
          /\ FindEntry(entries, capacity, q, FALSE) # NotFound
      BY <1>2, <2>4, <3>1
    <3>3. ValueIn(Written(entries, capacity, k, v), capacity, q) = ValueIn(entries, capacity, q)
      BY <1>1, <2>4, <2>5, <2>7, <3>2, WrittenOthers, ZenonT(60)
    <3> QED BY <2>4, <3>1, <3>2, <3>3
  <2> QED BY <2>6, <2>7
<1>5. ASSUME NEW k \in Keys, SetOutOfMemory(k)
      PROVE  ValueIn(entries', capacity', q) = expected'[q]
  <2>1. /\ NeedsGrowth => CanGrow(capacity * 2)
        /\ capacity' = Loaded.capacity /\ entries' = Loaded.entries /\ expected' = expected
    BY <1>5 DEF SetOutOfMemory
  <2>2. Loaded.capacity = capacity /\ Loaded.entries = entries
    BY <2>1, LoadedIs
  <2> QED BY <1>3, <2>1, <2>2
<1>6. ASSUME NEW k \in Keys, hash_delete(k)
      PROVE  ValueIn(entries', capacity', q) = expected'[q]
  <2>1. capacity' = capacity /\ expected' = [expected EXCEPT ![k] = NULL]
    BY <1>6 DEF hash_delete
  <2>2. q # k /\ expected'[q] = expected[q]
    BY <1>1, <2>1
  <2>3. /\ ValueIn(entries, capacity, q) = expected[q]
        /\ FindEntry(entries, capacity, q, FALSE) # NotFound
    BY <1>2, <2>1, <2>2
  <2> QED BY <1>6, <2>1, <2>2, <2>3, DeletedOthers
<1>7. ~hash_clear
  BY DEF hash_clear
<1>8. ASSUME NEW n \in Resizes, hash_resize(n)
      PROVE  ValueIn(entries', capacity', q) = expected'[q]
  <2>1. n \in Nat /\ CanGrow(n)
    BY <1>8, ConstantsAssumption DEF hash_resize
  <2>2. /\ capacity' = Grown(n).capacity /\ entries' = Grown(n).entries /\ expected' = expected
    BY <1>8 DEF hash_resize
  <2>3. /\ capacity >= n => Grown(n).capacity = capacity /\ Grown(n).entries = entries
        /\ capacity < n => Grown(n).capacity >= capacity * 2
    BY <2>1, GrownIs
  <2>4. ~(capacity < n)
    BY <1>1, <2>1, <2>2, <2>3, ConstantsAssumption
  <2>5. capacity >= n
    BY <1>1, <2>1, <2>4
  <2> QED BY <1>3, <2>2, <2>3, <2>5
<1>9. ASSUME UNCHANGED vars PROVE ValueIn(entries', capacity', q) = expected'[q]
  BY <1>3, <1>9 DEF vars
<1> QED BY <1>4, <1>5, <1>6, <1>7, <1>8, <1>9 DEF Next, hash_set, SetRefused
-----------------------------------------------------------------------------
(* While the table is clean it is a map. *)

\* What is read after a step is what the map's operation gives.
LEMMA PristineStep ==
    ASSUME TableInv, TableInv', pristine, pristine'
    PROVE  /\ \A k \in Keys, v \in Values : SetSucceeds(k, v) => M!Put(k, v)
           /\ hash_clear => M!Clear
           /\ [Next]_vars =>
                \/ hash_clear
                \/ \E k \in Keys, v \in Values : SetSucceeds(k, v)
                \/ UNCHANGED Contents
<1>1. /\ capacity \in Nat \ {0} /\ capacity' \in Nat \ {0}
      /\ Clean(entries, capacity) /\ Clean(entries', capacity')
  BY Capacities DEF TableInv, Fit, Exact
<1>2. /\ Contents = [q \in Keys |-> ValueIn(entries, capacity, q)]
      /\ Contents' = [q \in Keys |-> ValueIn(entries', capacity', q)]
  BY DEF Contents, Get, ValueIn
<1>3. ASSUME NEW k \in Keys, NEW v \in Values, SetSucceeds(k, v) PROVE M!Put(k, v)
  <2> DEFINE e == [key |-> k, value |-> v]
  <2>1. \A f \in Entry : Has(entries', capacity', f) <=>
          f = e \/ (Has(entries, capacity, f) /\ f.key # k)
    BY <1>3, SetIs
  <2>2. e \in Entry /\ e.key = k /\ e.value = v
    BY DEF Entry
  <2> HIDE DEF e
  <2>3. ValueIn(entries', capacity', k) = v
    BY <1>1, <2>1, <2>2, ValueIs
  <2>4. ASSUME NEW q \in Keys, q # k
        PROVE  ValueIn(entries', capacity', q) = ValueIn(entries, capacity, q)
    <3>1. \A f \in Entry : f.key = q =>
            (Has(entries, capacity, f) <=> Has(entries', capacity', f))
      BY <2>1, <2>2, <2>4
    <3> QED BY <1>1, <3>1, ReadAlike
  <2> QED BY <1>2, <2>3, <2>4 DEF M!Put
<1>4. ASSUME hash_clear PROVE M!Clear
  <2>1. entries' = NoEntries(capacity) /\ capacity' = capacity
    BY <1>4 DEF hash_clear
  <2>2. \A e \in Entry : ~Has(entries', capacity', e)
    BY <1>1, <2>1, NoEntriesClean
  <2>3. \A q \in Keys : ValueIn(entries', capacity', q) = NULL
    BY <1>1, <2>2, ValueIs
  <2> QED BY <1>2, <2>3 DEF M!Clear
<1>5. ASSUME NEW n \in Resizes, hash_resize(n) PROVE UNCHANGED Contents
  <2>1. n \in Nat /\ CanGrow(n)
    BY <1>5, ConstantsAssumption DEF hash_resize
  <2>2. capacity' = Grown(n).capacity /\ entries' = Grown(n).entries
    BY <1>5 DEF hash_resize
  <2>3. SameEntries(entries, capacity, entries', capacity')
    BY <2>1, <2>2, GrownIs
  <2>4. \A q \in Keys : ValueIn(entries', capacity', q) = ValueIn(entries, capacity, q)
    BY <1>1, <2>3, ReadAlike DEF SameEntries
  <2> QED BY <1>2, <2>4
<1>6. ASSUME UNCHANGED vars PROVE UNCHANGED Contents
  BY <1>2, <1>6 DEF vars
<1>7. /\ \A k \in Keys : ~SetOutOfMemory(k) /\ ~hash_delete(k)
      /\ \A k \in Keys : SetRefused(k) => UNCHANGED vars
  BY DEF SetOutOfMemory, hash_delete, SetRefused
<1> QED BY <1>3, <1>4, <1>5, <1>6, <1>7, Zenon DEF Next, hash_set

-----------------------------------------------------------------------------

\* Growth, allocation failures and deletions leave a table that can be searched and has a
\* free slot; without the last two it holds no key twice (hash_grow 275-292).
THEOREM TableAlwaysFit == Spec => []TableInv
<1>1. Init => TableInv
  BY InitFit
<1>2. TableInv /\ [Next]_vars => TableInv'
  BY TableStep
<1> QED BY <1>1, <1>2, PTL DEF Spec

\* Every entry is within reach of its key, a slot stays free, and the count is right while
\* nothing was deleted (hash_find_entry 210-213, hash_set 380-394, hash_validate 648-656).
THEOREM TableAlwaysSound == Spec => []TableSound
<1>1. TableInv => TableSound
  <2> SUFFICES ASSUME TableInv PROVE TableSound
    OBVIOUS
  <2>1. OccupiedSlots = Full(entries, capacity)
    BY DEF OccupiedSlots, Full, Slots
  <2>2. TypeOK
    BY DEF TableInv, Fit, Table, TypeOK, Slots
  <2>3. ProbeChainUnbroken
    BY <2>1 DEF TableInv, Fit, Reached, ProbeChainUnbroken
  <2>4. CountCoversOccupied
    BY <2>1 DEF TableInv, Fit, CountCoversOccupied, Slots
  <2>5. CountExact
    BY <2>1 DEF TableInv, Exact, CountExact
  <2> QED BY <2>2, <2>3, <2>4, <2>5 DEF TableSound
<1> QED BY <1>1, TableAlwaysFit, PTL

\* Until it grows a table reads the last write, past tombstones and older copies of the
\* key (hash_set 391, hash_find_entry 217-220).
THEOREM LastWriteRead == Spec => []ReadsLastWrite
<1>1. Init => ReadsLastWrite
  BY DEF Init, ReadsLastWrite
<1>2. TableInv /\ ReadsLastWrite /\ [Next]_vars => ReadsLastWrite'
  BY ReadsStep
<1> QED BY <1>1, <1>2, TableAlwaysFit, PTL DEF Spec

\* Without deletions and failures each call is an operation of the map, growth included
\* (hash_grow 275-292, hash_set 386-419).
THEOREM PristineTableIsAMap == Spec => MapWhilePristine
<1>1. TableInv /\ TableInv' /\ [Next]_vars =>
        [pristine /\ pristine' =>
           /\ \A k \in Keys, v \in Values : SetSucceeds(k, v) => M!Put(k, v)
           /\ hash_clear => M!Clear
           /\ \/ hash_clear
              \/ \E k \in Keys, v \in Values : SetSucceeds(k, v)
              \/ UNCHANGED Contents]_vars
  BY PristineStep, Zenon
<1> QED BY <1>1, TableAlwaysFit, PTL DEF Spec, MapWhilePristine
=============================================================================

------------------------------ MODULE HashMap ------------------------------
(***************************************************************************)
(* The hash table of myos-lib (myos-lib/src/hash.c): open addressing with  *)
(* linear probing, deleted entries left as tombstones, growth by rehashing *)
(* above a load of three quarters.                                         *)
(*                                                                         *)
(*  - A slot is Empty (is_occupied = 0), Tomb (-1) or holds a key and its  *)
(*    value (1).  The stored hash is always that of the stored key.        *)
(*  - OOM says whether mm_alloc can fail; a table of more than MaxCapacity *)
(*    slots is never allocated.                                            *)
(*  - expected is a ghost: for each key the value of the last hash_set     *)
(*    that returned 0, NULL once the key was deleted or the table cleared. *)
(*    pristine is another: no key was deleted and no hash_set ran out of   *)
(*    memory since the table was last empty.                               *)
(***************************************************************************)
EXTENDS Integers, FiniteSets

CONSTANTS Keys, Values, NULL,
          Empty, Tomb,
          Hash,             \* hash_func: Keys -> 32-bit numbers
          InitialCapacity,  \* 16 in hash_new
          MaxCapacity,      \* bound: larger tables are never allocated
          MaxTombs,         \* bound: tombstones made in a table that has grown
          Resizes,          \* arguments of hash_resize
          OOM

ASSUME ConstantsAssumption ==
    /\ NULL \notin Values
    /\ Hash \in [Keys -> Nat]
    /\ InitialCapacity \in Nat /\ InitialCapacity >= 5
    /\ MaxCapacity \in Nat /\ MaxCapacity >= InitialCapacity
    /\ MaxTombs \in Nat
    /\ Resizes \subseteq Nat
    /\ OOM \in BOOLEAN
    /\ Empty # Tomb
    /\ {Empty, Tomb} \cap [key : Keys, value : Values] = {}

Entry == [key : Keys, value : Values]

VARIABLES capacity, entries, count, expected, pristine

vars == <<capacity, entries, count, expected, pristine>>

Slots       == 0 .. capacity - 1
Occupied(e) == e \notin {Empty, Tomb}

TypeOK ==
    /\ capacity \in InitialCapacity .. MaxCapacity
    /\ entries \in [Slots -> Entry \cup {Empty, Tomb}]
    /\ count \in Nat
    /\ expected \in [Keys -> Values \cup {NULL}]
    /\ pristine \in BOOLEAN
-----------------------------------------------------------------------------
(* hash_find_entry: linear probing from the key's home slot. *)

NotFound == -1

\* The i-th slot probed for key k in a table of cap slots.
Probe(k, i, cap) == (Hash[k] + i) % cap

\* Does the probe for k end at a slot holding e?
Stops(e, k, find_empty) ==
    \/ e = Empty
    \/ e = Tomb /\ find_empty
    \/ Occupied(e) /\ e.key = k

\* The first stop within one turn around the table.
FindEntry(t, cap, k, find_empty) ==
    LET stops == {i \in 0 .. cap - 1 : Stops(t[Probe(k, i, cap)], k, find_empty)}
        first == CHOOSE i \in stops : \A j \in stops : i <= j
        slot  == Probe(k, first, cap)
    IN  IF stops = {} \/ (t[slot] = Empty /\ ~find_empty) THEN NotFound
        ELSE slot

\* hash_get
Get(k) == LET s == FindEntry(entries, capacity, k, FALSE) IN
          IF s = NotFound THEN NULL ELSE entries[s].value
-----------------------------------------------------------------------------
(* hash_grow: the slots of the old table are inserted in index order. *)

NoEntries(cap) == [s \in 0 .. cap - 1 |-> Empty]

OccupiedSlots == {s \in Slots : Occupied(entries[s])}
Tombs         == {s \in Slots : entries[s] = Tomb}

\* Variant of Rehash: entries keep their index.
RehashInPlace(cap) ==
    [s \in 0 .. cap - 1 |-> IF s \in OccupiedSlots THEN entries[s] ELSE Empty]

\* Table t of cap slots after an entry of the old table, if it is one, is put into it.
Moved(t, cap, e) ==
    IF Occupied(e) THEN [t EXCEPT ![FindEntry(t, cap, e.key, TRUE)] = e] ELSE t

\* Variant of Rehash: the last slot of the old table is not moved.
RehashAllButLast(cap) ==
    LET moved[i \in 0 .. capacity] ==
          IF i = 0 THEN NoEntries(cap) ELSE Moved(moved[i - 1], cap, entries[i - 1])
    IN  moved[capacity - 1]

\* The new table after the first i slots of the old one are moved.
Rehash(cap) ==
    LET moved[i \in 0 .. capacity] ==
          IF i = 0 THEN NoEntries(cap) ELSE Moved(moved[i - 1], cap, entries[i - 1])
    IN  moved[capacity]

MaxOf(S) == CHOOSE m \in S : \A n \in S : n <= m
NewCapacity(min_capacity) == MaxOf({capacity * 2, InitialCapacity, min_capacity})

\* The table, its capacity and its count if a growth to min_capacity succeeds.
\* count is recomputed: one for every entry moved.
Grown(min_capacity) ==
    IF capacity >= min_capacity
    THEN [capacity |-> capacity, entries |-> entries, count |-> count]
    ELSE LET cap == NewCapacity(min_capacity) IN
         [capacity |-> cap, entries |-> Rehash(cap),
          count |-> Cardinality(OccupiedSlots)]

CanGrow(min_capacity) ==
    capacity >= min_capacity \/ NewCapacity(min_capacity) <= MaxCapacity
MayFailToGrow(min_capacity) ==
    capacity < min_capacity /\ (OOM \/ NewCapacity(min_capacity) > MaxCapacity)
-----------------------------------------------------------------------------
(* The operations. *)

Init ==                                                       \* hash_new
    /\ capacity = InitialCapacity
    /\ entries = NoEntries(InitialCapacity)
    /\ count = 0
    /\ expected = [k \in Keys |-> NULL]
    /\ pristine = TRUE

\* Variant of NeedsGrowth: the table may fill up.
NeedsGrowthWhenFull == count >= capacity

NeedsGrowth == count * 4 > capacity * 3

\* The table hash_set works on: the current one, grown if the load asks for it.
Loaded == IF NeedsGrowth THEN Grown(capacity * 2)
          ELSE [capacity |-> capacity, entries |-> entries, count |-> count]

\* Variant of SetSucceeds: the reuse of a tombstone is not counted.
SetWithoutCountingTombs(k, v) ==
    LET t == Loaded
        s == FindEntry(t.entries, t.capacity, k, TRUE)
    IN  /\ NeedsGrowth => CanGrow(capacity * 2)
        /\ s # NotFound
        /\ capacity' = t.capacity
        /\ entries' = [t.entries EXCEPT ![s] = [key |-> k, value |-> v]]
        /\ count' = IF t.entries[s] = Empty THEN t.count + 1 ELSE t.count
        /\ expected' = [expected EXCEPT ![k] = v]
        /\ UNCHANGED pristine

\* Variant of SetSucceeds: an update is counted as an insertion.
SetCountingUpdates(k, v) ==
    LET t == Loaded
        s == FindEntry(t.entries, t.capacity, k, TRUE)
    IN  /\ NeedsGrowth => CanGrow(capacity * 2)
        /\ s # NotFound
        /\ capacity' = t.capacity
        /\ entries' = [t.entries EXCEPT ![s] = [key |-> k, value |-> v]]
        /\ count' = t.count + 1
        /\ expected' = [expected EXCEPT ![k] = v]
        /\ UNCHANGED pristine

SetSucceeds(k, v) ==
    LET t == Loaded
        s == FindEntry(t.entries, t.capacity, k, TRUE)
    IN  /\ NeedsGrowth => CanGrow(capacity * 2)
        /\ s # NotFound
        /\ capacity' = t.capacity
        /\ entries' = [t.entries EXCEPT ![s] = [key |-> k, value |-> v]]
        /\ count' = IF Occupied(t.entries[s]) THEN t.count ELSE t.count + 1
        /\ expected' = [expected EXCEPT ![k] = v]
        /\ UNCHANGED pristine

\* The entry is new and its key or its value cannot be allocated: the growth,
\* if any, stands, and when it was the value, so does the incremented count.
SetOutOfMemory(k) ==
    LET t == Loaded
        s == FindEntry(t.entries, t.capacity, k, TRUE)
    IN  /\ OOM
        /\ NeedsGrowth => CanGrow(capacity * 2)
        /\ s # NotFound
        /\ ~Occupied(t.entries[s])
        /\ capacity' = t.capacity
        /\ entries' = t.entries
        /\ count' \in {t.count, t.count + 1}
        /\ pristine' = FALSE
        /\ UNCHANGED expected

\* -1 with nothing changed: the table cannot grow, or has no slot for the key.
SetRefused(k) ==
    /\ \/ NeedsGrowth /\ MayFailToGrow(capacity * 2)
       \/ ~NeedsGrowth /\ FindEntry(entries, capacity, k, TRUE) = NotFound
    /\ UNCHANGED vars

hash_set(k, v) == SetSucceeds(k, v) \/ SetOutOfMemory(k) \/ SetRefused(k)

\* Variant of hash_delete: the slot is emptied, no tombstone stays.
DeleteWithoutTombstone(k) ==
    LET s == FindEntry(entries, capacity, k, FALSE) IN
    /\ s # NotFound
    /\ entries' = [entries EXCEPT ![s] = Empty]
    /\ count' = count - 1
    /\ expected' = [expected EXCEPT ![k] = NULL]
    /\ pristine' = FALSE
    /\ UNCHANGED capacity

hash_delete(k) ==
    LET s == FindEntry(entries, capacity, k, FALSE) IN
    /\ s # NotFound
    /\ capacity > InitialCapacity => Cardinality(Tombs) < MaxTombs
    /\ entries' = [entries EXCEPT ![s] = Tomb]
    /\ count' = count - 1
    /\ expected' = [expected EXCEPT ![k] = NULL]
    /\ pristine' = FALSE
    /\ UNCHANGED capacity

hash_clear ==
    /\ entries' = NoEntries(capacity)
    /\ count' = 0
    /\ expected' = [k \in Keys |-> NULL]
    /\ pristine' = TRUE
    /\ UNCHANGED capacity

hash_resize(n) ==
    /\ n >= count
    /\ CanGrow(n)
    /\ capacity' = Grown(n).capacity
    /\ entries' = Grown(n).entries
    /\ count' = Grown(n).count
    /\ UNCHANGED <<expected, pristine>>

Next ==
    \/ \E k \in Keys, v \in Values : hash_set(k, v)
    \/ \E k \in Keys : hash_delete(k)
    \/ hash_clear
    \/ \E n \in Resizes : hash_resize(n)

Spec == Init /\ [][Next]_vars
-----------------------------------------------------------------------------
(* Safety *)

\* Every stored entry can be found: no Empty slot lies between the home slot
\* of its key and the slot it is in.  A delete that emptied the slot, or a
\* growth that did not rehash, would cut the chain (hash_find_entry 210-213).
ProbeChainUnbroken ==
    \A s \in OccupiedSlots :
        \E i \in 0 .. capacity - 1 :
            /\ Probe(entries[s].key, i, capacity) = s
            /\ \A j \in 0 .. i : entries[Probe(entries[s].key, j, capacity)] # Empty

\* count never falls behind the slots in use, so the load check keeps a slot
\* free and hash_set never finds the table full (hash_set 380-385, 391-394).
CountCoversOccupied ==
    /\ Cardinality(OccupiedSlots) <= count
    /\ \E s \in Slots : ~Occupied(entries[s])

\* hash_validate's check (648-656): while no key was deleted and no allocation
\* failed, count is the number of occupied slots, across every growth.
CountExact == pristine => Cardinality(OccupiedSlots) = count

\* The table can be searched and knows how full it is: every entry is within reach of
\* its key, a slot stays free, and the count is right while nothing was deleted.
TableSound == TypeOK /\ ProbeChainUnbroken /\ CountCoversOccupied /\ CountExact

\* As long as the table has not grown, a key that was set and not deleted since
\* reads the value of its last set, even when older copies of it are still in
\* the table: the newest copy is always the nearest to the home slot (hash_set
\* 391, hash_find_entry 217-220).
ReadsLastWrite ==
    capacity = InitialCapacity =>
        \A k \in Keys : expected[k] # NULL => Get(k) = expected[k]

\* While no key was deleted and no allocation failed, the table is a map: a set
\* changes what is read of its key and of no other, a clear empties it, and a
\* growth, which moves every entry, changes nothing (hash_grow 275-292, hash_set
\* 386-419).
Contents == [k \in Keys |-> Get(k)]
M == INSTANCE KeyValueMap WITH map <- Contents
MapWhilePristine ==
    [][pristine /\ pristine' =>
         /\ \A k \in Keys, v \in Values : SetSucceeds(k, v) => M!Put(k, v)
         /\ hash_clear => M!Clear
         /\ \/ hash_clear
            \/ \E k \in Keys, v \in Values : SetSucceeds(k, v)
            \/ UNCHANGED Contents]_vars
-----------------------------------------------------------------------------
(* Statements of hash.h that the code refutes *)

\* hash.h:125: hash_delete deletes the key, so one that was deleted, or never
\* set, is absent.
DeletedStaysDeleted == \A k \in Keys : expected[k] = NULL => Get(k) = NULL

\* hash.h:99, 101: hash_set updates the value of a known key, and the table
\* grows by itself when it must: a growth loses no update.
UpdatesSurviveGrowth ==
    [][capacity' > capacity =>
        \A k \in Keys : expected[k] # NULL /\ Get(k) = expected[k] => Get(k)' = expected'[k]]_vars
=============================================================================

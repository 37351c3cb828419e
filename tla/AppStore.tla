------------------------------ MODULE AppStore ------------------------------
(***************************************************************************)
(* What AppContext holds for the handlers: the key-value array of          *)
(* storage.c and the request log of logs.c, both doubled when they are     *)
(* full.  A doubling that fails makes the call answer -1 and changes       *)
(* nothing: no step.                                                       *)
(*                                                                         *)
(* A field has a fixed width.  storage_set cuts a key (Cut) and a value    *)
(* (Clip) that do not fit, but looks keys up as they are given; logs_add   *)
(* leaves a text that fills its field without an end, and whether the byte *)
(* behind it, which malloc or realloc gave, ends it, is chance.            *)
(***************************************************************************)
EXTENDS Integers, SequencesExt

CONSTANTS
    Keys, Values, NULL,
    Cut,                \* the form of a key that items[i].key has room for
    Clip,               \* the form of a value that items[i].value has room for
    Messages,
    Filling,            \* the messages as long as their field
    STORAGE_CAPACITY,   \* INITIAL_CAPACITY of storage.c
    LOGS_CAPACITY,      \* INITIAL_CAPACITY of logs.c
    SHOWN,              \* how many entries logs_list shows: 10
    MaxItems, MaxLogs   \* bounds: items stored, entries logged

ASSUME WidthAssumption ==
    /\ Cut \in [Keys -> Keys] /\ \A k \in Keys : Cut[Cut[k]] = Cut[k]
    /\ Clip \in [Values -> Values]
ASSUME MessagesAssumption == Filling \subseteq Messages
ASSUME SizesAssumption ==
    /\ STORAGE_CAPACITY \in Nat \ {0} /\ LOGS_CAPACITY \in Nat \ {0}
    /\ SHOWN \in Nat
    /\ NULL \notin Values

VARIABLES
    items,          \* Storage.items[0 .. count - 1]
    capacity,
    doubled,        \* ghost: the forms under which a key that was cut is stored
    entries,        \* Logs.entries[0 .. count - 1]: [message, ended]
    logs_capacity,
    logged          \* ghost: the messages logs_add has answered with 0

storage == <<items, capacity, doubled>>
logs == <<entries, logs_capacity, logged>>
stores_vars == <<storage, logs>>

---------------------------------------------------------------------------
(* storage.c                                                               *)

Positions(k) == {i \in DOMAIN items : items[i].key = k}

Place(k) == CHOOSE i \in Positions(k) : \A j \in Positions(k) : i <= j

storage_get(k) == IF Positions(k) = {} THEN NULL ELSE items[Place(k)].value

Grown(n, room) == IF n < room THEN room ELSE 2 * room

Doubled(k) == IF Cut[k] = k THEN doubled ELSE doubled \cup {Cut[k]}

\* Mutant: a new item always goes to the end, known or not.
SetAppend(k, v) ==
    /\ Len(items) < MaxItems
    /\ items' = Append(items, [key |-> Cut[k], value |-> Clip[v]])
    /\ capacity' = Grown(Len(items), capacity)
    /\ doubled' = Doubled(k)
    /\ UNCHANGED logs

storage_set(k, v) ==
    /\ IF Positions(k) # {}
       THEN /\ items' = [items EXCEPT ![Place(k)].value = Clip[v]]
            /\ UNCHANGED capacity
       ELSE /\ Len(items) < MaxItems
            /\ items' = Append(items, [key |-> Cut[k], value |-> Clip[v]])
            /\ capacity' = Grown(Len(items), capacity)
    /\ doubled' = Doubled(k)
    /\ UNCHANGED logs

\* The last item takes the place of the one that goes.
storage_delete(k) ==
    /\ Positions(k) # {}
    /\ items' = Front([items EXCEPT ![Place(k)] = Last(items)])
    /\ UNCHANGED <<capacity, doubled, logs>>

---------------------------------------------------------------------------
(* logs.c                                                                  *)

logs_add(m) ==
    /\ Len(entries) < MaxLogs
    /\ logs_capacity' = Grown(Len(entries), logs_capacity)
    /\ \E ended \in IF m \in Filling THEN BOOLEAN ELSE {TRUE} :
          entries' = Append(entries, [message |-> m, ended |-> ended])
    /\ logged' = Append(logged, m)
    /\ UNCHANGED storage

LastOf(s, n) == SubSeq(s, IF Len(s) > n THEN Len(s) - n + 1 ELSE 1, Len(s))

\* Mutant: the oldest entries are shown.
ListOldest == Reverse(SubSeq(entries, 1, IF Len(entries) > SHOWN THEN SHOWN ELSE Len(entries)))

logs_list == Reverse(LastOf(entries, SHOWN))

StoresInit ==
    /\ items = <<>> /\ capacity = STORAGE_CAPACITY /\ doubled = {}
    /\ entries = <<>> /\ logs_capacity = LOGS_CAPACITY /\ logged = <<>>

StoresNext ==
    \/ \E k \in Keys, v \in Values : storage_set(k, v)
    \/ \E k \in Keys : storage_delete(k)
    \/ \E m \in Messages : logs_add(m)

StoresSpec == StoresInit /\ [][StoresNext]_stores_vars

---------------------------------------------------------------------------
(* Properties.                                                             *)

\* The map the handlers see: what storage_get reads of the keys that fit.
Kept == {k \in Keys : Cut[k] = k}
Reads == [k \in Kept |-> storage_get(k)]
Map == INSTANCE KeyValueMap WITH Keys <- Kept, map <- Reads

\* A key that fits gets its value.  Of one that does not the form it is cut to gets it,
\* when nothing is stored there: else the item lies unread behind the first.
SetPuts(k, v) ==
    IF Cut[k] = k THEN Map!Put(k, Clip[v])
    ELSE IF storage_get(Cut[k]) = NULL THEN Map!Put(Cut[k], Clip[v])
    ELSE UNCHANGED Reads

\* The key is gone and no other changes, but for the forms stored twice.
DeleteRemoves(k) ==
    /\ doubled = {} => Map!Remove(k)
    /\ k \notin doubled => storage_get(k)' = NULL
    /\ \A l \in Kept \ (doubled \cup {k}) : storage_get(l)' = storage_get(l)

\* Every call does to the map what its arguments say, however items are moved into the
\* gaps of deleted ones: a set puts its value at its key and changes no other, ever; a
\* delete takes its key away, which does not come back, unless a longer key was cut to
\* it, and changes no key no longer one was cut to (storage.c:76, 129).
StorageActsAsMap ==
    /\ Map!Init
    /\ [][/\ \A k \in Keys, v \in Values : storage_set(k, v) => SetPuts(k, v)
          /\ \A k \in Keys : storage_delete(k) => DeleteRemoves(k)
          /\ \A m \in Messages : logs_add(m) => UNCHANGED Reads]_stores_vars

\* The list is never longer than SHOWN, newest first, and shows every message as it was
\* logged; only one that filled its field can be left without an end (logs.c:54, 74).
NewestFirst ==
    /\ Len(items) <= capacity /\ Len(entries) <= logs_capacity
    /\ Len(logs_list) = Len(LastOf(logged, SHOWN))
    /\ \A i \in DOMAIN logs_list :
          LET message == logged[Len(logged) - i + 1]
          IN  /\ logs_list[i].message = message
              /\ message \notin Filling => logs_list[i].ended
=============================================================================

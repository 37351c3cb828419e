------------------------------ MODULE KVStore ------------------------------
(***************************************************************************)
(* The file-backed key-value store (c-server/src/kvstore.c): a header with *)
(* the number of records, then records appended one after the other.  The  *)
(* count lives in memory while the store is open and reaches the header    *)
(* only in kvstore_close and kvstore_delete; kvstore_delete copies the     *)
(* records to a temporary file and puts that in the place of the old one.  *)
(*                                                                         *)
(*  - A file is its header, the records that follow it whole, and the rest *)
(*    behind those: nothing; the beginning of one more record, which ends  *)
(*    every scan; or bytes in which the framing is lost, because something *)
(*    was written behind a part of a record.  The scans of the code go on  *)
(*    in such bytes and take lengths, keys and values out of whatever is   *)
(*    there: in the model, any records at all.  Lengths beyond the arrays  *)
(*    of kvstore_delete (194, 196) overrun its stack; that is taken to end *)
(*    the process (Crash).                                                 *)
(*  - A header cut short is NoHeader: with nothing behind it the file is   *)
(*    refused, with records behind it what is read as the header may pass. *)
(*  - The program is single-threaded; a crash is the end of the process.   *)
(*    What was written to the file stays, in the order it was written.     *)
(*  - Values that do not fit the caller's buffer are not modelled.         *)
(*  - deleted and careful are ghosts.  deleted: the keys whose delete put  *)
(*    the copy in the place of the file, with no record of them appended   *)
(*    since and no copy made of lost framing since.  careful: no call      *)
(*    failed so far, the process did not end by itself, and each key       *)
(*    deleted was in exactly one record.                                   *)
(***************************************************************************)
EXTENDS Integers, SequencesExt

CONSTANTS Keys, Values, NULL,
          Garbage,     \* a key or a value read from bytes that are not one
          NoFile,      \* nothing at the store's path
          NoHeader,    \* not all of the header was written
          MaxRecords,  \* bound: nothing is appended to a file with as many records
          MaxStrays,   \* bound: a scan reads no more records where framing is lost
          CountMod     \* entry_count is a uint32_t: 0 .. CountMod - 1

ASSUME ConstantsAssumption ==
    /\ NULL \notin Keys \cup {Garbage} /\ NULL \notin Values \cup {Garbage}
    /\ MaxRecords \in Nat /\ MaxStrays \in Nat
    /\ CountMod \in Nat /\ CountMod > MaxRecords + 1
    /\ NoHeader \notin 0 .. CountMod - 1

Record == [key : Keys \cup {Garbage}, value : Values \cup {Garbage}]
Count  == 0 .. CountMod - 1
File   == [count : Count \cup {NoHeader}, entries : Seq(Record),
           rest : {"none", "cut", "lost"}]

ASSUME NoFileIsNoFile == NoFile \notin File

VARIABLES file,         \* what is at store->path
          tmp,          \* what a running kvstore_delete has written to path.tmp;
                        \* one left over is truncated before it is read (178)
          opened,       \* the process holds a KVStore
          fd_ok,        \* store->fd >= 0
          entry_count,  \* that of the open store
          phase,        \* how far a running kvstore_delete is
          target,       \* the key it deletes
          deleted, careful

vars == <<file, tmp, opened, fd_ok, entry_count, phase, target, deleted, careful>>

TypeOK ==
    /\ file \in File \cup {NoFile}
    /\ tmp \in File \cup {NoFile}
    /\ opened \in BOOLEAN
    /\ fd_ok \in BOOLEAN
    /\ entry_count \in Count
    /\ phase \in {"idle", "copied", "unlinked"}
    /\ target \in Keys \cup {NULL}
    /\ deleted \subseteq Keys
    /\ careful \in BOOLEAN
-----------------------------------------------------------------------------
(* Scanning. *)

\* The records that the first n turns of a scan meet as they were written.
Framed(f, n) == IF f = NoFile THEN <<>>
                ELSE SubSeq(f.entries, 1, IF n < Len(f.entries) THEN n ELSE Len(f.entries))

\* n turns do not end before the framing does.
Strays(f, n) == f # NoFile /\ f.rest = "lost" /\ Len(f.entries) < n

\* What n turns of a scan may read.
Scans(f, n) ==
    IF Strays(f, n)
    THEN {Framed(f, n) \o s : s \in BoundedSeq(Record, IF Len(f.entries) < MaxRecords
                                                      THEN MaxStrays ELSE 0)}
    ELSE {Framed(f, n)}

\* kvstore_get on a scan: the value of the first record of the key.
Lookup(scan, k) ==
    LET hits == {i \in DOMAIN scan : scan[i].key = k}
    IN  IF hits = {} THEN NULL
        ELSE scan[CHOOSE i \in hits : \A j \in hits : i <= j].value

\* What a scan of the open store may read; without a descriptor, nothing.
Reads == IF fd_ok THEN Scans(file, entry_count) ELSE {<<>>}

\* The records the next kvstore_open will find in f.
OnDisk(f) == IF f = NoFile \/ f.count = NoHeader THEN <<>> ELSE Framed(f, f.count)
-----------------------------------------------------------------------------
Init ==
    /\ file = NoFile
    /\ tmp = NoFile
    /\ opened = FALSE
    /\ fd_ok = FALSE
    /\ entry_count = 0
    /\ phase = "idle"
    /\ target = NULL
    /\ deleted = {}
    /\ careful = TRUE

\* A store the process can call: it is open and no delete is under way.
Ready == opened /\ phase = "idle"

\* A path with no file gets a new, empty store; otherwise the header is read.  Behind
\* a header that was cut, the bytes of a record are read for the count.
OpenSucceeds ==
    /\ ~opened
    /\ \/ /\ file = NoFile
          /\ file' = [count |-> 0, entries |-> <<>>, rest |-> "none"]
          /\ entry_count' = 0
       \/ /\ file # NoFile /\ file.count # NoHeader
          /\ entry_count' = file.count
          /\ UNCHANGED file
       \/ /\ file # NoFile /\ file.count = NoHeader /\ file.rest = "lost"
          /\ entry_count' \in Count
          /\ UNCHANGED file
    /\ opened' = TRUE
    /\ fd_ok' = TRUE
    /\ UNCHANGED <<tmp, phase, target, deleted, careful>>

\* A file without a valid header is refused.
OpenRefused ==
    /\ ~opened
    /\ file # NoFile
    /\ file.count = NoHeader
    /\ UNCHANGED vars

kvstore_open == OpenSucceeds \/ OpenRefused

\* The three writes of a new header are not checked: one fails, or the process ends.
CreationFails ==
    /\ ~opened
    /\ file = NoFile
    /\ file' = [count |-> NoHeader, entries |-> <<>>, rest |-> "cut"]
    /\ careful' = FALSE
    /\ UNCHANGED <<tmp, opened, fd_ok, entry_count, phase, target, deleted>>

\* Variant of kvstore_close: the header is not written.
CloseWithoutHeader ==
    /\ Ready
    /\ opened' = FALSE
    /\ fd_ok' = FALSE
    /\ entry_count' = 0
    /\ UNCHANGED <<file, tmp, phase, target, deleted, careful>>

\* The header gets the count, if the descriptor is still good; of one that was cut it
\* makes a whole one if the count was all that it lacked.
kvstore_close ==
    /\ Ready
    /\ \/ ~fd_ok /\ UNCHANGED file
       \/ /\ fd_ok /\ file.count # NoHeader
          /\ file' = [file EXCEPT !.count = entry_count]
       \/ /\ fd_ok /\ file.count = NoHeader
          /\ file' \in {file, [file EXCEPT !.count = entry_count,
                                           !.rest = IF @ = "cut" THEN "none" ELSE @]}
    /\ opened' = FALSE
    /\ fd_ok' = FALSE
    /\ entry_count' = 0
    /\ UNCHANGED <<tmp, phase, target, deleted, careful>>

\* f with a record, or a part of one, written at its end.
Longer(f, r) == IF f.rest = "none" THEN [f EXCEPT !.entries = Append(@, r)]
                                   ELSE [f EXCEPT !.rest = "lost"]
Torn(f) == [f EXCEPT !.rest = IF @ = "none" THEN "cut" ELSE "lost"]

\* A record can be appended: there is a descriptor, and room in the model.
CanAppend == Ready /\ fd_ok /\ Len(file.entries) < MaxRecords

\* The record goes to the end of the file, whatever the count says.
kvstore_put(k, v) ==
    /\ CanAppend
    /\ file' = Longer(file, [key |-> k, value |-> v])
    /\ entry_count' = (entry_count + 1) % CountMod
    /\ deleted' = deleted \ {k}
    /\ UNCHANGED <<tmp, opened, fd_ok, phase, target, careful>>

\* The elements of s at the places in S, in their order.
Picked(s, S) ==
    LET nth(n) == CHOOSE i \in S : Cardinality({j \in S : j <= i}) = n
    IN  [n \in 1 .. Cardinality(S) |-> s[nth(n)]]

\* The records of a scan that are not of key k, in their order.
Others(scan, k) == Picked(scan, {i \in DOMAIN scan : scan[i].key # k})

\* Variants of Copies: the copy ends at the record; only the first is left out.
CopiesUpTo(k) ==
    {[count   |-> (entry_count - 1) % CountMod,
      entries |-> LET n == SelectInSeq(s, LAMBDA r : r.key = k)
                  IN  IF n = 0 THEN s ELSE SubSeq(s, 1, n - 1),
      rest    |-> "none"] : s \in Reads}
CopiesWithoutFirst(k) ==
    {[count   |-> (entry_count - 1) % CountMod,
      entries |-> RemoveFirstMatch(s, LAMBDA r : r.key = k),
      rest    |-> "none"] : s \in Reads}

\* The copy without the key: its header counts one record less than the store,
\* its records are those a scan of entry_count turns reads in the old file.
Copies(k) ==
    {[count   |-> (entry_count - 1) % CountMod,
      entries |-> Others(s, k),
      rest    |-> "none"] : s \in Reads}

BeginDelete(k) ==
    /\ Ready
    /\ phase' = "copied"
    /\ target' = k
    /\ deleted' = IF fd_ok /\ Strays(file, entry_count) THEN {} ELSE deleted
    /\ UNCHANGED <<file, opened, fd_ok, entry_count>>

\* One record of s is of key k.
Once(s, k) == \E i \in DOMAIN s : \A j \in DOMAIN s : s[j].key = k <=> j = i

\* kvstore_delete begins: the temporary file is written.
kvstore_delete(k) ==
    /\ BeginDelete(k)
    /\ tmp' \in Copies(k)
    /\ careful' = (careful /\ \A s \in Reads : Once(s, k))

\* The same when writes fail, which nobody looks at: records are missing, the last is
\* cut, or something is written behind a part of a record or of the header.
DeleteOnFullDisk(k) ==
    /\ BeginDelete(k)
    /\ \E copy \in Copies(k) :
          \/ \E kept \in SUBSET DOMAIN copy.entries, rest \in {"none", "cut", "lost"} :
                tmp' = [copy EXCEPT !.entries = Picked(@, kept), !.rest = rest]
          \/ \E rest \in {"cut", "lost"} :
                tmp' = [count |-> NoHeader, entries |-> <<>>, rest |-> rest]
    /\ careful' = FALSE

\* ... the old file is closed and unlinked ...
Unlink ==
    /\ phase = "copied"
    /\ file' = NoFile
    /\ fd_ok' = FALSE
    /\ phase' = "unlinked"
    /\ UNCHANGED <<tmp, opened, entry_count, target, deleted, careful>>

\* Whatever happens to the replacement, the count goes down and 0 is returned.
EndDelete ==
    /\ entry_count' = (entry_count - 1) % CountMod
    /\ phase' = "idle"
    /\ target' = NULL
    /\ tmp' = NoFile
    /\ UNCHANGED opened

\* ... and the copy takes its name and is opened, or cannot be opened.
Renamed ==
    /\ phase = "unlinked"
    /\ EndDelete
    /\ file' = tmp
    /\ deleted' = deleted \cup {target}

Rename ==
    /\ Renamed
    /\ fd_ok' = TRUE
    /\ UNCHANGED careful

ReopenFails ==
    /\ Renamed
    /\ fd_ok' = FALSE
    /\ careful' = FALSE

\* The rename fails and nobody looks: there is no file to open.
RenameFails ==
    /\ phase = "unlinked"
    /\ EndDelete
    /\ fd_ok' = FALSE
    /\ careful' = FALSE
    /\ deleted' = deleted \cup {target}
    /\ UNCHANGED file

\* Neither the unlink nor the rename succeeds: the old file, if there is one, is opened
\* again, or cannot be.
ReplaceFails ==
    /\ phase = "copied"
    /\ EndDelete
    /\ fd_ok' \in {FALSE, file # NoFile}
    /\ careful' = FALSE
    /\ UNCHANGED <<file, deleted>>

\* An append fails, with or without a part of the record in the file: -1.
PutFails ==
    /\ CanAppend
    /\ file' \in {file, Torn(file)}
    /\ careful' = FALSE
    /\ UNCHANGED <<tmp, opened, fd_ok, entry_count, phase, target, deleted>>

\* The process ends: between two calls, inside a delete, or inside an append, of which
\* a part or the whole is in the file.  A close that cannot write leaves the same.
Crash ==
    /\ opened
    /\ \/ UNCHANGED <<file, deleted>>
       \/ CanAppend /\ file' = Torn(file) /\ UNCHANGED deleted
       \/ \E k \in Keys, v \in Values :
             /\ CanAppend
             /\ file' = Longer(file, [key |-> k, value |-> v])
             /\ deleted' = deleted \ {k}
    /\ opened' = FALSE
    /\ fd_ok' = FALSE
    /\ phase' = "idle"
    /\ target' = NULL
    /\ entry_count' = 0
    /\ tmp' = NoFile
    /\ careful' = FALSE

Calls ==
    \/ kvstore_open
    \/ kvstore_close
    \/ \E k \in Keys, v \in Values : kvstore_put(k, v)
    \/ \E k \in Keys : kvstore_delete(k)
    \/ Unlink
    \/ Rename

Failures ==
    \/ CreationFails
    \/ PutFails
    \/ \E k \in Keys : DeleteOnFullDisk(k)
    \/ RenameFails
    \/ ReopenFails
    \/ ReplaceFails
    \/ Crash

Next == Calls \/ Failures

Spec == Init /\ [][Next]_vars
-----------------------------------------------------------------------------
(* Safety *)

\* A key whose delete returned 0 is not read again, whatever the count says, through
\* torn appends, cut copies, failed renames and crashes, as long as nothing stands
\* behind a part of a record: then any bytes may be read as any key (kvstore_get
\* 142-163, kvstore_delete 186-215).
DeletedKeysAreGone ==
    file # NoFile /\ file.rest # "lost" =>
        \A n \in Count : \A s \in Scans(file, n) : \A k \in deleted : Lookup(s, k) = NULL

\* While the client is careful the count is the number of records, in memory
\* while the store is open and in the header while it is not: no path writes
\* one without the other (kvstore_close 106-107, kvstore_delete 184, 215).
CountIsRecords ==
    careful => /\ Ready => entry_count = Len(file.entries)
               /\ ~opened /\ file # NoFile => file.count = Len(file.entries)

\* The store's state is well formed and its count is that of its file.
StoreSound == TypeOK /\ CountIsRecords

\* What a client reads, across closing and opening: the store it has open, or
\* the one it would open.  A delete takes effect when the old file is unlinked.
Contents ==
    LET scan == CASE phase = "unlinked" -> OnDisk(tmp)
                  [] phase # "unlinked" /\ opened ->
                        IF fd_ok THEN Framed(file, entry_count) ELSE <<>>
                  [] OTHER -> OnDisk(file)
    IN  [k \in Keys |-> Lookup(scan, k)]

\* While the client is careful the file is a map that outlives the process that
\* closed it and in which the first put of a key stands: a put of a key that is there
\* changes nothing, a put of another stores its value, a delete removes its key, and
\* no copy of it, when the old file goes, and no other step, an open or a close among
\* them, changes anything (kvstore_open 75-98, put 123-132, get 138-166, delete).
M == INSTANCE KeyValueMap WITH map <- Contents
MapWhileCareful ==
    [][careful' =>
         /\ \A k \in Keys, v \in Values : kvstore_put(k, v) =>
                IF Contents[k] = NULL THEN M!Put(k, v) ELSE UNCHANGED Contents
         /\ Unlink => M!Remove(target)
         /\ \/ Unlink
            \/ \E k \in Keys, v \in Values : kvstore_put(k, v)
            \/ UNCHANGED Contents]_vars
=============================================================================

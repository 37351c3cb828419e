# FreeLang: a TLA+ verification of its C libraries and server

FreeLang's C part is a library of containers and services (`myos-lib`: heap, vector, hash table,
list, strings, tables with a small SQL, snapshots, a runtime registry) and an HTTP server
(`c-server`) built on it.  This directory holds TLA+ modules translated from that code, the
configurations TLC checks them with, and proofs TLAPS checks.  `PROJECT.json` lists, machine
readable, the components, runs, mutants, findings, hazards and theorems, and maps every definition to
the lines it models.

Much of the C is duplicated.  `c-server/Makefile` builds `c-server/src/*.c`, the `mm`, `vector`,
`hash`, `string`, `list`, `crc32` and `serializer` of `myos-lib/src`, and `table`, `sql_parser`,
`sql_executor`, `sql_manager` of `c-server/include`.  The modules are translated from the copies that
are built; `c-server/include/include` and the other copies are older or equal text.

## 1. The system

### Components, their state and their operations

| component | state | operations that change it | what makes it correct |
|---|---|---|---|
| memory manager `myos-lib/src/mm.c` | one mmap'ed region, block headers in it, a free list in address order, counters | `mm_init`, `mm_alloc`, `mm_free`, `mm_destroy` | blocks never overlap; the free list is sorted, coalesced and acyclic; a free is accepted exactly for an object that is held; no object is smaller than asked |
| hash table `hash.c` | array of slots (empty, tombstone, entry), capacity, count | `hash_set`, `hash_delete`, `hash_clear`, `hash_resize`; growth inside `hash_set` | a map: what was set and not deleted is found, what was deleted is not, across growth and failing allocations; the probe always ends |
| key-value store `c-server/src/kvstore.c` | a file (header count, records), a descriptor, the count in memory | `kvstore_open`, `_put`, `_delete`, `_close` | a durable map: deleted keys stay deleted, other keys stay, the count tells how many records there are, across closing, opening and crashes |
| SQL parser `c-server/include/sql_parser.c` | a cursor in the text, the statement built so far | `sql_parse`, `sql_statement_free` | it returns; it understands what is written; it stays inside the text |
| SQL engine `sql_executor.c`, `table.c`, `sql_manager.c`, `c-server/src/sql_api.c` | tables, each with columns and an array of rows | CREATE, INSERT, UPDATE, DELETE, SELECT from one endpoint | relations: each statement touches exactly the rows its condition holds of, a failed one nothing, every request is answered |
| vector `vector.c` | buffer, size, capacity | push, pop, insert, remove, set, reserve, shrink, clear | a sequence, through growth and failing growth |
| list `list.c` | doubly linked nodes, head, tail, size, iterator | push/pop at both ends, insert, remove, reverse, unique, merge, `remove_if` | forward and backward chain agree and hold `size` nodes; iterators survive what they should |
| string `string.c` | buffer, length, capacity | append, insert, replace, trim, split | the text equals the reference function; the terminator is inside the buffer |
| router, authentication, users, storage, logs `router.c`, `auth.c`, `database.c`, `storage.c`, `logs.c` | user array (1000), key/value array, log array, global counters | register, login, verify, list users, storage get/set/delete, add and list logs | names are unique, a registered user can log in, a token is accepted iff the server made it, storage is a map |
| HTTP and connections `http.c`, `server.c`, `main.c` | listening socket, the one connection being served, the SIGINT handler | accept, one `recv`, parse, route, send, close | every client is served; a request is taken whole; shutdown frees nothing in use |
| base64url, SHA-256, HMAC `crypto.c` | none | pure functions | decode inverts encode |
| snapshot, runtime, serializer `snapshot.c`, `runtime.c`, `serializer.c` | frames with checksums, a file, registries of objects | add frame, save, load | what was saved is loaded, or the load fails; a crash loses at most the last save |
| object pool `object_pool.c` | slots with a used bit | acquire, release, get | a handle names one object until it is released |
| CRC32 `crc32.c` | table | pure function | equals the bitwise definition |

### How they interact

The library and the server are single-threaded: components call one another, and there are no
locks.  `vector`, `hash`, `list`, `string`, `table` allocate with `mm_alloc` and never call
`mm_init`; without a heap `mm_alloc` is `malloc`.  The server never calls `mm_init` either.  `server_run`
accepts a connection, `handle_client` receives once, `http_parse` splits the request,
`router_handle` finds the handler and the handler answers on the socket before the next
connection is accepted.  `POST /api/sql/execute` goes from `handle_sql_execute` to `sql_parse`,
`sql_manager_get_table`, `execute`, and `table_*`.  The router calls users, tokens, storage and
logs; the key-value store, the pool, the snapshots and the runtime are for programs that link the
library, and the server does not call them.  State is shared only through globals of the server process, and one signal
handler runs between any two instructions.

### What is hard here

- Long legal sequences on one structure: frees that merge with two neighbours, tombstones that
  meet growth, deletes that move rows during a scan.  Unit tests of the repository use each call
  once or twice in one order.
- Crashes and failing calls between the writes of one operation (`kvstore`, `snapshot`).
- Partial failure: a count raised before an allocation that fails, an ignored `rename`.
- Liveness: loops that end only when a cursor moves, in a server that handles one request at a
  time.
- Numeric edges: a rounding that wraps, an unsigned count that is lowered below zero.

- Own arguments: an element of a vector pushed onto the vector, a string appended to itself, a list
  merged with itself, a handle released twice.
- A request that comes in pieces, a client that stays silent, a signal in the middle of a request.

`PROJECT.json` lists the hazards with the line where each bites and the properties that would catch
it; one that no property covers has a note.

## 2. The modules

| module | models | state and actions |
|---|---|---|
| `Allocator` | what `mm.h` promises | `held[p]`: bytes the client holds at `p`; map, allocate, release, unmap |
| `MemoryManager` | `mm.c` | `free_list` as a sequence of addresses, `mem[a]` the header a read at `a` would find, stale ones included; one action per path of `mm_init`, `mm_alloc`, `mm_free` (called with *any* address), `mm_destroy`, and `ClientWrite`: the client fills an object it holds |
| `KeyValueMap` | a map | put, remove, clear |
| `HashMap`, `MCHashMap` | `hash.c` | `entries`, `capacity`, `count`; `FindEntry` is the probe, `Rehash` the growth in index order, `SetOutOfMemory` the failure between the two allocations of `hash_set` |
| `KVStore`, `MCKVStore` | `kvstore.c` | `file`, `tmp`, `entry_count`, `fd_ok`; a file is a header, whole records and a rest, behind which framing may be lost; `kvstore_delete` in three steps (copy, unlink, rename), torn appends, a copy with holes from a full disk, a failing unlink, rename or open, `Crash` anywhere |
| `SqlParser`, `MCSqlParser` | `sql_parser.c` | `text`, `pos`, `at` (which loop), `stmt`; one action per head of a statement, per turn of a loop, per end of a loop |
| `Relations` | what a database promises | named bags of rows: create, insert, delete |
| `SqlEngine`, `MCSqlEngine` | `sql_api.c`, `sql_executor.c`, `table.c`, `sql_manager.c` | `tables` and `response` added to `SqlParser`: `Request` starts a parse, `Parse` is a step of the parser, `Execute` runs and answers the statement |
| `Codec` | base64url of `crypto.c` | none: pure functions on bytes and characters |
| `Server`, `MCServer` | `server.c`, `http.c`, `router.c`, `auth.c`, `database.c`, `main.c` | `backlog`, `client_fd`, per client the connection, its request and how much of it has arrived; `users`; clients connect, send in pieces, stay silent, hang up; the server accepts and handles; `Interrupt` and `Start` |
| `AppStore`, `MCAppStore` | `storage.c`, `logs.c` | `items` and `entries` with their capacities; `storage_set`, `storage_delete`, `logs_add` |
| `ObjectPool` | `object_pool.c` | slots and count, and clients that may release a handle once more |
| `OrderedContainers` | what a list or vector promises | sequences of elements: insert, erase, replace, turn, merge, ... |
| `LinkedList`, `MCLinkedList` | `list.c` | the links of every node of one heap, two lists, one iterator; one action per operation, through the links as the code sets them |
| `Vector`, `MCVector` | `vector.c` | buffers of one heap, `data`, `count`, `capacity`, and a pointer the program keeps into a buffer |
| `StringEngine`, `MCStringEngine` | `string.c` | text and the byte behind it, capacity; arguments from the program or from the string itself |
| `Serializer` | `serializer.c`, `crc32.c`, the readers of `runtime.c` | none: frames as a payload and the checksum of a payload |
| `Snapshot`, `MCSnapshot` | `snapshot.c`, `runtime.c` | frames in memory, the writes the file consists of, the objects restored; `snapshot_save` one write at a time, cut short or ended anywhere |
| `MemoryProofs` (heap, pool, string), `StorageProofs` (key-value store, snapshot), `HashMapProofs`, `VectorProofs`, `LinkedListProofs`, `ServerProofs` (server, stores), `SqlProofs` | | inductive invariants and the theorems about them |
| `SequenceLemmas` | | what beginnings, parts, concatenations and sums of sequences are, functions defined by recursion, and that there are such functions, loops as sequences of states, and the members of a set of numbers in their order; used by all the proofs |

`SqlEngine` extends `SqlParser`, so a request runs through the real steps of the parser; `Server`
extends `Codec`, so a token is spelled and read by the real codec; `Snapshot` extends `Serializer`.
`KeyValueMap` is instantiated by `HashMap`, `KVStore` and `AppStore` through what their reads return,
`OrderedContainers` by `LinkedList` and `Vector` through what a walk over them meets, `Allocator` by
`MemoryManager` through what the client holds, and `Relations` by `SqlEngine` through named rows.
`MCAppStore` checks the stores and the pool, which share nothing, side by side: each behaviour
uses one of them.

**Abstractions**, each named in the header of its module.
Header bytes become a record at an address; the hash function is a constant; a record of the store
is a key and a value, and where something was written behind a part of a record a scan may read any records at all; SQL text is a sequence of lexemes and not of characters; words
fit their columns unless they are in `TooLong`.  A password stands for its hash.  SHA-256, HMAC and
CRC32 are taken to be injective: where they collide the code promises nothing.  A request is a path,
header lines, a body and a token, of which the first part, the header or everything has arrived.
A list node and the copy of its element are one block, as they are allocated and freed together.
A snapshot file is the sequence of the writes that made it.  A call that fails before it has changed
anything is no step, and where it fails later the half it has done is an action.

**Ghosts** record what was promised so far (`asked`, `expected`, `deleted`, `proved`, `told`,
`logged`, `begun`, `acked`, `came`, `want`), or that a client kept to the uses for which the code
keeps its promise (`pristine`, `careful`, `plain`, `doubled`, `careless`, `stale`, `lost`); no
guard reads them.  Definitions headed "Variant of" or "Mutant" show that a property depends on the
code (`PROJECT.json`, "mutants"); no specification uses them.

**Order of a handler in `Server`.**  The process has one thread, and what it does between `recv` and `close`
touches its own memory and one connection only, so nobody can see the middle of it.  Only SIGINT
can come there; its handler ends the process, and what the request had changed ends with it.
`Receive` is therefore one step, and `Interrupt` before it stands for a signal anywhere inside.

## 3. What is checked

| run | result | states | what it shows |
|---|---|---|---|
| `memory_manager` | pass | ~40,000 | every order of calls, writes and bad frees keeps the heap sound and implements `Allocator` |
| `hash_map` | pass | ~81,000 | chains unbroken, a slot always free, count exact without deletes, last write read until the first growth, a map while pristine |
| `kvstore` | pass | ~790,000 | a deleted key is not read again, whatever the count, through failing calls and crashes, unless something stands behind a part of a record; for a careful client the count is that of the records, and the contents are a map in which the first put of a key stands |
| `sql_parser` | pass | ~26,000 | the parser returns, or it has met a stray parenthesis; what is written is what is parsed; it leaves the text in one case only |
| `sql_engine` | pass | ~295,000 | DELETE and UPDATE touch the rows they match, plain statements implement `Relations`, every request is answered unless the parser hangs |
| `server` | pass | ~313,000 | a login that worked keeps working, a registration is honoured or shadowed by an older account, a whole request is understood, every connection ends unless somebody stays silent for ever |
| `server_token` | violation | | a token just given is answered with 401: the decoder stores three bytes, a signature has 32 |
| `linked_list` | pass | ~50,000 | links agree in both directions and with the count, no node is in two lists or in none, each call does to its list what a container promises for its index, element and second list, the iterator passes every node once |
| `vector` | pass | ~86,000 | one live buffer across growth and shrinking, each call does what a container promises for its index and element, own elements are stored as they were while there is room |
| `app_store` | pass | ~7,500 | a set puts its value at its key and a delete takes its key away, with exceptions stated for the forms of keys too long; the newest messages are listed, newest first; a handle of the pool stands while nobody releases what was handed on |
| `snapshot` | pass | ~325,000 | a load gives the whole last save or nothing, wherever a save ends; what is restored is a beginning of what was encoded, all of it when memory suffices |
| `string` | pass | ~6,900 | until a call leaves the buffer or reads a freed one, a sound text and the one the calls describe, but for a removal whose end wraps; `string_replace` leaves the buffer exactly when the result is shorter than what is looked for; a long comes back as the int of its low bits |

Deadlock is checked in every run except `string`: a call that leaves the buffer or reads a freed one ends
that behaviour, as nothing is known of what follows.

**Bounds, and why they are enough.**
*Heap:* 16 bytes, headers of 2, alignment 2: up to four blocks, so a block with a free block on both
sides, on one side, and on neither, splits that leave exactly a header (given up) and more than one
(kept), requests that round up, and stale headers under new payloads; `SizeMod` 64 lets no
request wrap.  The theorems hold for every value.
*Hash table:* three keys that start at the same slot of a table of 5 and at two of a table of 10,
the smallest capacity that still takes a fourth entry below the load limit; one growth by load or
on request (`Resizes` 3, which shrinks nothing, and 10), a growth beyond `MaxCapacity` fails,
tombstones in a grown table bounded by two.
*Store:* two keys, two values, three records (`MaxRecords`), counts modulo 6 (`CountMod`): enough for two records of
one key with another behind them, for a count below and above the number of records, and for a wrap below zero.
Where framing is lost a scan reads one record more at most (`MaxStrays`), any one: enough to copy a deleted key
into a new file.  The theorems hold for any number.
*Parser:* every text of up to four or five lexemes behind each keyword, and every written statement
over two words with lists of one and two.  Two turns of a loop show every transition of it.
*Engine:* two tables, two columns, two values, three rows (`MaxRows` bounds the INSERTs sent): the row
that takes the place of a deleted one is matched, not matched, or the deleted one itself.
*Server:* two clients, so that one waits while the other is served; a table of two accounts, of which
`db_init` takes one, so that a name can be registered twice or the table be full; a backlog of two.
Signatures have their 32 bytes.  The theorems hold for every value.
*Lists:* three nodes shared by two lists: a first, a middle and a last one, a merge of two lists that
are not empty, a node that is freed and handed out to the other list under an iterator.  `MaxIndex` 4
lets an iterator go once more than there are nodes.
*Vector:* at most `MaxCount` elements, so that sizes in bytes do not wrap (vector.c:109); capacities 2 and 4 and the exact ones of a shrink, three buffers of which one may be leaked
and two are needed to grow.
*Stores and pool:* three keys of which one is cut to the form of another, three values of which one is, two
doublings, more entries than are listed, a message that fills its field; two slots for two clients, so that a slot returned is handed on.
*Snapshot:* frames for two objects and room for one, so that the array doubles; a save over an older save; one
damaged frame; one object restored, since a restore reads one frame and nothing of an earlier one.
*String:* three characters (a letter, its capital, a blank), texts up to four and arguments up to two
from an initial capacity of 2: a delimiter that overlaps itself, a replacement longer, equal and shorter,
two growths.  Positions and lengths go up to `SIZE_MAX`, here 15, so that sums of two wrap and products do.  Numbers are checked on an int of 5 bits (`INT_MAX` 15) and a long of 8 (`LONG_MAX` 127), all of them, while the text is empty,
which they do not depend on.

**Fairness.**  `SqlParser` and `SqlEngine` assume weak fairness of the next step of a request
the server has taken: it is one thread running a loop, and a step that is enabled is the next
instruction.  A turn of a loop that moves nothing is a stuttering step, so fairness forces nothing
there, and the parser stays where it is: that is how the code hangs.  `Server` assumes weak fairness of
`Accept` and of `Receive` for each client: the loop of `server_run` goes on, and `recv` returns once
there is something to return.  Nothing is assumed of clients: none need ever connect, finish a
request or come back, and that is why `EveryConnectionEnds` says what happens only if nobody stays silent for
ever.  All other modules state safety only.

### Disagreements

`server_token` refutes what the headers and the route table say of tokens.  These were met on the way;
where a definition is named, the module states what the repository says, and TLC refutes it when the
definition is added to the run's configuration:

- `mapped => mm_validate` (mm.c:446, test_mm.c:186): the code's check reports a sound heap as damaged once a block was served without
  a split: the bytes given up at mm.c:210 belong to no block, and `mm_free` does not restore them.
- `DeletedStaysDeleted`: set, set, delete, set, delete of one key finds it again (hash.c:220).
- `UpdatesSurviveGrowth`: a growth puts an older copy of a key in front of the newer (hash.c:276).
- `SqlParseReturns`: `SELECT COUNT(a) FROM t` is parsed for ever (sql_parser.c:117).
- `UpdateSetsNamedColumn`: UPDATE writes the assignment's text into the first column
  (sql_executor.c:335).

And these are in the models as the code does them, told apart by a property's premise or stated by it:

- After `mm_destroy`, `mm_alloc` answers from `malloc` (mm.c:195) where test_mm.c:233 expects `NULL`;
  `align_up` of a request within 15 of `SIZE_MAX` is 0 (mm.c:86), which `NoWrap` excludes.
- `hash_validate` reports an error after a `hash_set` that ran out of memory (hash.c:406).
- The second put of a key is never read (kvstore.c:156), which `MapWhileCareful` states; deleting an absent key
  hides the last record, and the next delete drops it (kvstore.c:184).
- A store whose creation was cut short is refused for good (kvstore.c:60); `kvstore_delete` does not check the
  writes of its copy before it unlinks the old file (kvstore.c:199).  When neither the unlink nor the rename
  succeeds it answers 0 with the key still there and a count one lower (kvstore.c:208).
- A torn append is not cut off, so what is appended next stands behind a part of a record: scans go on there in a
  shifted frame and may take a key, a deleted one too, out of another record's bytes (kvstore.c:142, 188), and
  `kvstore_delete` copies what it finds there; lengths read there are not checked against its arrays
  (kvstore.c:194), which the model takes to end the process.
- INSERT ignores the column names it lists; CREATE with types makes columns of the types;
  a `;` at the end of a SELECT without a space becomes part of the table's name.
- A registration of a name that is taken is answered with 201 and is of no use (router.c:168); a body that
  arrives in a second segment is a bad request (http.c:137), and so is a request without header lines
  (http.c:154), whose last line is never parsed in any request.
- A client that connects and sends nothing keeps every other waiting (server.c:86).
- A list merged with itself forgets its nodes (list.c:551).
- A vector that was emptied leaks its buffer when it grows (vector.c:115); its own element, pushed when it is
  full, is read from the freed buffer (vector.c:180).
- `string_replace` and `string_reverse` compare with differences that have no sign and leave the buffer for
  short or empty texts (string.c:215); the own data of a string, appended or inserted when it grows, is read from the
  freed buffer; the end of a range is a sum that wraps, so that `string_remove` with a huge length makes the text longer
  (string.c:191) and `string_substring` copies past it (string.c:566), where string.h:362 promises what there is; so does the
  product in `string_repeat` (string.c:610); the doubling of `string_ensure_capacity` never ends for a request above half of
  what a size can be (string.c:128), which is not asked for in the model; `string_split_str` counts too many parts for a delimiter that overlaps itself
  (string.c:512); `string_to_long` reads an int, and the smallest long is written as no number (string.c:378).
- A key too long for its field is stored again at every set and never found (storage.c:58); a message as long
  as its field is not ended (logs.c:54).
- The checksum of a snapshot file covers its last frame and is never compared; the decoders of
  `serializer.c` are stubs; a hash map comes back from a snapshot empty (runtime.c:198).
- A handle of the pool released again after the slot was handed on takes it from its holder
  (object_pool.c:67).

## 4. What is proved

| theorem | statement |
|---|---|
| `HeapAlwaysSound` | `NoWrap => (Spec => []HeapInv)` |
| `TypesHold`, `BlocksAlwaysDisjoint`, `FreeListAlwaysSorted`, `AlwaysCoalesced`, `FreeCheckIsExact`, `RequestsAlwaysServed` | the invariants of the run `memory_manager`, from `HeapInv` |
| `AllocatorImplemented` | `NoWrap => (Spec => A!Spec)`: every step of `mm.c` is a step of `Allocator` or a stutter |
| `AccountsBalance` | `current_allocated` is the sum of the sizes of the blocks handed out (under `NoWrap`) |
| `ServerAlwaysSound`, `ServerTypes`, `LoginsStand`, `RegistrationsHonoured` | the invariants of the run `server` |
| `QueueSound` | a connection waits in one place and is in use as long as it waits; an answer lies only at a closed one |
| `WholeRequestsAnswered` | the action property `WholeRequestsUnderstood` |
| `StoresAlwaysSound`, `ListedNewestFirst` | no key twice but those a longer one was cut to; the log is what was logged, and the newest are listed |
| `StorageIsAMap` | a set puts its own value at its own key, a delete takes its own key away, and no call changes another; for keys a longer one was cut to, and the longer ones, what happens is stated |
| `HandlesAlwaysStand` | the count of the pool is exact, and handles stand while nobody was careless |
| `LoadsAreOfTheLastSave`, `RestoredAreSaved` | what `snapshot_load` and `runtime_restore` give is what was last saved, whenever they say they did |
| `VectorAlwaysSound`, `OneBufferAlways` | one live buffer as large as the capacity; no other is allocated but the leaked ones |
| `VectorIsAContainer` | every call of `vector.c`, with its index and element, and every write through a pointer, is the step of `OrderedContainers` it stands for |
| `ElementsAlwaysWritten`, `OwnElementAlwaysStored` | an element is never an unwritten cell; given by its own address it is stored as it was while there is room |
| `ListsAlwaysOK`, `NodesAlwaysInOneList` | both walks of a list agree with each other and with its count, and no node is in two lists or, but for a list merged with itself, in none |
| `ListsImplementContainers` | every call of `list.c`, with its list, index and element, is the step of `OrderedContainers` it stands for, the loops of `list_remove_if`, `list_unique` and `list_erase_first_n` and a merge with itself included |
| `EachPassedOnce` | an iterator whose node lives passes each node once, whatever changes around it |
| `StoreAlwaysSound`, `DeletedStayGone` | no record of a deleted key is in the file where its framing holds, through failing calls and wherever the process ends; so it is not read, unless something stands behind a part of a record |
| `CarefulAlways`, `CountsHold` | while the client is careful the files are whole and counted, in memory and in the header |
| `CarefulStoreIsAMap` | while the client is careful each put and each delete does to a `KeyValueMap` what its arguments say, except that the first put of a key stands, and nothing else changes it |
| `TableAlwaysFit`, `TableAlwaysSound` | every entry of the hash table is within reach of its key, a slot stays free, the count covers what is there |
| `LastWriteRead` | until a table grows, a key that was set reads what was last set, whatever was deleted or failed |
| `PristineTableIsAMap` | without deletions and failures every call of `hash.c` is an operation of `KeyValueMap`, growth included |
| `ParserAlwaysSound`, `ReadsBehindOnlyThen` | whatever the query, the terminator is passed only in an `INSERT` whose column list is not closed |
| `StatementsParsedAsWritten` | a statement in the form the comments of the parser give is parsed into what is written there, however long its lists |
| `EngineAlwaysSound`, `EngineTypes` | rows are as wide as their tables and table names apart, whatever the queries |
| `OthersStay` | a `DELETE` takes the rows its condition holds of and leaves every other as often as it was; an `UPDATE` changes no other |
| `StringInvariant` | until a call left the buffer or read a freed one, a string is a text and the zero byte behind it, in a buffer that holds it, and each call gave what it promised |
| `TextKept` | until then the text is what the calls of `string.c` describe, but for a removal whose end wraps, which lengthens it, and own data inserted in its middle; the parts of a split, joined, give it back, none holds the delimiter, and `string_find` agrees with the first |
| `ReplacesInside` | `string_replace` leaves the buffer exactly when what it should end with is shorter than what it looks for |
| `NumbersRead` | a long written as text and read back is the int of its low bits, but for the smallest, which is written as no number |
| `TablesAreRelations` | while statements are plain every step of the endpoint is an operation of `Relations` or leaves the contents alone |

They hold for every value of the constants: any alignment, header size, page and heap; any sets of
clients, names, passwords, keys, values, messages and objects; any size of the account table, the backlog, the
arrays and the pool; any hash function and any capacities of a hash table from 5 up; any number of buffers and any smallest capacity of a vector; any number of lists and a heap of nodes of any size; any number of records
in a file and any width of its count; any queries, and anything in memory behind them; any alphabet, any capacity of a string and length of a text, and any width of an
int, a long and a size.

*Assumptions.*  Those named in the modules (sizes are positive, `None` and `NULL` are no values, names sign
differently, cutting a key twice is cutting it once, an unwritten cell is no element, the address of an element is not `NULL`, a value that was never written is not the answer "none", and, for the statements of
`ParsedAsWritten`, no name or item is a delimiter, a word that ends a list or the condition's `WHERE`, and no condition holds a semicolon), and `NoWrap` for the heap: the requests, and the
sizes given to `mm_init`, are small enough that `align_up` does not wrap.  Without it the code is
wrong, as said above, so it cannot be dropped.

*The heap.*  None of the invariants is inductive alone.  That two blocks stay apart when a block is
freed needs a sorted list, since the merge looks only at the neighbours of the insertion point; that
the list stays sorted needs the freed block not to be on it; and that needs `mm_free`'s check to be
exact, that is, that no stale header left by a merge or lying in a payload still says "allocated".
The last is the heart of it: `Insert` marks a block free *before* a neighbour absorbs it, so that
every header left behind reads as free; a split writes its new header only where no live header
is.  `HeapInv` is the conjunction of these, and the proof has one lemma for each action, with one step
for each conjunct it can disturb.  Refinement then needs only that a region the client holds lies
inside its block (`RequestServed`) and that blocks are apart.

*The server.*  A login looks at the first account of a name.  While the process runs the table only grows at
its end, so that account stays the first (`FirstStays`), and a new one is the first of its name or is
shadowed by another (`RegisteredFound`).  `ServerInv` adds what this rests on: `Asked`, that the server
reads a body only of a client that has made a request, so that what is appended is an account; and
`Fresh`, that a process that does not run has promised nothing.  `QueueInv` follows on top of it.

*The stores.*  `OnceUnless` is what makes the array a map: a key that no longer one was cut to is at one place
at most, so a set writes at the only place of the key or appends a key that is at no place, and a delete, which moves the
last item into the gap, leaves every other key at one place.  Both are shown by the places of a key before and after.  For the log,
position *i* of the list is position *n - i + 1* of the log.

*The pool.*  The count is the cardinality of the slots in use.  `HoldersApart`, that clients hold
different slots, all in use, is kept until the ghost `careless` records a release of a slot handed on.

*The vector.*  Every operation is split where the code splits it: growing moves the elements to a buffer or
none and changes none of them (`Grown`), then other cells are put into the buffer the vector stands in, and the
vector is a beginning of them (`Leaves`).  What insertion and removal do cell by cell (`Opened`, `Closed`) is
compared with what the container says of whole sequences (`InsertedIs`, `RemovedIs`).  `VectorInv` says of
every block whether it is in use, which is what keeps a free block apart from the vector's and the leaked ones.
The refinement then gives that elements are only ever written cells, so that a pointer to one reads it.

*The lists.*  The links are of use only as a whole, so the proof is about chains: `IsList(s, c)` says that the list *s* goes
through the nodes of *c*, in both directions and from both ends, and each operation is shown to lead from a list with one
chain to a list with another (`InsertsPut`, `UnlinkTakes`, ...) that differs from it where the sequence of a container would.
`ListsOK` puts the lists together: their chains share no node, and a node that is in none is free or was lost.  Since all of
them live in one heap, an operation must be seen to leave every other chain alone (`StillApart`): it writes only to
nodes of its own chain and to a node that was free; only a merge writes to two chains, which it makes one.  The loops go from list to list,
and their invariants say what has been removed so far (`IfSteps`, `UniqueSteps`); the least turn that broke one would follow
a turn that did not.  For the iterator `On` says that what it has passed lies before its node in the chain and what it owes behind it: nodes that come
or go keep the order of the others (`OrderKept`), and a list appended behind changes nothing before it.

*The key-value store.*  Two invariants, because two things are promised.  `GoneInv` holds through every failure: no record
that is read in its frame is of a deleted key, and none of the copy is of the key being deleted or of one deleted before.  A
scan of a file whose framing is not lost answers only with such records (`FramedIs`), so a copy made from it
brings nothing back; a copy made from a file where it is lost may, and the ghost `deleted` forgets its keys then.  `CarefulInv`
is about a client to which nothing failed and whose deleted keys were each there once: the files are whole, `entry_count` is the number of records, and
during a deletion the copy is the file without the key, one record fewer.  Then a scan reads all of the file, the
answer for a key is its first record's, which an append behind another record of the key and the
copying of other keys leave alone, and each call does to the map what it says; a deletion does, at `unlink`.

*The hash table.*  A search is known by the one slot it stops at (`FindCases`), and what `hash_set` does by the slot
it writes to (`WrittenIs`).  A table is fit if every entry is within reach of its key and a slot is free, and clean if it
also holds no key twice and no tombstone.  A slot stays free because the load is checked with a count that is never
below the number of entries, and seven tenths of five slots or more leave one.  A growth makes any fit table clean: it
writes to a fresh table, where a search for room always ends (`Room`).  This is shown without induction, along the tables
the growth goes through (`RehashSteps`): the least wrong one would have a right one before it.  `LastWriteRead` then
needs only that the newest copy of a key is the nearest to its home slot, since a write stops at the first tombstone and
a deletion takes the copy a search finds.  For the map, what a clean table answers depends only on which entries are in
it (`ReadAlike`), and a growth of a clean table has the same entries.

*The accounts of the heap.*  `Accounting` compares sums over blocks.  A sum is a function that takes one term after
another, so two sums are compared at the least place where they differ (`SumOne`, `SumSame`): each action changes the
terms of one or two blocks, and the sums by as much.

*The snapshot.*  What is on disk is, up to a torn last write and a damaged frame, a beginning of the file of the last save
that opened it (`PartOf`), all of it once that save answered 0, and exactly what was written while a save runs.
A load that finds the number of frames the header announces and a checksum behind them then has read that file
to its end; frames that check hold what was in memory when they were written.

*The parser.*  `ParseInv` adds two things to the types.  Inside a head or a loop the cursor is not behind the terminator
(`at \in Heads \cup Loops => pos <= Len(text) + 1`): every step stops at the terminator but `ColumnsEnd`, which
passes whatever it stands at.  And in the loop of the columns a parenthesis is open (`OpenFrom`), because the loop was
entered through one and a turn passes no closing one (`TurnPasses`).  So where `ColumnsEnd` passes the terminator, there
is an open parenthesis before it, and the statement is an `INSERT`.

For a text in the written form of a statement, `FormsRead` says where the parser is in it: at the comma behind the *k*-th item of a
list, or at its end (`ItemAt`), with the first *k* items read.  The lexemes of each form are found by their place
(`SelectWritten`, ...).  From there every loop makes the same argument (`LoopGoesOn`): a turn takes exactly one item, since the
item is no delimiter, and the loop ends where the list does, since no item stops it.  The condition is right because nothing
before it reads `WHERE` and nothing in it ends it (`WrittenWhere`).

*The tables.*  `EngineInv` is about shapes: each row has a word for each column, no two tables share a name, and columns
are apart while statements are plain.  What a `DELETE` leaves needs the invariant of its scan, `LeftAt`: when the rows
behind the *i*-th have been looked at, the first *i* are as they were, none behind them satisfies the condition, every row
that does not is there as often as before, and as many went as satisfied it.  A turn keeps it, although the last row moves into
the hole, because that row was looked at already (`ScanTurn`).  For the relations it remains that a row and its form by
names determine each other (`NamedApart`, for which the columns must be apart), and that a condition says the same of both.

*The string.*  The loops of `string.c` are written as functions from the number of turns to the state of the loop, so each run of one is a
sequence of states (`ReplaceTurns`, `SplitTurns`; that there is such a function is `Recursion`), and the proof says of each state what has
been done and what is left.  In `string_replace` (`Halfway`) the buffer is what is done and the last *j* characters of
the text, and what should come of the whole text is what is done and what should come of those; a turn leaves fewer of them or
ends the loop (`HalfwayTurn`), so the turns the model allows are enough (`ReplaceEnds`).  In `string_split_str` each part lies between
two delimiters with none between (`Scanning`), which gives at the end where each part begins and stops (`Stopped`).  That the parts, joined,
give the text back is shown along the beginnings of the text that end at a stop; the number of parts is that of the places of
the delimiter when two places are never closer than it is long, which is what `Overlaps` excludes (`CloseOverlaps`).  For
numbers the low bits may be taken before a digit is put behind or after (`LowDigit`), so what `parse_int` reads of the digits
of a number are the number's low bits, however often the reading has run over (`DigitsRead`).  Nothing is inductive about the
properties themselves but the shape of the buffer, since each is about the last call; `StringInv` says it of the call and adds that the
own data inserted in its middle smears only a text that is not empty, which a written number needs.

*Only model-checked.*  Liveness, which no backend here proves; and that `mm_validate` may report a sound heap as damaged, which
TLC shows and is no promise to prove.  Every invariant and every action property of the passing runs is stated by a theorem.  That tokens are never accepted follows from the length of
what the decoder stores; it is a violation run, not a theorem.

## 5. What is not modelled

- SHA-256 and HMAC, and the polynomial of CRC32: only that equal inputs give equal outputs and different
  ones different outputs matters to their callers.
- What the handlers of the protected routes would do after a token was verified: that point is not reached.
  What they would call is `AppStore`.
- Code nobody calls: `execute_create`, `sql_manager_drop_table`, the lookups of accounts by e-mail, the
  transaction stubs of `database.c`.  `myos-lib/src/sql_manager.c`, a version on the hash table which the
  server does not build, frees a table in `drop_table` (line 77) before `hash_delete` compares its name.
- Damage of the header and of the size words of a snapshot file; the model damages frames.
- Values longer than the caller's buffer in `kvstore_get`; INT and REAL columns, which the endpoint never
  creates; failing allocations in the SQL code; `total_allocations` of the heap.
- Dumps, logging, JSON around answers, formatting, and counters that are only reported.
- Test programs and reports, which are read as statements about the code.

The copies under `c-server/include`, `c-server/include/include` and `myos-lib/src` hold most of the
C files two or three times.  The map names the copy that is built, so the lines of the others stay unmapped
although what is shown holds of them as far as the text is equal.

## 6. What would come next

1. `myos-lib/src/sql_manager.c` over `HashMap`, if a program comes to use it.
2. INT and REAL columns, should the endpoint learn to create them.
3. The handlers behind the token over `AppStore` and `KVStore`, should the decoder be repaired: `Server`
   has to model the expiry of tokens then.

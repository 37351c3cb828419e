------------------------------ MODULE Snapshot ------------------------------
(***************************************************************************)
(* snapshot.c and runtime.c: a program encodes its objects into the frames *)
(* of a snapshot, saves it, and after a restart loads the file and turns   *)
(* the frames into objects again.                                          *)
(*                                                                         *)
(*  - snapshot_save empties the file it is about to write, then makes one  *)
(*    write after another; each is a step, each may be cut short (the call *)
(*    answers -1 and leaves what is there), and the process may end        *)
(*    between any two.  What was written stays written.                    *)
(*  - The file is the sequence of those writes; its CRC covers only the    *)
(*    last frame and is never looked at.                                   *)
(*  - A byte of a frame may change on disk, as its CRC supposes.           *)
(*  - A call that fails for want of memory before it changed anything is   *)
(*    no step.                                                             *)
(***************************************************************************)
EXTENDS Serializer

CONSTANTS
    Objects,            \* [kind, elems]: what the program may save
    None,
    Cut,               \* a write that was cut short
    FRAME_CAPACITY,     \* 16
    MaxFrames, MaxLoaded    \* bounds: frames of a snapshot, objects restored

VARIABLES
    snap,           \* the frames of the snapshot in memory, or None
    frame_capacity,
    disk,           \* the writes the file consists of
    saving,         \* how many writes snapshot_save has made, or None
    registry,       \* the objects of each kind in RuntimeContext
    begun,          \* ghost: the frames of the last save that opened the file
    acked,          \* ghost: that save answered 0
    came            \* ghost: per kind, the object each entry was encoded from,
                    \* and whether memory sufficed to restore it

Payload == {Written(o) : o \in Objects} \cup {Ruined}
Frame   == [frame : [payload : Payload, crc : Payload], of : Objects]

\* What one write of snapshot_save puts into the file.
Piece == [frame_count : Nat] \cup [size_of : Nat] \cup Frame \cup [crc_of : Payload \cup {None}]

\* A byte that changed shows: no object looks like a damaged payload.
ASSUME SnapshotAssumption ==
    /\ Objects \subseteq [kind : Kinds, elems : Seq(UNION {Range(o.elems) : o \in Objects})]
    /\ Ruined \notin {Written(o) : o \in Objects}
    /\ None \notin Nat /\ None \notin Seq(Frame)
    /\ Cut \notin Piece

memory == <<snap, frame_capacity>>
runtime == <<registry, came>>
snapshot_vars == <<memory, disk, saving, runtime, begun, acked>>

Idle == saving = None

---------------------------------------------------------------------------
(* Building a snapshot.  A frame carries the object it came from, as a     *)
(* ghost.                                                                  *)

snapshot_create ==
    /\ Idle
    /\ snap = None
    /\ snap' = <<>> /\ frame_capacity' = FRAME_CAPACITY
    /\ UNCHANGED <<disk, saving, runtime, begun, acked>>

snapshot_free ==
    /\ Idle
    /\ snap # None
    /\ snap' = None
    /\ UNCHANGED <<frame_capacity, disk, saving, runtime, begun, acked>>

Room(n, capacity) == IF n < capacity THEN capacity ELSE 2 * capacity

snapshot_add_frame(o) ==
    /\ Idle
    /\ snap # None /\ Len(snap) < MaxFrames
    /\ snap' = Append(snap, [frame |-> serializer_encode(o), of |-> o])
    /\ frame_capacity' = Room(Len(snap), frame_capacity)
    /\ UNCHANGED <<disk, saving, runtime, begun, acked>>

---------------------------------------------------------------------------
(* snapshot_save: header, then size and data of every frame, then the CRC. *)

FileOf(frames) ==
    <<[frame_count |-> Len(frames)]>>
        \o FlattenSeq([i \in DOMAIN frames |-> <<[size_of |-> i], frames[i]>>])
        \o <<[crc_of |-> IF frames = <<>> THEN None ELSE Last(frames).frame.payload]>>

snapshot_save ==
    /\ Idle
    /\ snap # None
    /\ saving' = 0
    /\ disk' = <<>>
    /\ begun' = snap /\ acked' = FALSE
    /\ UNCHANGED <<memory, runtime>>

Write ==
    /\ ~Idle
    /\ saving < Len(FileOf(snap))
    /\ disk' = Append(disk, FileOf(snap)[saving + 1])
    /\ saving' = saving + 1
    /\ UNCHANGED <<memory, runtime, begun, acked>>

WriteFails ==
    /\ ~Idle
    /\ saving < Len(FileOf(snap))
    /\ \E part \in {<<>>, <<Cut>>} : disk' = disk \o part
    /\ saving' = None
    /\ UNCHANGED <<memory, runtime, begun, acked>>

SaveReturns ==
    /\ ~Idle
    /\ saving = Len(FileOf(snap))
    /\ saving' = None
    /\ acked' = TRUE
    /\ UNCHANGED <<memory, disk, runtime, begun>>

---------------------------------------------------------------------------
(* snapshot_load                                                           *)

\* Mutant: the frames that are there are taken, however many the header names.
Available(d) == d # <<>> /\ d[1] # Cut

\* The header and both parts of every frame can be read; the CRC need not be there.
Readable(d) ==
    /\ d # <<>> /\ d[1] # Cut
    /\ Len(d) > 2 * d[1].frame_count
    /\ \A i \in 1 .. d[1].frame_count : d[2 * i] # Cut /\ d[2 * i + 1] # Cut

FramesOn(d) ==
    LET there == (Len(d) - 1) \div 2
        n == IF d[1].frame_count < there THEN d[1].frame_count ELSE there
    IN  [i \in 1 .. n |-> d[2 * i + 1]]

snapshot_load ==
    /\ Idle
    /\ snap = None
    /\ Readable(disk)
    /\ snap' = FramesOn(disk)
    /\ frame_capacity' = FoldLeft(LAMBDA room, i : Room(i - 1, room), FRAME_CAPACITY,
                                  [i \in 1 .. Len(FramesOn(disk)) |-> i])
    /\ UNCHANGED <<disk, saving, runtime, begun, acked>>

---------------------------------------------------------------------------
(* runtime_load_vector, _string, _list, _hashmap: the loader of a kind     *)
(* refuses a frame that is damaged or of another kind.                     *)

runtime_load(kind, f) ==
    /\ MapThenSumSet(LAMBDA k : Len(registry[k]), Kinds) < MaxLoaded
    /\ serializer_validate(f.frame)
    /\ f.frame.payload.kind = kind
    /\ \E enough \in BOOLEAN :
          /\ \E elems \in Restored(f.frame.payload, enough) :
                registry' = [registry EXCEPT ![kind] = Append(@, elems)]
          /\ came' = [came EXCEPT ![kind] = Append(@, [from |-> f.of, enough |-> enough])]
    /\ UNCHANGED <<memory, disk, saving, begun, acked>>

runtime_new == [k \in Kinds |-> <<>>]

---------------------------------------------------------------------------
(* Faults: the process ends, a byte of a frame on disk changes.            *)

Restart ==
    /\ snap' = None /\ frame_capacity' = FRAME_CAPACITY
    /\ saving' = None
    /\ registry' = runtime_new /\ came' = runtime_new
    /\ UNCHANGED <<disk, begun, acked>>

Damage ==
    /\ Idle
    /\ \E i \in DOMAIN disk :
          /\ i % 2 = 1 /\ i \in 3 .. Len(disk) /\ disk[i] # Cut
          /\ "frame" \in DOMAIN disk[i]
          /\ \A j \in DOMAIN disk \ {i} :
                disk[j] # Cut /\ "frame" \in DOMAIN disk[j] => disk[j].frame.payload # Ruined
          /\ disk' = [disk EXCEPT ![i].frame.payload = Ruined]
    /\ UNCHANGED <<memory, saving, runtime, begun, acked>>

SnapshotInit ==
    /\ snap = None /\ frame_capacity = FRAME_CAPACITY
    /\ disk = <<>> /\ saving = None
    /\ registry = runtime_new /\ came = runtime_new
    /\ begun = None /\ acked = FALSE

SnapshotNext ==
    \/ snapshot_create \/ snapshot_free
    \/ \E o \in Objects : snapshot_add_frame(o)
    \/ snapshot_save \/ Write \/ WriteFails \/ SaveReturns
    \/ snapshot_load
    \/ /\ Idle /\ snap # None
       /\ \E kind \in Kinds, i \in DOMAIN snap : runtime_load(kind, snap[i])
    \/ Restart
    \/ Damage

SnapshotSpec == SnapshotInit /\ [][SnapshotNext]_snapshot_vars

---------------------------------------------------------------------------
(* Properties.                                                             *)

\* The frames a load returns are all those of the last save that opened the file, in
\* order: never a part of them, never some of an older save, wherever that save was cut
\* off; and a save that answered 0 can be loaded until another one begins
\* (snapshot.c:123, 193).
LoadsTheLastSave ==
    /\ Readable(disk) =>
          /\ begun # None
          /\ [i \in DOMAIN FramesOn(disk) |-> FramesOn(disk)[i].of]
                 = [i \in DOMAIN begun |-> begun[i].of]
    /\ acked => Readable(disk)

\* An object the runtime restored is what was encoded, or a beginning of it: all of it
\* when memory sufficed, unless it is a map, which comes back empty, or a string with a
\* zero byte; never anything of a damaged frame (runtime.c:86, serializer.c:204).
RestoresWhatWasSaved ==
    \A kind \in Kinds : \A j \in DOMAIN registry[kind] :
        LET was == came[kind][j].from
        IN  /\ was.kind = kind
            /\ IsPrefix(registry[kind][j], was.elems)
            /\ came[kind][j].enough /\ kind # "map" /\ ~Contains(was.elems, NUL)
                   => registry[kind][j] = was.elems
=============================================================================

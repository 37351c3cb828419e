------------------------- MODULE OrderedContainers -------------------------
(***************************************************************************)
(* What an ordered container promises: a finite sequence of elements, and  *)
(* operations that differ from each other only in what they do to it.      *)
(***************************************************************************)
EXTENDS SequencesExt

CONSTANTS Objs, Elems, MaxErase

VARIABLE seq

Init == seq = [o \in Objs |-> <<>>]

\* The container o now holds s; the others are as they were.
Holds(o, s) == seq' = [seq EXCEPT ![o] = s]

InsertBefore(o, i, e) == Holds(o, InsertAt(seq[o], i, e))

Erase(o, i) == Holds(o, RemoveAt(seq[o], i))

EraseFirst(o, n) == Holds(o, SubSeq(seq[o], n + 1, Len(seq[o])))

Replace(o, i, e) == Holds(o, ReplaceAt(seq[o], i, e))

EraseAll(o, e) ==
    LET kept[i \in 0 .. Len(seq[o])] ==
            IF i = 0 THEN <<>>
            ELSE IF seq[o][i] = e THEN kept[i - 1] ELSE Append(kept[i - 1], seq[o][i])
    IN  Holds(o, kept[Len(seq[o])])

Turn(o) == Holds(o, Reverse(seq[o]))

\* Of equal neighbours the first stays.
Unique(o) ==
    LET kept[i \in 0 .. Len(seq[o])] ==
            IF i = 0 THEN <<>>
            ELSE IF i > 1 /\ seq[o][i - 1] = seq[o][i] THEN kept[i - 1]
            ELSE Append(kept[i - 1], seq[o][i])
    IN  Holds(o, kept[Len(seq[o])])

\* Everything of p moves behind what o holds.
Merge(o, p) ==
    /\ o # p
    /\ seq' = [seq EXCEPT ![o] = @ \o seq[p], ![p] = <<>>]

Clear(o) == Holds(o, <<>>)

\* An operation that fails, or only looks.
Look == UNCHANGED seq

Next ==
    \/ Look
    \/ \E o \in Objs :
        \/ \E i \in 1 .. Len(seq[o]) + 1, e \in Elems : InsertBefore(o, i, e)
        \/ \E i \in 1 .. Len(seq[o]) : Erase(o, i)
        \/ \E n \in 1 .. MaxErase : EraseFirst(o, n)
        \/ \E i \in 1 .. Len(seq[o]), e \in Elems : Replace(o, i, e)
        \/ \E e \in Elems : EraseAll(o, e)
        \/ Turn(o)
        \/ Unique(o)
        \/ \E p \in Objs : Merge(o, p)
        \/ Clear(o)

Spec == Init /\ [][Next]_seq
=============================================================================

--------------------------- MODULE StorageProofs ---------------------------
(***************************************************************************)
(* What is kept in files, for every size: the file-backed store and the    *)
(* snapshots of the runtime.                                               *)
(*                                                                         *)
(* The store, for every set of keys and values, every bound on the file    *)
(* and every width of the count.  GoneInv: no record a scan meets before   *)
(* the framing is lost is of a deleted key, and none of the copy is of the *)
(* key being deleted.  CarefulInv: while no call failed and every key      *)
(* deleted was in one record, the files are whole, the count is the number *)
(* of records, and the copy is the file without the key.  What a read      *)
(* answers, the first record of a key, is then a map.                      *)
(*                                                                         *)
(* Snapshots, for every set of objects and every number of frames.  What   *)
(* is on disk is, up to a torn last write and a damaged frame, a beginning *)
(* of the file of the last save that opened it, and all of it once that    *)
(* save answered 0; while a save runs it is exactly what was written.      *)
(***************************************************************************)
EXTENDS KVStore, Snapshot, SequenceLemmas

-----------------------------------------------------------------------------
(* Scans. *)

\* A file is its count, its records and what is behind them.
LEMMA FileParts ==
    ASSUME NEW f \in File
    PROVE  /\ f.count \in Count \cup {NoHeader} /\ f.entries \in Seq(Record)
           /\ f.rest \in {"none", "cut", "lost"}
           /\ f = [count |-> f.count, entries |-> f.entries, rest |-> f.rest]
           /\ f # NoFile
BY NoFileIsNoFile DEF File

\* A count, records and a rest make a file.
LEMMA FileMade ==
    ASSUME NEW c \in Count \cup {NoHeader}, NEW es \in Seq(Record),
           NEW r \in {"none", "cut", "lost"},
           NEW f, f = [count |-> c, entries |-> es, rest |-> r]
    PROVE  f \in File /\ f # NoFile /\ f.count = c /\ f.entries = es /\ f.rest = r
<1>1. f \in File
  BY DEF File
<1> QED BY <1>1, NoFileIsNoFile

\* A scan meets records of the file; one of as many turns as records, all of them.
LEMMA FramedIs ==
    ASSUME NEW f \in File, NEW n \in Nat
    PROVE  /\ Framed(f, n) \in Seq(Record)
           /\ \A i \in 1 .. Len(Framed(f, n)) :
                 \E j \in 1 .. Len(f.entries) : Framed(f, n)[i] = f.entries[j]
           /\ n = Len(f.entries) => Framed(f, n) = f.entries
<1> DEFINE es == f.entries
           m == IF n < Len(es) THEN n ELSE Len(es)
<1>1. es \in Seq(Record) /\ f # NoFile
  BY FileParts
<1> HIDE DEF es
<1>2. m \in Nat /\ m <= Len(es) /\ Len(es) \in Nat
  BY <1>1
<1>3. Framed(f, n) = SubSeq(es, 1, m)
  BY <1>1 DEF Framed, es
<1>4. n = Len(es) => m = Len(es)
  OBVIOUS
<1> HIDE DEF m
<1>5. /\ SubSeq(es, 1, m) \in Seq(Record) /\ Len(SubSeq(es, 1, m)) = m
      /\ \A i \in 1 .. m : SubSeq(es, 1, m)[i] = es[i]
  BY <1>1, <1>2, Beginning
<1>6. \A i \in 1 .. m : i \in 1 .. Len(es)
  BY <1>2
<1>7. m = Len(es) => SubSeq(es, 1, m) = es
  BY <1>1, <1>5, SeqEqual
<1> QED BY <1>3, <1>4, <1>5, <1>6, <1>7 DEF es

\* Whatever a scan reads is a sequence of records, and in its framing what is there.
LEMMA ScansAre ==
    ASSUME NEW f \in File, NEW n \in Nat, NEW s \in Scans(f, n)
    PROVE  s \in Seq(Record) /\ (~Strays(f, n) => s = Framed(f, n))
<1>1. CASE ~Strays(f, n)
  <2>1. s = Framed(f, n)
    BY <1>1 DEF Scans
  <2> QED BY <2>1, FramedIs
<1>2. CASE Strays(f, n)
  <2> DEFINE m == IF Len(f.entries) < MaxRecords THEN MaxStrays ELSE 0
  <2>1. PICK t \in BoundedSeq(Record, m) : s = Framed(f, n) \o t
    BY <1>2 DEF Scans
  <2>2. \E k \in 0 .. m : t \in [1 .. k -> Record]
    BY <2>1 DEF BoundedSeq, SeqOf
  <2>3. m \in Nat
    BY ConstantsAssumption
  <2> HIDE DEF m
  <2>4. t \in Seq(Record)
    BY <2>2, <2>3
  <2>5. Framed(f, n) \in Seq(Record)
    BY FramedIs
  <2> QED BY <1>2, <2>1, <2>4, <2>5, ConcatProperties
<1> QED BY <1>1, <1>2

-----------------------------------------------------------------------------
(* The records kvstore_delete copies. *)

\* Members counted later are greater.
LEMMA NthGrows ==
    ASSUME NEW len \in Nat, NEW S, S \subseteq 1 .. len,
           NEW n \in 1 .. Cardinality(S), NEW m \in 1 .. n - 1
    PROVE  m \in 1 .. Cardinality(S) /\ Nth(S, m) < Nth(S, n)
<1>1. /\ Cardinality(S) \in Nat
      /\ \A i \in Nat : IsFiniteSet(UpTo(S, i)) /\ Cardinality(UpTo(S, i)) \in Nat
  BY Counted
<1>2. m \in 1 .. Cardinality(S) /\ ~(n <= m)
  BY <1>1
<1> DEFINE a == Nth(S, m)
           b == Nth(S, n)
<1>3. a \in S /\ Cardinality(UpTo(S, a)) = m /\ b \in S /\ Cardinality(UpTo(S, b)) = n
  BY <1>2, NthIs
<1> HIDE DEF a, b
<1>4. a \in Nat /\ b \in Nat /\ \A j \in S : j \in Nat
  BY <1>3
<1>5. ~(b <= a)
  <2>1. SUFFICES ASSUME b <= a PROVE FALSE
    OBVIOUS
  <2>2. \A j \in S : j <= b => j <= a
    BY <1>4, <2>1
  <2>3. UpTo(S, b) \in SUBSET UpTo(S, a)
    BY <2>2 DEF UpTo
  <2>4. Cardinality(UpTo(S, b)) <= Cardinality(UpTo(S, a))
    BY <1>1, <1>4, <2>3, FS_Subset
  <2> QED BY <1>2, <1>3, <2>4
<1> QED BY <1>2, <1>4, <1>5 DEF a, b

\* Of the picked elements the nth is that at the nth place.
LEMMA PickedAre ==
    ASSUME NEW s \in Seq(Record), NEW S, S \subseteq 1 .. Len(s)
    PROVE  /\ Picked(s, S) \in Seq(Record)
           /\ Len(Picked(s, S)) = Cardinality(S)
           /\ \A n \in 1 .. Cardinality(S) : Nth(S, n) \in S /\ Picked(s, S)[n] = s[Nth(S, n)]
<1> DEFINE c == Cardinality(S)
           t == [n \in 1 .. c |-> s[Nth(S, n)]]
<1>1. Picked(s, S) = t
  BY DEF Picked, Nth, UpTo
<1>2. Len(s) \in Nat
  OBVIOUS
<1>3. c \in Nat
  BY <1>2, Counted
<1> HIDE DEF c
<1>4. \A n \in 1 .. c : Nth(S, n) \in S
  BY <1>2, NthIs DEF c
<1>5. \A n \in 1 .. c : t[n] = s[Nth(S, n)] /\ t[n] \in Record
  <2>1. SUFFICES ASSUME NEW n \in 1 .. c PROVE t[n] = s[Nth(S, n)] /\ t[n] \in Record
    OBVIOUS
  <2>2. Nth(S, n) \in 1 .. Len(s)
    BY <1>4
  <2>3. s[Nth(S, n)] \in Record
    BY <2>2
  <2> QED BY <2>3
<1>6. t \in Seq(Record) /\ Len(t) = c
  BY <1>3, <1>5
<1> QED BY <1>1, <1>4, <1>5, <1>6 DEF c

Kept(scan, k) == {i \in DOMAIN scan : scan[i].key # k}

\* The copy has the records of the other keys.
LEMMA OthersAre ==
    ASSUME NEW scan \in Seq(Record), NEW k
    PROVE  /\ Others(scan, k) \in Seq(Record)
           /\ Len(Others(scan, k)) = Cardinality(Kept(scan, k))
           /\ \A n \in 1 .. Len(Others(scan, k)) :
                 /\ Nth(Kept(scan, k), n) \in 1 .. Len(scan)
                 /\ Others(scan, k)[n] = scan[Nth(Kept(scan, k), n)]
                 /\ Others(scan, k)[n].key # k
<1> DEFINE S == Kept(scan, k)
<1>1. Others(scan, k) = Picked(scan, S)
  BY DEF Others, Kept
<1>2. S \subseteq 1 .. Len(scan) /\ \A i \in S : scan[i].key # k
  BY DEF Kept
<1> HIDE DEF S
<1>3. /\ Picked(scan, S) \in Seq(Record) /\ Len(Picked(scan, S)) = Cardinality(S)
      /\ \A n \in 1 .. Cardinality(S) :
            Nth(S, n) \in S /\ Picked(scan, S)[n] = scan[Nth(S, n)]
  BY <1>2, PickedAre
<1> QED BY <1>1, <1>2, <1>3 DEF S

-----------------------------------------------------------------------------
(* What a get finds. *)

\* The first record of its key is found.
LEMMA LookupFinds ==
    ASSUME NEW scan \in Seq(Record), NEW i \in 1 .. Len(scan), NEW k, scan[i].key = k,
           \A j \in 1 .. i - 1 : scan[j].key # k
    PROVE  Lookup(scan, k) = scan[i].value /\ scan[i].value # NULL
<1> DEFINE hits == {j \in DOMAIN scan : scan[j].key = k}
<1>1. i \in hits /\ \A j \in hits : i <= j
  <2>1. i \in hits
    OBVIOUS
  <2>2. ASSUME NEW j \in hits PROVE i <= j
    <3>1. j \in 1 .. Len(scan) /\ scan[j].key = k
      OBVIOUS
    <3>2. j \notin 1 .. i - 1
      BY <3>1
    <3> QED BY <3>1, <3>2
  <2> QED BY <2>1, <2>2
<1>2. \A j \in hits : j \in Nat
  OBVIOUS
<1>3. Lookup(scan, k) = IF hits = {} THEN NULL
                        ELSE scan[CHOOSE h \in hits : \A j \in hits : h <= j].value
  BY DEF Lookup
<1> HIDE DEF hits
<1>4. (CHOOSE h \in hits : \A j \in hits : h <= j) = i
  <2>1. \A h \in hits : (\A j \in hits : h <= j) => h = i
    BY <1>1, <1>2
  <2> QED BY <1>1, <2>1
<1>5. Lookup(scan, k) = scan[i].value
  BY <1>1, <1>3, <1>4
<1>6. scan[i].value \in Values \cup {Garbage}
  <2>1. scan[i] \in Record
    OBVIOUS
  <2> QED BY <2>1 DEF Record
<1> QED BY <1>5, <1>6, ConstantsAssumption

\* A get of a key no record is of finds nothing.
LEMMA LookupMisses ==
    ASSUME NEW scan \in Seq(Record), NEW k, \A i \in 1 .. Len(scan) : scan[i].key # k
    PROVE  Lookup(scan, k) = NULL
<1>1. {j \in DOMAIN scan : scan[j].key = k} = {}
  OBVIOUS
<1> QED BY <1>1 DEF Lookup

\* A key that a record is of has a first.
LEMMA FirstIs ==
    ASSUME NEW scan \in Seq(Record), NEW k, \E i \in 1 .. Len(scan) : scan[i].key = k
    PROVE  \E i \in 1 .. Len(scan) :
              scan[i].key = k /\ \A j \in 1 .. i - 1 : scan[j].key # k
<1> DEFINE hits == {i \in 1 .. Len(scan) : scan[i].key = k}
<1>1. hits \subseteq Nat /\ hits # {}
  OBVIOUS
<1>2. PICK i \in hits : \A j \in hits : i <= j
  BY <1>1, HasLeast
<1>3. i \in 1 .. Len(scan) /\ scan[i].key = k
  OBVIOUS
<1>4. ASSUME NEW j \in 1 .. i - 1 PROVE scan[j].key # k
  <2>1. j \in 1 .. Len(scan) /\ ~(i <= j)
    BY <1>3
  <2>2. j \notin hits
    BY <1>2, <2>1
  <2> QED BY <2>1, <2>2
<1> QED BY <1>3, <1>4

\* A key of which a record is found was in the scan, and the other way round.
LEMMA FoundIs ==
    ASSUME NEW scan \in Seq(Record), NEW k
    PROVE  Lookup(scan, k) # NULL <=> \E i \in 1 .. Len(scan) : scan[i].key = k
<1>1. ASSUME \E i \in 1 .. Len(scan) : scan[i].key = k PROVE Lookup(scan, k) # NULL
  <2>1. PICK i \in 1 .. Len(scan) : scan[i].key = k /\ \A j \in 1 .. i - 1 : scan[j].key # k
    BY <1>1, FirstIs
  <2> QED BY <2>1, LookupFinds
<1> QED BY <1>1, LookupMisses

\* A record at the end is found only if it is the first of its key.
LEMMA AppendLookup ==
    ASSUME NEW es \in Seq(Record), NEW r \in Record, NEW k
    PROVE  Lookup(Append(es, r), k) = IF r.key = k /\ Lookup(es, k) = NULL THEN r.value
                                                                          ELSE Lookup(es, k)
<1> DEFINE new == Append(es, r)
<1>1. /\ new \in Seq(Record) /\ Len(new) = Len(es) + 1 /\ Len(es) \in Nat
      /\ \A i \in 1 .. Len(es) : new[i] = es[i]
      /\ new[Len(es) + 1] = r
  OBVIOUS
<1> HIDE DEF new
<1>2. CASE Lookup(es, k) # NULL
  <2>1. PICK i \in 1 .. Len(es) : es[i].key = k /\ \A j \in 1 .. i - 1 : es[j].key # k
    BY <1>2, FoundIs, FirstIs
  <2>2. Lookup(es, k) = es[i].value
    BY <2>1, LookupFinds
  <2>3. i \in 1 .. Len(new) /\ \A j \in 1 .. i - 1 : j \in 1 .. Len(es)
    BY <1>1
  <2>4. new[i].key = k /\ \A j \in 1 .. i - 1 : new[j].key # k
    BY <1>1, <2>1, <2>3
  <2>5. Lookup(new, k) = new[i].value
    BY <1>1, <2>3, <2>4, LookupFinds
  <2> QED BY <1>1, <1>2, <2>2, <2>5 DEF new
<1>3. CASE Lookup(es, k) = NULL
  <2>1. \A i \in 1 .. Len(es) : es[i].key # k
    BY <1>3, FoundIs
  <2>2. CASE r.key = k
    <3> DEFINE n == Len(es) + 1
    <3>1. n \in 1 .. Len(new) /\ n - 1 = Len(es)
      BY <1>1
    <3>2. new[n].key = k /\ \A j \in 1 .. n - 1 : new[j].key # k
      BY <1>1, <2>1, <2>2, <3>1
    <3>3. new[n] = r
      BY <1>1
    <3> HIDE DEF n
    <3>4. Lookup(new, k) = new[n].value
      BY <1>1, <3>1, <3>2, LookupFinds
    <3> QED BY <1>3, <2>2, <3>3, <3>4 DEF new
  <2>3. CASE r.key # k
    <3>1. \A i \in 1 .. Len(new) : i \in 1 .. Len(es) \/ i = Len(es) + 1
      BY <1>1
    <3>2. \A i \in 1 .. Len(new) : new[i].key # k
      BY <1>1, <2>1, <2>3, <3>1
    <3>3. Lookup(new, k) = NULL
      BY <1>1, <3>2, LookupMisses
    <3> QED BY <1>3, <2>3, <3>3 DEF new
  <2> QED BY <2>2, <2>3
<1> QED BY <1>2, <1>3

\* In the copy the key is not found and every other key as before.
LEMMA OthersLookup ==
    ASSUME NEW scan \in Seq(Record), NEW k, NEW q
    PROVE  Lookup(Others(scan, k), q) = IF q = k THEN NULL ELSE Lookup(scan, q)
<1> DEFINE S == Kept(scan, k)
           c == Cardinality(S)
           t == Others(scan, k)
<1>1. /\ t \in Seq(Record) /\ Len(t) = c
      /\ \A n \in 1 .. c : Nth(S, n) \in 1 .. Len(scan) /\ t[n] = scan[Nth(S, n)] /\ t[n].key # k
  BY OthersAre
<1>2. S \subseteq 1 .. Len(scan) /\ \A i \in 1 .. Len(scan) : scan[i].key # k => i \in S
  BY DEF Kept
<1>0. Len(scan) \in Nat
  OBVIOUS
<1> HIDE DEF S, t
<1>3. CASE q = k
  BY <1>1, <1>3, LookupMisses DEF t
<1>4. CASE q # k /\ Lookup(scan, q) = NULL
  <2>1. \A i \in 1 .. Len(scan) : scan[i].key # q
    BY <1>4, FoundIs
  <2>2. \A n \in 1 .. Len(t) : t[n].key # q
    BY <1>1, <2>1
  <2> QED BY <1>1, <1>4, <2>2, LookupMisses DEF t
<1>5. CASE q # k /\ Lookup(scan, q) # NULL
  <2>1. PICK i \in 1 .. Len(scan) : scan[i].key = q /\ \A j \in 1 .. i - 1 : scan[j].key # q
    BY <1>5, FoundIs, FirstIs
  <2>2. Lookup(scan, q) = scan[i].value
    BY <2>1, LookupFinds
  <2>3. i \in S
    BY <1>2, <1>5, <2>1
  <2> DEFINE n == Cardinality(UpTo(S, i))
  <2>4. n \in 1 .. c /\ Nth(S, n) = i
    BY <1>0, <1>2, <2>3, NthOnce
  <2> HIDE DEF n
  <2>5. t[n] = scan[i] /\ n \in 1 .. Len(t)
    BY <1>1, <2>4
  <2>6. ASSUME NEW m \in 1 .. n - 1 PROVE t[m].key # q
    <3>1. m \in 1 .. c /\ Nth(S, m) < i
      BY <1>0, <1>2, <2>4, NthGrows
    <3>2. t[m] = scan[Nth(S, m)] /\ Nth(S, m) \in 1 .. Len(scan)
      BY <1>1, <3>1
    <3>3. Nth(S, m) \in 1 .. i - 1
      BY <3>1, <3>2
    <3> QED BY <2>1, <3>2, <3>3
  <2>7. Lookup(t, q) = t[n].value
    BY <1>1, <2>1, <2>5, <2>6, LookupFinds
  <2> QED BY <1>5, <2>2, <2>5, <2>7 DEF t
<1> QED BY <1>3, <1>4, <1>5

\* Of a key that one record is of, one record is left out.
LEMMA OneLess ==
    ASSUME NEW scan \in Seq(Record), NEW k, Once(scan, k)
    PROVE  Len(Others(scan, k)) = Len(scan) - 1 /\ Len(scan) >= 1 /\ Lookup(scan, k) # NULL
<1>1. Len(scan) \in Nat /\ DOMAIN scan = 1 .. Len(scan)
  OBVIOUS
<1>2. PICK i \in 1 .. Len(scan) : \A j \in 1 .. Len(scan) : scan[j].key = k <=> j = i
  <2> DEFINE D == DOMAIN scan
  <2>1. \E i \in D : \A j \in D : scan[j].key = k <=> j = i
    BY Zenon DEF Once
  <2>2. D = 1 .. Len(scan)
    BY <1>1
  <2> HIDE DEF D
  <2> QED BY <2>1, <2>2, Zenon
<1>3. Kept(scan, k) = (1 .. Len(scan)) \ {i}
  BY <1>1, <1>2 DEF Kept
<1>4. IsFiniteSet(1 .. Len(scan)) /\ Cardinality(1 .. Len(scan)) = Len(scan)
  BY <1>1, <1>2, FS_Interval, SMTT(40)
<1>5. Cardinality(Kept(scan, k)) = Len(scan) - 1
  BY <1>3, <1>4, FS_RemoveElement
<1>6. Lookup(scan, k) # NULL
  BY <1>2, FoundIs
<1>7. Len(scan) >= 1
  BY <1>1
<1> QED BY <1>5, <1>6, <1>7, OthersAre

-----------------------------------------------------------------------------
(* What holds of the store. *)

\* The count wraps, and is a count.
LEMMA CountWraps ==
    ASSUME NEW n \in Int
    PROVE  n % CountMod \in Count
<1>1. CountMod \in Nat \ {0}
  BY ConstantsAssumption
<1>2. n % CountMod \in 0 .. CountMod - 1
  BY <1>1
<1> QED BY <1>2 DEF Count

\* A count that fits does not wrap.
LEMMA CountFits ==
    ASSUME NEW n \in Count
    PROVE  n % CountMod = n
<1>1. CountMod \in Nat \ {0} /\ n \in Nat /\ n < CountMod
  BY ConstantsAssumption DEF Count
<1> QED BY <1>1

\* An open descriptor is one of a file; a delete that runs has its copy, and no file
\* between the unlink and the rename.
StoreInv ==
    /\ TypeOK
    /\ opened /\ fd_ok => file # NoFile
    /\ phase # "idle" => opened /\ target \in Keys /\ tmp # NoFile
    /\ phase = "unlinked" => file = NoFile

\* No record of f is of a key in D.
Gone(f, D) == \A i \in 1 .. Len(f.entries) : f.entries[i].key \notin D

\* No record of the file is of a deleted key, none of the copy of the key being deleted.
GoneInv ==
    /\ file # NoFile => Gone(file, deleted)
    /\ phase # "idle" => Gone(tmp, deleted \cup {target})

\* f, but for its count and its rest.
Alike(f, g) == f \in File /\ f # NoFile /\ f.entries = g.entries

\* What is gone stays gone where fewer keys are deleted.
LEMMA GoneLess ==
    ASSUME NEW f, NEW g, NEW D, NEW E, Gone(f, D), g.entries = f.entries, E \subseteq D
    PROVE  Gone(g, E)
BY DEF Gone

\* A file with no records.
LEMMA EmptyFile ==
    ASSUME NEW c \in Count \cup {NoHeader}, NEW r \in {"none", "cut", "lost"}, NEW f,
           f = [count |-> c, entries |-> <<>>, rest |-> r]
    PROVE  /\ f \in File /\ f # NoFile /\ f.count = c /\ f.entries = <<>> /\ f.rest = r
           /\ \A D : Gone(f, D)
<1> DEFINE es == <<>>
<1>1. es \in Seq(Record) /\ Len(es) = 0
  OBVIOUS
<1>0. f = [count |-> c, entries |-> es, rest |-> r]
  OBVIOUS
<1> HIDE DEF es
<1>5. f.count = c /\ f.entries = es /\ f.rest = r
  BY <1>0
<1>6. f \in File
  BY <1>0, <1>1 DEF File
<1>2. f \in File /\ f # NoFile /\ f.count = c /\ f.entries = es /\ f.rest = r
  BY <1>5, <1>6, NoFileIsNoFile
<1>3. Len(f.entries) = 0
  BY <1>1, <1>2, Zenon
<1>4. \A i \in 1 .. Len(f.entries) : FALSE
  BY <1>3
<1> QED BY <1>2, <1>4, Zenon DEF Gone, es

\* A part of a record at its end leaves the records of a file.
LEMMA TornIs ==
    ASSUME NEW f \in File
    PROVE  Alike(Torn(f), f)
<1> DEFINE r == IF f.rest = "none" THEN "cut" ELSE "lost"
           g == [f EXCEPT !.rest = r]
<1>1. /\ f.count \in Count \cup {NoHeader} /\ f.entries \in Seq(Record)
      /\ f = [count |-> f.count, entries |-> f.entries, rest |-> f.rest]
  BY FileParts
<1>2. g = [count |-> f.count, entries |-> f.entries, rest |-> r]
  BY <1>1
<1>3. r \in {"none", "cut", "lost"} /\ Torn(f) = g
  BY DEF Torn
<1> HIDE DEF r, g
<1> QED BY <1>1, <1>2, <1>3, FileMade DEF Alike

\* A record at its end is one more record, or none where the framing is lost.
LEMMA LongerIs ==
    ASSUME NEW f \in File, NEW r \in Record
    PROVE  /\ Longer(f, r) \in File /\ Longer(f, r) # NoFile
           /\ Longer(f, r).count = f.count
           /\ \/ Longer(f, r).entries = f.entries
              \/ Longer(f, r).entries = Append(f.entries, r)
           /\ f.rest = "none" => /\ Longer(f, r).entries = Append(f.entries, r)
                                 /\ Longer(f, r).rest = "none"
<1>1. /\ f.count \in Count \cup {NoHeader} /\ f.entries \in Seq(Record)
      /\ f = [count |-> f.count, entries |-> f.entries, rest |-> f.rest]
  BY FileParts
<1>2. CASE f.rest = "none"
  <2> DEFINE es == Append(f.entries, r)
  <2>1. Longer(f, r) = [f EXCEPT !.entries = es]
    BY <1>2 DEF Longer
  <2>2. es \in Seq(Record)
    BY <1>1
  <2> HIDE DEF es
  <2>3. Longer(f, r) = [count |-> f.count, entries |-> es, rest |-> "none"]
    BY <1>1, <1>2, <2>1
  <2>4. /\ Longer(f, r) \in File /\ Longer(f, r) # NoFile /\ Longer(f, r).count = f.count
        /\ Longer(f, r).entries = es /\ Longer(f, r).rest = "none"
    BY <1>1, <2>2, <2>3, FileMade
  <2> QED BY <2>4 DEF es
<1>3. CASE f.rest # "none"
  <2>1. Longer(f, r) = [f EXCEPT !.rest = "lost"]
    BY <1>3 DEF Longer
  <2>2. Longer(f, r) = [count |-> f.count, entries |-> f.entries, rest |-> "lost"]
    BY <1>1, <2>1
  <2> QED BY <1>1, <1>3, <2>2, FileMade
<1> QED BY <1>2, <1>3

\* The record's key is not gone any more; the others are.
LEMMA GoneLonger ==
    ASSUME NEW f \in File, NEW r \in Record, NEW D, Gone(f, D)
    PROVE  Gone(Longer(f, r), D \ {r.key})
<1> DEFINE g == Longer(f, r)
           es == f.entries
<1>1. g.entries = es \/ g.entries = Append(es, r)
  BY LongerIs
<1>2. es \in Seq(Record) /\ \A i \in 1 .. Len(es) : es[i].key \notin D
  BY FileParts DEF Gone
<1> HIDE DEF g, es
<1>3. CASE g.entries = es
  BY <1>2, <1>3 DEF Gone, g
<1>4. CASE g.entries = Append(es, r)
  <2>1. SUFFICES ASSUME NEW i \in 1 .. Len(g.entries) PROVE g.entries[i].key \notin D \ {r.key}
    BY DEF Gone, g
  <2>2. \/ i \in 1 .. Len(es) /\ g.entries[i] = es[i]
        \/ g.entries[i] = r
    BY <1>2, <1>4
  <2> QED BY <1>2, <2>2
<1> QED BY <1>1, <1>3, <1>4

\* What a scan of an open store reads are records; in its framing none of them is of a
\* deleted key.
LEMMA ReadsAre ==
    ASSUME StoreInv, opened, NEW s \in Reads
    PROVE  /\ s \in Seq(Record)
           /\ GoneInv /\ ~(fd_ok /\ Strays(file, entry_count)) =>
                 \A i \in 1 .. Len(s) : s[i].key \notin deleted
<1>1. CASE fd_ok
  <2>1. file \in File /\ entry_count \in Nat /\ file # NoFile
    BY <1>1 DEF StoreInv, TypeOK, Count
  <2>2. s \in Scans(file, entry_count)
    BY <1>1 DEF Reads
  <2>3. s \in Seq(Record) /\ (~Strays(file, entry_count) => s = Framed(file, entry_count))
    BY <2>1, <2>2, ScansAre
  <2>4. ASSUME GoneInv, ~Strays(file, entry_count), NEW i \in 1 .. Len(s)
        PROVE  s[i].key \notin deleted
    <3>0. s = Framed(file, entry_count)
      BY <2>3, <2>4
    <3>1. PICK j \in 1 .. Len(file.entries) : s[i] = file.entries[j]
      BY <2>1, <3>0, FramedIs, Zenon
    <3>2. Gone(file, deleted)
      BY <2>1, <2>4 DEF GoneInv
    <3> QED BY <3>1, <3>2 DEF Gone
  <2> QED BY <1>1, <2>3, <2>4
<1>2. CASE ~fd_ok
  <2>1. s = <<>>
    BY <1>2 DEF Reads
  <2>2. s \in Seq(Record) /\ Len(s) = 0
    BY <2>1
  <2> QED BY <2>2
<1> QED BY <1>1, <1>2

\* A copy is a file of the other records that a scan read.
LEMMA CopyIs ==
    ASSUME StoreInv, opened, NEW k \in Keys, NEW copy \in Copies(k)
    PROVE  /\ copy \in File /\ copy # NoFile
           /\ copy.count = (entry_count - 1) % CountMod /\ copy.count \in Count
           /\ copy.rest = "none"
           /\ \E s \in Reads : copy.entries = Others(s, k)
           /\ GoneInv => Gone(copy, {k} \cup IF fd_ok /\ Strays(file, entry_count) THEN {}
                                             ELSE deleted)
<1> DEFINE c == (entry_count - 1) % CountMod
           lost == fd_ok /\ Strays(file, entry_count)
<1>1. PICK s \in Reads : copy = [count |-> c, entries |-> Others(s, k), rest |-> "none"]
  BY DEF Copies
<1>2. c \in Count
  <2>1. entry_count - 1 \in Int
    BY DEF StoreInv, TypeOK, Count
  <2> QED BY <2>1, CountWraps
<1>3. /\ s \in Seq(Record)
      /\ GoneInv /\ ~lost => \A i \in 1 .. Len(s) : s[i].key \notin deleted
  BY ReadsAre
<1> DEFINE es == Others(s, k)
<1>4. /\ es \in Seq(Record)
      /\ \A n \in 1 .. Len(es) :
            /\ es[n].key # k
            /\ \E i \in 1 .. Len(s) : es[n] = s[i]
  BY <1>3, OthersAre
<1> HIDE DEF c, es
<1>5. copy \in File /\ copy # NoFile /\ copy.count = c /\ copy.entries = es /\ copy.rest = "none"
  BY <1>1, <1>2, <1>4, FileMade DEF es
<1>6. ASSUME GoneInv PROVE Gone(copy, {k} \cup IF lost THEN {} ELSE deleted)
  <2>1. SUFFICES ASSUME NEW n \in 1 .. Len(es)
                 PROVE  es[n].key \notin {k} \cup IF lost THEN {} ELSE deleted
    BY <1>5 DEF Gone
  <2>2. es[n].key # k /\ (~lost => es[n].key \notin deleted)
    BY <1>3, <1>4, <1>6
  <2> QED BY <2>2
<1> QED BY <1>2, <1>5, <1>6 DEF c, es

-----------------------------------------------------------------------------
(* Each step keeps both. *)

\* kvstore_open.
LEMMA OpenKeeps ==
    ASSUME StoreInv, GoneInv, kvstore_open
    PROVE  StoreInv' /\ GoneInv'
<1>1. CASE OpenSucceeds
  <2>1. /\ ~opened /\ opened' = TRUE /\ fd_ok' = TRUE
        /\ UNCHANGED <<tmp, phase, target, deleted, careful>>
    BY <1>1 DEF OpenSucceeds
  <2>2. phase = "idle"
    BY <2>1 DEF StoreInv
  <2>3. /\ file' \in File /\ file' # NoFile /\ entry_count' \in Count /\ Gone(file', deleted)
    <3>1. CASE file = NoFile
      <4>1. file' = [count |-> 0, entries |-> <<>>, rest |-> "none"] /\ entry_count' = 0
        BY <1>1, <3>1 DEF OpenSucceeds
      <4>2. 0 \in Count
        BY ConstantsAssumption DEF Count
      <4>3. file' \in File /\ file' # NoFile /\ \A D : Gone(file', D)
        BY <4>1, <4>2, EmptyFile
      <4> QED BY <4>1, <4>2, <4>3
    <3>2. CASE file # NoFile
      <4>1. /\ file' = file
            /\ \/ entry_count' \in Count
               \/ entry_count' = file.count /\ file.count # NoHeader
        BY <1>1, <3>2, Zenon DEF OpenSucceeds
      <4>2. file \in File /\ file.count \in Count \cup {NoHeader} /\ Gone(file, deleted)
        BY <3>2, FileParts DEF StoreInv, TypeOK, GoneInv
      <4> QED BY <3>2, <4>1, <4>2
    <3> QED BY <3>1, <3>2
  <2>4. StoreInv'
    BY <2>1, <2>2, <2>3 DEF StoreInv, TypeOK
  <2>5. GoneInv'
    BY <2>1, <2>2, <2>3 DEF GoneInv, Gone
  <2> QED BY <2>4, <2>5
<1>2. CASE OpenRefused
  BY <1>2 DEF OpenRefused, vars, StoreInv, TypeOK, GoneInv, Gone
<1> QED BY <1>1, <1>2 DEF kvstore_open

\* kvstore_close writes the count into the header and touches no record.
LEMMA CloseKeeps ==
    ASSUME StoreInv, GoneInv, kvstore_close
    PROVE  /\ StoreInv' /\ GoneInv'
           /\ fd_ok => Alike(file', file)
           /\ fd_ok /\ file.count # NoHeader => file'.count = entry_count /\ file'.rest = file.rest
<1>1. /\ opened /\ phase = "idle" /\ opened' = FALSE /\ fd_ok' = FALSE /\ entry_count' = 0
      /\ UNCHANGED <<tmp, phase, target, deleted, careful>>
  BY DEF kvstore_close, Ready
<1>2. 0 \in Count
  BY ConstantsAssumption DEF Count
<1>3. CASE fd_ok
  <2>1. file \in File /\ file # NoFile /\ entry_count \in Count
    BY <1>1, <1>3 DEF StoreInv, TypeOK
  <2>2. /\ file.count \in Count \cup {NoHeader} /\ file.entries \in Seq(Record)
        /\ file.rest \in {"none", "cut", "lost"}
        /\ file = [count |-> file.count, entries |-> file.entries, rest |-> file.rest]
    BY <2>1, FileParts
  <2>3. /\ Alike(file', file)
        /\ file.count # NoHeader => file'.count = entry_count /\ file'.rest = file.rest
    <3>1. CASE file' = file /\ file.count = NoHeader
      BY <2>1, <3>1 DEF Alike
    <3>2. CASE file.count # NoHeader /\ file' = [file EXCEPT !.count = entry_count]
      <4>1. file' = [count |-> entry_count, entries |-> file.entries, rest |-> file.rest]
        BY <2>2, <3>2
      <4> QED BY <2>1, <2>2, <4>1, FileMade DEF Alike
    <3>3. CASE /\ file.count = NoHeader
               /\ file' = [file EXCEPT !.count = entry_count,
                                       !.rest = IF @ = "cut" THEN "none" ELSE @]
      <4> DEFINE r == IF file.rest = "cut" THEN "none" ELSE file.rest
      <4>1. file' = [count |-> entry_count, entries |-> file.entries, rest |-> r]
        BY <2>2, <3>3
      <4>2. r \in {"none", "cut", "lost"}
        BY <2>2
      <4> HIDE DEF r
      <4>3. file' \in File /\ file' # NoFile /\ file'.entries = file.entries
        BY <2>1, <2>2, <4>1, <4>2, FileMade
      <4> QED BY <3>3, <4>3 DEF Alike
    <3> QED BY <1>3, <3>1, <3>2, <3>3 DEF kvstore_close
  <2>4. StoreInv'
    BY <1>1, <1>2, <2>3 DEF StoreInv, TypeOK, Alike
  <2>5. GoneInv'
    BY <1>1, <2>1, <2>3 DEF GoneInv, Gone, Alike
  <2> QED BY <2>3, <2>4, <2>5
<1>4. CASE ~fd_ok
  <2>1. file' = file
    BY <1>4 DEF kvstore_close
  <2> QED BY <1>1, <1>2, <1>4, <2>1 DEF StoreInv, TypeOK, GoneInv, Gone
<1> QED BY <1>3, <1>4

\* A record is written at the end of the file, and its key is deleted no more.
LEMMA AppendKeeps ==
    ASSUME StoreInv, GoneInv, CanAppend, NEW k \in Keys, NEW v \in Values,
           file' = Longer(file, [key |-> k, value |-> v]), deleted' = deleted \ {k},
           phase' = "idle"
    PROVE  file' \in File /\ file' # NoFile /\ GoneInv' /\ deleted' \subseteq Keys
<1> DEFINE r == [key |-> k, value |-> v]
<1>1. file \in File /\ file # NoFile /\ deleted \subseteq Keys /\ Gone(file, deleted)
  BY DEF CanAppend, Ready, StoreInv, TypeOK, GoneInv
<1>2. r \in Record /\ r.key = k
  BY DEF Record
<1> HIDE DEF r
<1>3. file' = Longer(file, r)
  BY DEF r
<1>4. file' \in File /\ file' # NoFile
  BY <1>1, <1>2, <1>3, LongerIs
<1>5. Gone(file', deleted')
  BY <1>1, <1>2, <1>3, GoneLonger
<1> QED BY <1>1, <1>4, <1>5 DEF GoneInv, Gone

\* kvstore_put.
LEMMA PutKeeps ==
    ASSUME StoreInv, GoneInv, NEW k \in Keys, NEW v \in Values, kvstore_put(k, v)
    PROVE  StoreInv' /\ GoneInv'
<1>1. /\ CanAppend /\ phase = "idle"
      /\ file' = Longer(file, [key |-> k, value |-> v])
      /\ entry_count' = (entry_count + 1) % CountMod
      /\ deleted' = deleted \ {k}
      /\ UNCHANGED <<tmp, opened, fd_ok, phase, target, careful>>
  BY DEF kvstore_put, CanAppend, Ready
<1>2. file' \in File /\ file' # NoFile /\ GoneInv' /\ deleted' \subseteq Keys
  BY <1>1, AppendKeeps
<1>3. entry_count' \in Count
  <2>1. entry_count + 1 \in Int
    BY DEF StoreInv, TypeOK, Count
  <2> QED BY <1>1, <2>1, CountWraps
<1>4. StoreInv'
  BY <1>1, <1>2, <1>3 DEF StoreInv, TypeOK
<1> QED BY <1>2, <1>4

\* A part of a record is written, and no record is lost by it.
LEMMA TearKeeps ==
    ASSUME StoreInv, GoneInv, CanAppend, file' = Torn(file), deleted' = deleted,
           phase' = "idle"
    PROVE  file' \in File /\ file' # NoFile /\ GoneInv'
<1>1. file \in File /\ file # NoFile /\ Gone(file, deleted)
  BY DEF CanAppend, Ready, StoreInv, TypeOK, GoneInv
<1>2. Alike(file', file)
  BY <1>1, TornIs
<1> QED BY <1>1, <1>2 DEF Alike, GoneInv, Gone

\* An append that fails, a header that does, and the end of the process anywhere.
LEMMA FailKeeps ==
    ASSUME StoreInv, GoneInv, CreationFails \/ PutFails \/ Crash
    PROVE  StoreInv' /\ GoneInv'
<1>1. CASE CreationFails
  <2>1. /\ ~opened /\ file' = [count |-> NoHeader, entries |-> <<>>, rest |-> "cut"]
        /\ careful' = FALSE
        /\ UNCHANGED <<tmp, opened, fd_ok, entry_count, phase, target, deleted>>
    BY <1>1 DEF CreationFails
  <2>2. file' \in File /\ \A D : Gone(file', D)
    BY <2>1, EmptyFile
  <2>3. phase = "idle"
    BY <2>1 DEF StoreInv
  <2>4. StoreInv'
    BY <2>1, <2>2, <2>3 DEF StoreInv, TypeOK
  <2>5. GoneInv'
    BY <2>1, <2>2, <2>3 DEF GoneInv, Gone
  <2> QED BY <2>4, <2>5
<1>2. CASE PutFails
  <2>1. /\ CanAppend /\ phase = "idle" /\ careful' = FALSE
        /\ UNCHANGED <<tmp, opened, fd_ok, entry_count, phase, target, deleted>>
    BY <1>2 DEF PutFails, CanAppend, Ready
  <2>2. CASE file' = file
    BY <2>1, <2>2 DEF StoreInv, TypeOK, GoneInv, Gone
  <2>3. CASE file' = Torn(file)
    <3>1. file' \in File /\ file' # NoFile /\ GoneInv'
      BY <2>1, <2>3, TearKeeps
    <3> QED BY <2>1, <3>1 DEF StoreInv, TypeOK
  <2> QED BY <1>2, <2>2, <2>3 DEF PutFails
<1>3. CASE Crash
  <2>1. /\ opened' = FALSE /\ fd_ok' = FALSE /\ phase' = "idle" /\ target' = NULL
        /\ entry_count' = 0 /\ tmp' = NoFile /\ careful' = FALSE
    BY <1>3 DEF Crash
  <2>2. file' \in File \cup {NoFile} /\ deleted' \subseteq Keys /\ GoneInv'
    <3>1. CASE UNCHANGED <<file, deleted>>
      BY <2>1, <3>1 DEF StoreInv, TypeOK, GoneInv, Gone
    <3>2. CASE CanAppend /\ file' = Torn(file) /\ UNCHANGED deleted
      <4>1. file' \in File /\ GoneInv'
        BY <2>1, <3>2, TearKeeps
      <4> QED BY <3>2, <4>1 DEF StoreInv, TypeOK
    <3>3. ASSUME NEW k \in Keys, NEW v \in Values, CanAppend, deleted' = deleted \ {k},
                 file' = Longer(file, [key |-> k, value |-> v])
          PROVE  file' \in File \cup {NoFile} /\ deleted' \subseteq Keys /\ GoneInv'
      BY <2>1, <3>3, AppendKeeps
    <3> QED BY <1>3, <3>1, <3>2, <3>3 DEF Crash
  <2>3. 0 \in Count
    BY ConstantsAssumption DEF Count
  <2> QED BY <2>1, <2>2, <2>3 DEF StoreInv, TypeOK
<1> QED BY <1>1, <1>2, <1>3

\* A delete begins: what it has written is a file without the key.
LEMMA BeginKeeps ==
    ASSUME StoreInv, GoneInv, NEW k \in Keys, BeginDelete(k), careful' \in BOOLEAN,
           tmp' \in File, tmp' # NoFile, Gone(tmp', deleted' \cup {k})
    PROVE  StoreInv' /\ GoneInv'
<1>1. /\ opened /\ phase' = "copied" /\ target' = k
      /\ deleted' \subseteq deleted
      /\ UNCHANGED <<file, opened, fd_ok, entry_count>>
  BY DEF BeginDelete, Ready
<1>2. StoreInv'
  BY <1>1 DEF StoreInv, TypeOK
<1>3. GoneInv'
  BY <1>1 DEF GoneInv, Gone
<1> QED BY <1>2, <1>3

\* kvstore_delete writes the copy.
LEMMA DeleteKeeps ==
    ASSUME StoreInv, GoneInv, NEW k \in Keys, kvstore_delete(k)
    PROVE  StoreInv' /\ GoneInv'
<1>1. /\ BeginDelete(k) /\ opened /\ tmp' \in Copies(k)
      /\ deleted' = IF fd_ok /\ Strays(file, entry_count) THEN {} ELSE deleted
      /\ careful' = (careful /\ \A s \in Reads : Once(s, k))
  BY DEF kvstore_delete, BeginDelete, Ready
<1>2. /\ tmp' \in File /\ tmp' # NoFile /\ Gone(tmp', deleted' \cup {k})
  BY <1>1, CopyIs DEF Gone
<1>3. careful' \in BOOLEAN
  BY <1>1 DEF StoreInv, TypeOK
<1> QED BY <1>1, <1>2, <1>3, BeginKeeps

\* Writes that fail leave some of the records of the copy, or no header.
LEMMA FullDiskKeeps ==
    ASSUME StoreInv, GoneInv, NEW k \in Keys, DeleteOnFullDisk(k)
    PROVE  StoreInv' /\ GoneInv'
<1>1. /\ BeginDelete(k) /\ opened /\ careful' = FALSE
      /\ deleted' = IF fd_ok /\ Strays(file, entry_count) THEN {} ELSE deleted
  BY DEF DeleteOnFullDisk, BeginDelete, Ready
<1>2. PICK copy \in Copies(k) :
          \/ \E kept \in SUBSET DOMAIN copy.entries, rest \in {"none", "cut", "lost"} :
                tmp' = [copy EXCEPT !.entries = Picked(@, kept), !.rest = rest]
          \/ \E rest \in {"cut", "lost"} :
                tmp' = [count |-> NoHeader, entries |-> <<>>, rest |-> rest]
  BY DEF DeleteOnFullDisk
<1>3. copy \in File /\ Gone(copy, deleted' \cup {k})
  BY <1>1, CopyIs DEF Gone
<1>4. ASSUME NEW kept \in SUBSET DOMAIN copy.entries, NEW rest \in {"none", "cut", "lost"},
             tmp' = [copy EXCEPT !.entries = Picked(@, kept), !.rest = rest]
      PROVE  tmp' \in File /\ tmp' # NoFile /\ Gone(tmp', deleted' \cup {k})
  <2> DEFINE es == copy.entries
             new == Picked(es, kept)
             D == deleted' \cup {k}
  <2>1. /\ copy.count \in Count \cup {NoHeader} /\ es \in Seq(Record)
        /\ copy = [count |-> copy.count, entries |-> es, rest |-> copy.rest]
    BY <1>3, FileParts
  <2>2. \A i \in 1 .. Len(es) : es[i].key \notin D
    BY <1>3 DEF Gone
  <2>3. tmp' = [count |-> copy.count, entries |-> new, rest |-> rest]
    BY <1>4, <2>1
  <2>4. kept \subseteq 1 .. Len(es)
    BY <2>1
  <2> HIDE DEF es, D
  <2>5. /\ new \in Seq(Record)
        /\ \A n \in 1 .. Len(new) : \E i \in 1 .. Len(es) : new[n] = es[i]
    <3>1. /\ new \in Seq(Record) /\ Len(new) = Cardinality(kept)
          /\ \A n \in 1 .. Cardinality(kept) : Nth(kept, n) \in kept /\ new[n] = es[Nth(kept, n)]
      BY <2>1, <2>4, PickedAre
    <3> HIDE DEF new
    <3> QED BY <2>4, <3>1
  <2> HIDE DEF new
  <2>6. tmp' \in File /\ tmp' # NoFile /\ tmp'.entries = new
    BY <2>1, <2>3, <2>5, FileMade
  <2> QED BY <2>2, <2>5, <2>6 DEF Gone, D
<1>5. ASSUME NEW rest \in {"cut", "lost"},
             tmp' = [count |-> NoHeader, entries |-> <<>>, rest |-> rest]
      PROVE  tmp' \in File /\ tmp' # NoFile /\ Gone(tmp', deleted' \cup {k})
  BY <1>5, EmptyFile
<1>6. tmp' \in File /\ tmp' # NoFile /\ Gone(tmp', deleted' \cup {k})
  BY <1>2, <1>4, <1>5
<1>7. careful' \in BOOLEAN
  BY <1>1
<1> QED BY <1>1, <1>6, <1>7, BeginKeeps

\* The old file is unlinked, the copy takes its name and is opened, or one of these fails.
LEMMA ReplaceKeeps ==
    ASSUME StoreInv, GoneInv,
           Unlink \/ Rename \/ ReopenFails \/ RenameFails \/ ReplaceFails
    PROVE  StoreInv' /\ GoneInv'
<1>1. CASE Unlink
  BY <1>1 DEF Unlink, StoreInv, TypeOK, GoneInv, Gone
<1>2. ASSUME EndDelete
      PROVE  /\ entry_count' \in Count /\ phase' = "idle" /\ target' = NULL
             /\ tmp' = NoFile /\ UNCHANGED opened
  <2>1. entry_count - 1 \in Int
    BY DEF StoreInv, TypeOK, Count
  <2> QED BY <1>2, <2>1, CountWraps DEF EndDelete
<1>3. ASSUME Renamed, fd_ok' \in BOOLEAN, careful' \in BOOLEAN
      PROVE  StoreInv' /\ GoneInv'
  <2>1. /\ EndDelete /\ file' = tmp /\ deleted' = deleted \cup {target} /\ phase = "unlinked"
    BY <1>3 DEF Renamed
  <2>2. tmp \in File /\ tmp # NoFile /\ target \in Keys /\ Gone(tmp, deleted \cup {target})
    BY <2>1 DEF StoreInv, TypeOK, GoneInv
  <2>3. StoreInv'
    BY <1>2, <1>3, <2>1, <2>2 DEF StoreInv, TypeOK
  <2>4. GoneInv'
    BY <1>2, <2>1, <2>2 DEF GoneInv, Gone
  <2> QED BY <2>3, <2>4
<1>4. CASE Rename
  <2>1. Renamed /\ fd_ok' \in BOOLEAN /\ careful' \in BOOLEAN
    BY <1>4 DEF Rename, StoreInv, TypeOK
  <2> QED BY <1>3, <2>1
<1>5. CASE ReopenFails
  <2>1. Renamed /\ fd_ok' \in BOOLEAN /\ careful' \in BOOLEAN
    BY <1>5 DEF ReopenFails
  <2> QED BY <1>3, <2>1
<1>6. CASE RenameFails
  <2>1. /\ EndDelete /\ phase = "unlinked" /\ fd_ok' = FALSE /\ careful' = FALSE
        /\ UNCHANGED file /\ deleted' = deleted \cup {target}
    BY <1>6 DEF RenameFails
  <2>2. StoreInv'
    BY <1>2, <2>1 DEF StoreInv, TypeOK
  <2>3. GoneInv'
    BY <1>2, <2>1 DEF GoneInv, Gone, StoreInv
  <2> QED BY <2>2, <2>3
<1>7. CASE ReplaceFails
  <2>1. /\ EndDelete /\ fd_ok' \in {FALSE, file # NoFile} /\ careful' = FALSE
        /\ UNCHANGED <<file, deleted>>
    BY <1>7 DEF ReplaceFails
  <2>2. fd_ok' \in BOOLEAN /\ (fd_ok' => file # NoFile)
    BY <2>1
  <2>3. StoreInv'
    BY <1>2, <2>1, <2>2 DEF StoreInv, TypeOK
  <2>4. GoneInv'
    BY <1>2, <2>1 DEF GoneInv, Gone
  <2> QED BY <2>3, <2>4
<1> QED BY <1>1, <1>4, <1>5, <1>6, <1>7

\* The two invariants, for every step.
LEMMA StoreStep ==
    StoreInv /\ GoneInv /\ [Next]_vars => StoreInv' /\ GoneInv'
<1> SUFFICES ASSUME StoreInv, GoneInv, [Next]_vars PROVE StoreInv' /\ GoneInv'
  OBVIOUS
<1>1. CASE UNCHANGED vars
  BY <1>1 DEF vars, StoreInv, TypeOK, GoneInv, Gone
<1>2. CASE Calls
  BY <1>2, OpenKeeps, CloseKeeps, PutKeeps, DeleteKeeps, ReplaceKeeps, Zenon DEF Calls
<1>3. CASE Failures
  BY <1>3, FailKeeps, FullDiskKeeps, ReplaceKeeps, Zenon DEF Failures
<1> QED BY <1>1, <1>2, <1>3 DEF Next

\* There is no file at first.
LEMMA StoreInit == Init => StoreInv /\ GoneInv
<1>1. 0 \in Count
  BY ConstantsAssumption DEF Count
<1> QED BY <1>1 DEF Init, StoreInv, TypeOK, GoneInv

-----------------------------------------------------------------------------
(* What a client reads. *)

\* A file with nothing but records, as many as can be counted.
Whole(f) == /\ f.entries \in Seq(Record) /\ f.rest = "none" /\ Len(f.entries) \in Count
            /\ f.count \in Count

\* Every scan of it keeps its framing.
LEMMA WholeScanned ==
    ASSUME NEW f \in File, Whole(f)
    PROVE  /\ Framed(f, Len(f.entries)) = f.entries
           /\ Scans(f, Len(f.entries)) = {f.entries}
<1>1. Len(f.entries) \in Nat
  BY DEF Whole, Count
<1>2. Framed(f, Len(f.entries)) = f.entries
  BY <1>1, FramedIs
<1>3. ~Strays(f, Len(f.entries))
  BY DEF Strays, Whole
<1> QED BY <1>2, <1>3 DEF Scans

\* The records a client reads, and of which it reads the first of a key.
Visible ==
    CASE phase = "unlinked" -> OnDisk(tmp)
      [] phase # "unlinked" /\ opened -> IF fd_ok THEN Framed(file, entry_count) ELSE <<>>
      [] OTHER -> OnDisk(file)

\* While the client is careful, files are whole, their count is known where it is needed,
\* and the copy a delete makes is the file without the key.
CarefulInv ==
    careful =>
        /\ file # NoFile => Whole(file)
        /\ opened /\ phase # "unlinked" => /\ fd_ok /\ file # NoFile
                                           /\ entry_count = Len(file.entries)
        /\ ~opened /\ file # NoFile => file.count = Len(file.entries)
        /\ phase # "idle" => /\ Whole(tmp) /\ tmp.count = Len(tmp.entries)
                             /\ entry_count = Len(tmp.entries) + 1
        /\ phase = "copied" => /\ tmp.entries = Others(file.entries, target)
                               /\ Lookup(file.entries, target) # NULL

\* What is read is then what is in the file, or in the copy between unlink and rename.
LEMMA VisibleIs ==
    StoreInv /\ CarefulInv /\ careful =>
        /\ phase = "unlinked" => Visible = tmp.entries
        /\ phase # "unlinked" /\ opened => Visible = file.entries /\ Reads = {file.entries}
        /\ ~opened /\ file # NoFile => Visible = file.entries
        /\ ~opened /\ file = NoFile => Visible = <<>>
<1> SUFFICES ASSUME StoreInv, CarefulInv, careful
             PROVE  /\ phase = "unlinked" => Visible = tmp.entries
                    /\ phase # "unlinked" /\ opened =>
                         Visible = file.entries /\ Reads = {file.entries}
                    /\ ~opened /\ file # NoFile => Visible = file.entries
                    /\ ~opened /\ file = NoFile => Visible = <<>>
  OBVIOUS
<1>1. ASSUME NEW f \in File, Whole(f), f.count = Len(f.entries)
      PROVE  OnDisk(f) = f.entries
  <2>1. f # NoFile /\ f.count # NoHeader
    BY <1>1, FileParts, ConstantsAssumption DEF Whole, Count
  <2> QED BY <1>1, <2>1, WholeScanned DEF OnDisk
<1>2. ASSUME phase = "unlinked" PROVE Visible = tmp.entries
  <2>1. tmp \in File /\ Whole(tmp) /\ tmp.count = Len(tmp.entries)
    BY <1>2 DEF StoreInv, TypeOK, CarefulInv
  <2>2. Visible = OnDisk(tmp)
    BY <1>2 DEF Visible
  <2> QED BY <1>1, <2>1, <2>2
<1>3. ASSUME phase # "unlinked", opened
      PROVE  Visible = file.entries /\ Reads = {file.entries}
  <2>1. /\ file \in File /\ Whole(file) /\ fd_ok /\ entry_count = Len(file.entries)
    BY <1>3 DEF StoreInv, TypeOK, CarefulInv
  <2>2. Visible = Framed(file, entry_count) /\ Reads = Scans(file, entry_count)
    BY <1>3, <2>1 DEF Visible, Reads
  <2> QED BY <2>1, <2>2, WholeScanned
<1>4. ASSUME ~opened PROVE Visible = OnDisk(file)
  <2>1. phase = "idle"
    BY <1>4 DEF StoreInv
  <2> QED BY <1>4, <2>1 DEF Visible
<1>5. ASSUME ~opened, file # NoFile PROVE Visible = file.entries
  <2>1. file \in File /\ Whole(file) /\ file.count = Len(file.entries)
    BY <1>5 DEF StoreInv, TypeOK, CarefulInv
  <2> QED BY <1>1, <1>4, <1>5, <2>1
<1>6. ASSUME ~opened, file = NoFile PROVE Visible = <<>>
  BY <1>4, <1>6 DEF OnDisk
<1> QED BY <1>2, <1>3, <1>5, <1>6

\* What a client reads is a look at those.
LEMMA ContentsAre == Contents = [q \in Keys |-> Lookup(Visible, q)]
BY DEF Contents, Visible

\* VisibleIs, after a step.
LEMMA VisibleNext ==
    ASSUME StoreInv', CarefulInv', careful'
    PROVE  /\ phase' = "unlinked" => Visible' = tmp'.entries
           /\ phase' # "unlinked" /\ opened' => Visible' = file'.entries
           /\ ~opened' /\ file' # NoFile => Visible' = file'.entries
           /\ ~opened' /\ file' = NoFile => Visible' = <<>>
<1>1. (StoreInv /\ CarefulInv /\ careful =>
          /\ phase = "unlinked" => Visible = tmp.entries
          /\ phase # "unlinked" /\ opened => Visible = file.entries /\ Reads = {file.entries}
          /\ ~opened /\ file # NoFile => Visible = file.entries
          /\ ~opened /\ file = NoFile => Visible = <<>>)'
  BY VisibleIs, PTL
<1> QED BY <1>1

\* ContentsAre, after a step.
LEMMA ContentsNext == Contents' = [q \in Keys |-> Lookup(Visible', q)]
<1>1. (Contents = [q \in Keys |-> Lookup(Visible, q)])'
  BY ContentsAre, PTL
<1> QED BY <1>1

\* The same records visible, the same is read.
LEMMA ShownAlike ==
    ASSUME Visible' = Visible
    PROVE  UNCHANGED Contents
BY ContentsAre, ContentsNext

\* What a put does to what is read.
PutDoes(k, v) == IF Contents[k] = NULL THEN M!Put(k, v) ELSE UNCHANGED Contents

\* A put stores the value of a key that is not there, and changes nothing else.
LEMMA PutShown ==
    ASSUME StoreInv, CarefulInv, StoreInv', NEW k \in Keys, NEW v \in Values,
           kvstore_put(k, v), careful'
    PROVE  CarefulInv' /\ PutDoes(k, v)
<1> DEFINE r == [key |-> k, value |-> v]
           es == file.entries
           new == file'.entries
<1>1. /\ careful /\ opened /\ fd_ok /\ phase = "idle"
      /\ Len(es) < MaxRecords
      /\ file' = Longer(file, r)
      /\ entry_count' = (entry_count + 1) % CountMod
      /\ UNCHANGED <<tmp, opened, fd_ok, phase, target>>
  BY DEF kvstore_put, CanAppend, Ready
<1>2. /\ file \in File /\ Whole(file) /\ entry_count = Len(es) /\ Visible = es
  BY <1>1, VisibleIs DEF CarefulInv, StoreInv, TypeOK
<1>3. r \in Record /\ r.key = k /\ r.value = v
  BY DEF Record
<1> HIDE DEF r
<1>4. file' \in File /\ file' # NoFile /\ new = Append(es, r) /\ file'.rest = "none"
  <2>1. file.rest = "none"
    BY <1>2 DEF Whole
  <2> QED BY <1>1, <1>2, <1>3, <2>1, LongerIs
<1>5. es \in Seq(Record) /\ Len(es) \in Nat
  BY <1>2 DEF Whole
<1> HIDE DEF es, new
<1>6. new \in Seq(Record) /\ Len(new) = Len(es) + 1
  BY <1>3, <1>4, <1>5
<1>7. Len(new) \in Count
  <2>1. CountMod \in Nat /\ MaxRecords \in Nat /\ CountMod > MaxRecords + 1
    BY ConstantsAssumption
  <2> QED BY <1>1, <1>5, <1>6, <2>1 DEF Count, es
<1>8. Whole(file')
  <2>1. file'.count = file.count
    BY <1>1, <1>2, <1>3, LongerIs
  <2> QED BY <1>2, <1>4, <1>6, <1>7, <2>1 DEF Whole, new
<1>9. entry_count' = Len(new)
  BY <1>1, <1>2, <1>6, <1>7, CountFits
<1>10. CarefulInv'
  BY <1>1, <1>4, <1>8, <1>9 DEF CarefulInv, new
<1>11. Visible' = new
  BY <1>1, <1>10, VisibleNext DEF new
<1>12. \A q \in Keys : Lookup(new, q) = IF q = k /\ Lookup(es, q) = NULL THEN v
                                                                    ELSE Lookup(es, q)
  <2>1. SUFFICES ASSUME NEW q \in Keys
                 PROVE  Lookup(new, q) = IF q = k /\ Lookup(es, q) = NULL THEN v
                                                                      ELSE Lookup(es, q)
    OBVIOUS
  <2>2. Lookup(new, q) = IF r.key = q /\ Lookup(es, q) = NULL THEN r.value ELSE Lookup(es, q)
    BY <1>3, <1>4, <1>5, AppendLookup
  <2> QED BY <1>3, <2>2
<1>13. Contents = [q \in Keys |-> Lookup(es, q)]
  BY <1>2, ContentsAre
<1>14. Contents' = [q \in Keys |-> Lookup(new, q)]
  BY <1>11, ContentsNext
<1>15. CASE Contents[k] = NULL
  <2>1. Contents' = [Contents EXCEPT ![k] = v]
    BY <1>12, <1>13, <1>14, <1>15
  <2> QED BY <1>10, <1>15, <2>1 DEF PutDoes, M!Put
<1>16. CASE Contents[k] # NULL
  <2>1. Contents' = Contents
    BY <1>12, <1>13, <1>14, <1>16
  <2> QED BY <1>10, <1>16, <2>1 DEF PutDoes
<1> QED BY <1>15, <1>16

\* The copy is made while the file is read as before.
LEMMA DeleteShown ==
    ASSUME StoreInv, CarefulInv, StoreInv', NEW k \in Keys, kvstore_delete(k), careful'
    PROVE  CarefulInv' /\ UNCHANGED Contents
<1> DEFINE es == file.entries
           copy == Others(es, k)
<1>1. /\ careful /\ (\A s \in Reads : Once(s, k)) /\ opened /\ phase = "idle"
      /\ tmp' \in Copies(k) /\ phase' = "copied" /\ target' = k
      /\ UNCHANGED <<file, opened, fd_ok, entry_count>>
  BY DEF kvstore_delete, BeginDelete, Ready
<1>2. /\ file # NoFile /\ fd_ok /\ Whole(file) /\ entry_count = Len(es)
      /\ Visible = es /\ Reads = {es}
  BY <1>1, VisibleIs DEF CarefulInv
<1>3. es \in Seq(Record) /\ Len(es) \in Count /\ Once(es, k)
  BY <1>1, <1>2 DEF Whole
<1>4. /\ tmp'.entries = copy /\ tmp'.count = (Len(es) - 1) % CountMod /\ tmp'.rest = "none"
  <2>1. /\ tmp'.count = (entry_count - 1) % CountMod /\ tmp'.rest = "none"
        /\ \E s \in Reads : tmp'.entries = Others(s, k)
    BY <1>1, CopyIs
  <2> HIDE DEF es
  <2> QED BY <1>2, <2>1
<1> HIDE DEF es
<1>5. /\ copy \in Seq(Record) /\ Len(copy) = Len(es) - 1 /\ Len(es) >= 1
      /\ Lookup(es, k) # NULL
  BY <1>3, OthersAre, OneLess
<1>6. Len(copy) \in Nat /\ Len(es) = Len(copy) + 1
  BY <1>3, <1>5 DEF Count
<1> HIDE DEF copy
<1>7. Len(copy) \in Count
  BY <1>3, <1>6, ConstantsAssumption DEF Count
<1>8. tmp'.count = Len(copy)
  <2>1. Len(es) - 1 = Len(copy)
    BY <1>6
  <2> QED BY <1>4, <1>7, <2>1, CountFits
<1>9. Whole(tmp')
  BY <1>4, <1>5, <1>7, <1>8 DEF Whole
<1>10. CarefulInv'
  BY <1>1, <1>2, <1>4, <1>5, <1>6, <1>8, <1>9 DEF CarefulInv, es, copy
<1>11. Visible' = Visible
  <2>1. phase' # "unlinked" /\ opened'
    BY <1>1
  <2> QED BY <1>1, <1>2, <1>10, <2>1, VisibleNext DEF es
<1> QED BY <1>10, <1>11, ShownAlike

\* With the old file the key goes, and nothing else does.
LEMMA UnlinkShown ==
    ASSUME StoreInv, CarefulInv, StoreInv', Unlink, careful'
    PROVE  CarefulInv' /\ M!Remove(target)
<1> DEFINE es == file.entries
           copy == Others(es, target)
<1>1. /\ careful /\ phase = "copied" /\ opened /\ target \in Keys
      /\ file' = NoFile /\ fd_ok' = FALSE /\ phase' = "unlinked"
      /\ UNCHANGED <<tmp, opened, entry_count, target>>
  BY DEF Unlink, StoreInv
<1>2. /\ Whole(file) /\ Visible = es /\ tmp.entries = copy /\ Lookup(es, target) # NULL
      /\ Whole(tmp) /\ tmp.count = Len(tmp.entries) /\ entry_count = Len(tmp.entries) + 1
  BY <1>1, VisibleIs DEF CarefulInv
<1>3. CarefulInv'
  BY <1>1, <1>2 DEF CarefulInv, Whole
<1>4. Visible' = copy
  BY <1>1, <1>2, <1>3, VisibleNext
<1>5. es \in Seq(Record)
  BY <1>2 DEF Whole
<1> HIDE DEF es
<1>6. \A q : Lookup(copy, q) = IF q = target THEN NULL ELSE Lookup(es, q)
  BY <1>5, OthersLookup
<1> HIDE DEF copy
<1>7. Contents = [q \in Keys |-> Lookup(es, q)]
  BY <1>2, ContentsAre
<1>8. Contents' = [q \in Keys |-> Lookup(copy, q)]
  BY <1>4, ContentsNext
<1>9. Contents[target] # NULL
  BY <1>1, <1>2, <1>7 DEF es
<1>10. Contents' = [Contents EXCEPT ![target] = NULL]
  BY <1>6, <1>7, <1>8
<1> QED BY <1>3, <1>9, <1>10 DEF M!Remove

\* The copy takes the place of the file and is read as it was.
LEMMA RenameShown ==
    ASSUME StoreInv, CarefulInv, StoreInv', Rename, careful'
    PROVE  CarefulInv' /\ UNCHANGED Contents
<1>1. /\ careful /\ phase = "unlinked" /\ opened' = opened /\ phase' = "idle"
      /\ file' = tmp /\ fd_ok' = TRUE
      /\ entry_count' = (entry_count - 1) % CountMod
  BY DEF Rename, Renamed, EndDelete
<1>2. /\ opened /\ tmp # NoFile /\ Whole(tmp) /\ entry_count = Len(tmp.entries) + 1
      /\ Visible = tmp.entries
  BY <1>1, VisibleIs DEF CarefulInv, StoreInv
<1>3. entry_count' = Len(tmp.entries)
  <2>1. Len(tmp.entries) \in Count /\ Len(tmp.entries) \in Nat
    BY <1>2 DEF Whole, Count
  <2>2. entry_count - 1 = Len(tmp.entries)
    BY <1>2, <2>1
  <2> QED BY <1>1, <2>1, <2>2, CountFits
<1>4. CarefulInv'
  BY <1>1, <1>2, <1>3 DEF CarefulInv, Whole
<1>5. Visible' = Visible
  BY <1>1, <1>2, <1>4, VisibleNext
<1> QED BY <1>4, <1>5, ShownAlike

\* What was read is read again after the store is closed, and after it is opened.
LEMMA OpenCloseShown ==
    ASSUME StoreInv, GoneInv, CarefulInv, StoreInv', kvstore_close \/ kvstore_open, careful'
    PROVE  CarefulInv' /\ UNCHANGED Contents
<1>1. CASE kvstore_close
  <2>1. /\ careful /\ opened /\ phase = "idle" /\ opened' = FALSE /\ fd_ok' = FALSE
        /\ UNCHANGED <<tmp, phase, target>>
    BY <1>1 DEF kvstore_close, Ready
  <2>2. /\ fd_ok /\ file # NoFile /\ Whole(file) /\ entry_count = Len(file.entries)
        /\ Visible = file.entries
    BY <2>1, VisibleIs DEF CarefulInv
  <2>3. Alike(file', file)
    BY <1>1, <2>2, CloseKeeps
  <2>4. file'.count = Len(file.entries) /\ file'.rest = "none"
    <3>1. file.count # NoHeader
      BY <2>2, ConstantsAssumption DEF Whole, Count
    <3> QED BY <1>1, <2>2, <3>1, CloseKeeps DEF Whole
  <2>5. CarefulInv'
    BY <2>1, <2>2, <2>3, <2>4 DEF CarefulInv, Whole, Alike
  <2>6. Visible' = Visible
    BY <2>1, <2>2, <2>3, <2>5, VisibleNext DEF Alike
  <2> QED BY <2>5, <2>6, ShownAlike
<1>2. CASE OpenSucceeds
  <2>1. /\ careful /\ ~opened /\ opened' = TRUE /\ fd_ok' = TRUE
        /\ UNCHANGED <<tmp, phase, target>>
    BY <1>2 DEF OpenSucceeds
  <2>2. phase = "idle"
    BY <2>1 DEF StoreInv
  <2>3. /\ file' # NoFile /\ Whole(file') /\ entry_count' = Len(file'.entries)
        /\ Visible = file'.entries
    <3>1. CASE file = NoFile
      <4>1. 0 \in Count
        BY ConstantsAssumption DEF Count
      <4>2. file' = [count |-> 0, entries |-> <<>>, rest |-> "none"] /\ entry_count' = 0
        BY <1>2, <3>1 DEF OpenSucceeds
      <4>3. file' # NoFile /\ file'.entries = <<>> /\ file'.rest = "none" /\ file'.count = 0
        BY <4>1, <4>2, EmptyFile
      <4>4. Visible = <<>>
        BY <2>1, <3>1, VisibleIs
      <4>5. <<>> \in Seq(Record) /\ Len(<<>>) = 0
        OBVIOUS
      <4> QED BY <4>1, <4>2, <4>3, <4>4, <4>5 DEF Whole
    <3>2. CASE file # NoFile
      <4>1. file' = file
        BY <1>2, <3>2 DEF OpenSucceeds
      <4>2. Whole(file) /\ file.count = Len(file.entries) /\ Visible = file.entries
        BY <2>1, <3>2, VisibleIs DEF CarefulInv
      <4>3. file.count # NoHeader
        BY <4>2, ConstantsAssumption DEF Whole, Count
      <4>4. entry_count' = file.count
        BY <1>2, <3>2, <4>3 DEF OpenSucceeds
      <4> QED BY <3>2, <4>1, <4>2, <4>4
    <3> QED BY <3>1, <3>2
  <2>4. CarefulInv'
    BY <2>1, <2>2, <2>3 DEF CarefulInv
  <2>5. Visible' = Visible
    BY <2>1, <2>2, <2>3, <2>4, VisibleNext
  <2> QED BY <2>4, <2>5, ShownAlike
<1>3. CASE OpenRefused
  BY <1>3 DEF OpenRefused, vars, CarefulInv, Whole, Contents
<1> QED BY <1>1, <1>2, <1>3 DEF kvstore_open

\* What the map of a careful client does in a step.
MapStep ==
    /\ \A k \in Keys, v \in Values : kvstore_put(k, v) => PutDoes(k, v)
    /\ Unlink => M!Remove(target)
    /\ \/ Unlink
       \/ \E k \in Keys, v \in Values : kvstore_put(k, v)
       \/ UNCHANGED Contents

\* Every step keeps CarefulInv and, while the client is careful, is one of the map's.
LEMMA CarefulStep ==
    StoreInv /\ GoneInv /\ CarefulInv /\ StoreInv' /\ [Next]_vars =>
        CarefulInv' /\ (careful' => MapStep)
<1> SUFFICES ASSUME StoreInv, GoneInv, CarefulInv, StoreInv', [Next]_vars
             PROVE  CarefulInv' /\ (careful' => MapStep)
  OBVIOUS
<1>1. CASE ~careful'
  BY <1>1 DEF CarefulInv
<1>2. CASE careful'
  <2>1. ASSUME NEW k \in Keys, NEW v \in Values, kvstore_put(k, v)
        PROVE  CarefulInv' /\ PutDoes(k, v)
    BY <1>2, <2>1, PutShown
  <2>2. ASSUME Unlink PROVE CarefulInv' /\ M!Remove(target)
    BY <1>2, <2>2, UnlinkShown
  <2>3. ASSUME \/ kvstore_open \/ kvstore_close \/ Rename
               \/ \E k \in Keys : kvstore_delete(k)
        PROVE  CarefulInv' /\ UNCHANGED Contents
    BY <1>2, <2>3, OpenCloseShown, RenameShown, DeleteShown
  <2>4. ~Failures
    BY <1>2 DEF Failures, CreationFails, RenameFails, ReopenFails, ReplaceFails, Crash, PutFails,
                DeleteOnFullDisk
  <2>5. ASSUME UNCHANGED vars PROVE CarefulInv' /\ UNCHANGED Contents
    BY <2>5 DEF vars, CarefulInv, Whole, Contents
  <2>6. CarefulInv'
    BY <2>1, <2>2, <2>3, <2>4, <2>5, Zenon DEF Next, Calls
  <2>7. \/ Unlink
        \/ \E k \in Keys, v \in Values : kvstore_put(k, v)
        \/ UNCHANGED Contents
    BY <2>3, <2>4, <2>5, Zenon DEF Next, Calls
  <2> QED BY <2>1, <2>2, <2>6, <2>7 DEF MapStep
<1> QED BY <1>1, <1>2

-----------------------------------------------------------------------------

\* Types hold; no record before the framing is lost is of a deleted key, and none of the
\* copy is of the key being deleted, through every failing write, rename and open and
\* wherever the process ends.
THEOREM StoreAlwaysSound == Spec => [](StoreInv /\ GoneInv)
<1>1. Init => StoreInv /\ GoneInv
  BY StoreInit
<1>2. StoreInv /\ GoneInv /\ [Next]_vars => StoreInv' /\ GoneInv'
  BY StoreStep
<1> QED BY <1>1, <1>2, PTL DEF Spec

\* A key whose delete put the copy in the place of the file is not read again, whatever
\* the count says, unless something stands behind a part of a record (kvstore_get
\* 142-163, kvstore_delete 186-215).
THEOREM DeletedStayGone == Spec => []DeletedKeysAreGone
<1>1. StoreInv /\ GoneInv => DeletedKeysAreGone
  <2> SUFFICES ASSUME StoreInv, GoneInv, file # NoFile, file.rest # "lost",
                      NEW n \in Count, NEW s \in Scans(file, n), NEW k \in deleted
               PROVE  Lookup(s, k) = NULL
    BY DEF DeletedKeysAreGone
  <2>1. file \in File /\ n \in Nat /\ Gone(file, deleted)
    BY DEF StoreInv, TypeOK, GoneInv, Count
  <2>2. ~Strays(file, n)
    BY DEF Strays
  <2>3. s \in Seq(Record) /\ s = Framed(file, n)
    BY <2>1, <2>2, ScansAre
  <2>4. \A i \in 1 .. Len(s) : \E j \in 1 .. Len(file.entries) : s[i] = file.entries[j]
    BY <2>1, <2>3, FramedIs, Zenon
  <2>5. \A i \in 1 .. Len(s) : s[i].key # k
    BY <2>1, <2>4 DEF Gone
  <2> QED BY <2>3, <2>5, LookupMisses
<1> QED BY <1>1, StoreAlwaysSound, PTL

\* The careful client's files are whole and counted.
THEOREM CarefulAlways == Spec => []CarefulInv
<1>1. Init => CarefulInv
  BY DEF Init, CarefulInv
<1>2. StoreInv /\ GoneInv /\ CarefulInv /\ StoreInv' /\ [Next]_vars => CarefulInv'
  BY CarefulStep
<1> QED BY <1>1, <1>2, StoreAlwaysSound, PTL DEF Spec

\* The state is well formed, and a careful client's count is the number of records, in
\* memory while the store is open and in the header while it is not (kvstore_close 106).
THEOREM CountsHold == Spec => []StoreSound
<1>1. StoreInv /\ CarefulInv => StoreSound
  BY DEF StoreInv, CarefulInv, StoreSound, CountIsRecords, Ready
<1> QED BY <1>1, StoreAlwaysSound, CarefulAlways, PTL

\* For a careful client the file is a map that outlives the process that closed it, and
\* in which the first put of a key stands (kvstore_open 75-98, put 123-132, get 138-166,
\* delete 170-216).
THEOREM CarefulStoreIsAMap == Spec => MapWhileCareful
<1>1. StoreInv /\ GoneInv /\ CarefulInv /\ StoreInv' /\ [Next]_vars =>
        [careful' =>
           /\ \A k \in Keys, v \in Values : kvstore_put(k, v) =>
                IF Contents[k] = NULL THEN M!Put(k, v) ELSE UNCHANGED Contents
           /\ Unlink => M!Remove(target)
           /\ \/ Unlink
              \/ \E k \in Keys, v \in Values : kvstore_put(k, v)
              \/ UNCHANGED Contents]_vars
  BY CarefulStep, Zenon DEF MapStep, PutDoes
<1> QED BY <1>1, StoreAlwaysSound, CarefulAlways, PTL DEF Spec, MapWhileCareful
-----------------------------------------------------------------------------
(* Snapshots. *)

Elements == UNION {Range(o.elems) : o \in Objects}

\* A frame in memory: its CRC is that of its object, its payload too or damaged.
Sound(f) == /\ f \in Frame /\ f.frame.crc = Written(f.of)
            /\ f.frame.payload \in {Written(f.of), Ruined}

\* Frame f on disk was written as g and may have been damaged since.
FrameKept(f, g) == /\ Sound(f) /\ f.of = g.of

\* What a file that was to hold frames may be: cut off anywhere.
PartOf(d, frames) ==
    /\ Len(d) <= 2 * Len(frames) + 2
    /\ \A k \in 1 .. Len(d) :
         \/ d[k] = FileOf(frames)[k]
         \/ k = Len(d) /\ d[k] = Cut
         \/ \E i \in 1 .. Len(frames) : k = 2 * i + 1 /\ FrameKept(d[k], frames[i])

SoundFrames(frames) == frames \in Seq(Frame) /\ \A i \in 1 .. Len(frames) : Sound(frames[i])

\* Everything in memory and on disk but the registry.
SnapInv ==
    /\ snap # None => SoundFrames(snap)
    /\ begun # None => SoundFrames(begun)
    /\ saving \in Nat \cup {None} /\ acked \in BOOLEAN /\ disk \in Seq(Piece \cup {Cut})
    /\ ~Idle => /\ begun # None /\ snap = begun /\ ~acked
                /\ Len(disk) = saving /\ saving <= 2 * Len(begun) + 2
                /\ \A k \in 1 .. Len(disk) : disk[k] = FileOf(begun)[k]
    /\ begun = None => disk = <<>> /\ ~acked
    /\ begun # None => PartOf(disk, begun)
    /\ acked => /\ begun # None /\ Len(disk) = 2 * Len(begun) + 2
                /\ \A k \in 1 .. Len(disk) : disk[k] # Cut
---------------------------------------------------------------------------
(* The file.                                                               *)

\* The file of some frames: the header, two writes for each frame, the CRC.
LEMMA FileIs ==
    ASSUME NEW frames, SoundFrames(frames)
    PROVE  /\ FileOf(frames) \in Seq(Piece) /\ Len(FileOf(frames)) = 2 * Len(frames) + 2
           /\ FileOf(frames)[1] = [frame_count |-> Len(frames)]
           /\ \A i \in 1 .. Len(frames) : FileOf(frames)[2 * i + 1] = frames[i]
<1> DEFINE n  == Len(frames)
           ps == [i \in DOMAIN frames |-> <<[size_of |-> i], frames[i]>>]
           h  == <<[frame_count |-> n]>>
           z  == <<[crc_of |-> IF frames = <<>> THEN None ELSE Last(frames).frame.payload]>>
           m  == FlattenSeq(ps)
<1>1. /\ n \in Nat /\ frames \in Seq(Frame) /\ DOMAIN frames = 1 .. n
      /\ \A i \in 1 .. n : frames[i] \in Frame
  BY LenProperties, ElementOfSeq DEF SoundFrames
<1>2. h \in Seq(Piece) /\ Len(h) = 1 /\ h[1] = [frame_count |-> n]
  BY <1>1 DEF Piece
<1>3. z \in Seq(Piece) /\ Len(z) = 1
  <2>1. ASSUME frames # <<>> PROVE Last(frames).frame.payload \in Payload
    <3>1. n \in 1 .. n
      BY <1>1, <2>1, EmptySeq
    <3> QED BY <1>1, <3>1 DEF Last, Frame
  <2>2. (IF frames = <<>> THEN None ELSE Last(frames).frame.payload) \in Payload \cup {None}
    BY <2>1
  <2> QED BY <2>2 DEF Piece
<1>4. /\ ps \in Seq(Seq(Piece)) /\ Len(ps) = n
      /\ \A i \in 1 .. n : Len(ps[i]) = 2 /\ ps[i][2] = frames[i]
  <2>1. \A i \in 1 .. n : <<[size_of |-> i], frames[i]>> \in Seq(Piece)
    BY <1>1 DEF Piece
  <2> QED BY <1>1, <2>1
<1> HIDE DEF ps
<1>5. /\ m \in Seq(Piece) /\ Len(m) = 2 * n
      /\ \A i \in 1 .. n : m[2 * i] = frames[i]
  <2> HIDE DEF n
  <2>1. \A i \in 1 .. Len(ps) : Len(ps[i]) = 2
    BY <1>4
  <2>2. /\ FlattenSeq(ps) \in Seq(Piece) /\ Len(FlattenSeq(ps)) = 2 * Len(ps)
        /\ \A i \in 1 .. Len(ps) : FlattenSeq(ps)[2 * i] = ps[i][2]
    BY <1>4, <2>1, PairsFlattened
  <2> QED BY <1>4, <2>2
<1>6. FileOf(frames) = h \o m \o z
  BY DEF FileOf, ps
<1> HIDE DEF h, m, z
<1>7. Join(Piece, (h \o m) \o z, h, m, z)
  BY <1>2, <1>3, <1>5, Joined
<1>8. /\ FileOf(frames) \in Seq(Piece) /\ Len(FileOf(frames)) = 1 + 2 * n + 1
      /\ FileOf(frames)[1] = h[1]
      /\ \A i \in 1 .. 2 * n : FileOf(frames)[i + 1] = m[i]
  <2> DEFINE t == FileOf(frames)
  <2>1. /\ t \in Seq(Piece) /\ Len(t) = Len(h) + Len(m) + Len(z)
        /\ \A i \in 1 .. Len(h) + Len(m) + Len(z) :
              t[i] = IF i <= Len(h) THEN h[i]
                     ELSE IF i <= Len(h) + Len(m) THEN m[i - Len(h)]
                     ELSE z[i - Len(h) - Len(m)]
    BY <1>6, <1>7 DEF Join
  <2> HIDE DEF t, n
  <2>2. t[1] = h[1]
    BY <1>1, <1>2, <1>3, <1>5, <2>1
  <2>3. ASSUME NEW i \in 1 .. 2 * n PROVE t[i + 1] = m[i]
    <3>1. /\ i + 1 \in 1 .. Len(h) + Len(m) + Len(z) /\ ~(i + 1 <= Len(h))
          /\ i + 1 <= Len(h) + Len(m) /\ i + 1 - Len(h) = i
      BY <1>1, <1>2, <1>3, <1>5
    <3> QED BY <2>1, <3>1
  <2> QED BY <1>2, <1>3, <1>5, <2>1, <2>2, <2>3 DEF t
<1>9. \A i \in 1 .. n : 2 * i \in 1 .. 2 * n
  BY <1>1
<1>10. 1 + 2 * n + 1 = 2 * n + 2
  BY <1>1
<1> QED BY <1>2, <1>5, <1>8, <1>9, <1>10

\* A frame of an object that is encoded is sound (serializer.c:62).
LEMMA EncodedIsSound ==
    ASSUME NEW o \in Objects
    PROVE  Sound([frame |-> serializer_encode(o), of |-> o])
  BY DEF Sound, Frame, Payload, serializer_encode

\* What a load of the file returns: as many frames as were to be saved, in their order,
\* each as it was saved or damaged (snapshot.c:193).
LEMMA FramesRead ==
    ASSUME SnapInv, Readable(disk)
    PROVE  /\ begun # None /\ SoundFrames(FramesOn(disk))
           /\ Len(FramesOn(disk)) = Len(begun)
           /\ \A i \in 1 .. Len(begun) : FramesOn(disk)[i].of = begun[i].of
<1> DEFINE n == Len(begun)
           d == disk
<1>1. begun # None /\ SoundFrames(begun) /\ PartOf(d, begun)
  <2>1. d # <<>>
    BY DEF Readable
  <2> QED BY <2>1 DEF SnapInv
<1>2. n \in Nat /\ begun \in Seq(Frame) /\ Len(d) \in Nat /\ d # <<>> /\ d \in Seq(Piece \cup {Cut})
  BY <1>1, LenProperties DEF SoundFrames, SnapInv, Readable
<1>3. Len(d) >= 1
  BY <1>2, EmptySeq
<1>4. d[1].frame_count = n
  <2>1. 1 \in 1 .. Len(d)
    BY <1>2, <1>3
  <2>2. \A i \in 1 .. n : 1 # 2 * i + 1
    BY <1>2
  <2>3. d[1] # Cut
    BY DEF Readable
  <2>4. d[1] = FileOf(begun)[1]
    BY <1>1, <2>1, <2>2, <2>3 DEF PartOf
  <2>5. FileOf(begun)[1] = [frame_count |-> Len(begun)]
    BY <1>1, FileIs
  <2> QED BY <2>4, <2>5
<1>5. Len(d) > 2 * n /\ \A i \in 1 .. n : d[2 * i + 1] # Cut
  BY <1>4 DEF Readable
<1> DEFINE there == (Len(d) - 1) \div 2
<1>6. there \in Nat /\ there >= n
  BY <1>2, <1>3, <1>5
<1>7. FramesOn(d) = [i \in 1 .. n |-> d[2 * i + 1]]
  <2>1. (IF d[1].frame_count < there THEN d[1].frame_count ELSE there) = n
    BY <1>2, <1>4, <1>6
  <2> HIDE DEF d
  <2> QED BY <2>1 DEF FramesOn
<1>8. ASSUME NEW i \in 1 .. n
      PROVE  Sound(d[2 * i + 1]) /\ d[2 * i + 1].of = begun[i].of
  <2>1. 2 * i + 1 \in 1 .. Len(d) /\ \A j \in 1 .. n : 2 * i + 1 = 2 * j + 1 => j = i
    BY <1>2, <1>5
  <2>2. d[2 * i + 1] # Cut
    BY <1>5
  <2>3. d[2 * i + 1] = FileOf(begun)[2 * i + 1] \/ FrameKept(d[2 * i + 1], begun[i])
    BY <1>1, <2>1, <2>2 DEF PartOf
  <2>4. CASE d[2 * i + 1] = FileOf(begun)[2 * i + 1]
    BY <1>1, <2>4, FileIs DEF SoundFrames
  <2>5. CASE FrameKept(d[2 * i + 1], begun[i])
    BY <2>5 DEF FrameKept
  <2> QED BY <2>3, <2>4, <2>5
<1>9. SoundFrames([i \in 1 .. n |-> d[2 * i + 1]])
  <2> HIDE DEF n, d
  <2>1. \A i \in 1 .. n : d[2 * i + 1] \in Frame
    BY <1>8 DEF Sound
  <2>2. [i \in 1 .. n |-> d[2 * i + 1]] \in Seq(Frame)
    BY <1>2, <2>1
  <2>3. Len([i \in 1 .. n |-> d[2 * i + 1]]) = n
    BY <1>2
  <2> QED BY <1>8, <2>2, <2>3 DEF SoundFrames
<1>10. Len([i \in 1 .. n |-> d[2 * i + 1]]) = n
  BY <1>2
<1> QED BY <1>1, <1>7, <1>8, <1>9, <1>10

\* What the invariant says of the last save.
LEMMA InvMeansLoads ==
    ASSUME SnapInv PROVE LoadsTheLastSave
<1>1. ASSUME Readable(disk)
      PROVE  /\ begun # None
             /\ [i \in DOMAIN FramesOn(disk) |-> FramesOn(disk)[i].of]
                   = [i \in DOMAIN begun |-> begun[i].of]
  <2>1. /\ begun # None /\ SoundFrames(FramesOn(disk)) /\ Len(FramesOn(disk)) = Len(begun)
        /\ \A i \in 1 .. Len(begun) : FramesOn(disk)[i].of = begun[i].of
    BY <1>1, FramesRead
  <2>2. DOMAIN FramesOn(disk) = 1 .. Len(begun) /\ DOMAIN begun = 1 .. Len(begun)
    BY <2>1, LenProperties DEF SoundFrames, SnapInv
  <2> QED BY <2>1, <2>2
<1>2. ASSUME acked PROVE Readable(disk)
  <2>1. /\ begun # None /\ Len(disk) = 2 * Len(begun) + 2 /\ SoundFrames(begun)
        /\ \A k \in 1 .. Len(disk) : disk[k] # Cut
        /\ PartOf(disk, begun)
    BY <1>2 DEF SnapInv
  <2>2. Len(begun) \in Nat
    BY <2>1, LenProperties DEF SoundFrames
  <2>3. 1 \in 1 .. Len(disk) /\ disk # <<>>
    BY <2>1, <2>2, EmptySeq
  <2>4. disk[1] # Cut /\ \A i \in 1 .. Len(begun) : 1 # 2 * i + 1
    BY <2>1, <2>2, <2>3
  <2>5. disk[1].frame_count = Len(begun)
    <3>1. disk[1] = FileOf(begun)[1]
      BY <2>1, <2>3, <2>4 DEF PartOf
    <3>2. FileOf(begun)[1] = [frame_count |-> Len(begun)]
      BY <2>1, FileIs
    <3> QED BY <3>1, <3>2
  <2>6. \A i \in 1 .. Len(begun) : 2 * i \in 1 .. Len(disk) /\ 2 * i + 1 \in 1 .. Len(disk)
    BY <2>1, <2>2
  <2>7. Len(disk) > 2 * Len(begun)
    BY <2>1, <2>2
  <2> QED BY <2>1, <2>3, <2>4, <2>5, <2>6, <2>7 DEF Readable
<1> QED BY <1>1, <1>2 DEF LoadsTheLastSave
---------------------------------------------------------------------------
(* The steps.                                                              *)

\* A step that leaves the file alone and does not touch a save in progress.
LEMMA MemoryChanges ==
    ASSUME SnapInv, Idle, Idle', UNCHANGED <<disk, begun, acked>>,
           snap' # None => SoundFrames(snap')
    PROVE  SnapInv'
  BY DEF SnapInv, Idle, PartOf, SoundFrames

\* snapshot_add_frame changes memory alone (snapshot.c:86).
LEMMA AddFramePreserves ==
    ASSUME SnapInv, NEW o \in Objects, snapshot_add_frame(o)
    PROVE  SnapInv'
<1> DEFINE f == [frame |-> serializer_encode(o), of |-> o]
<1>1. /\ Idle /\ snap # None /\ snap' = Append(snap, f)
      /\ UNCHANGED <<disk, saving, begun, acked>>
  BY DEF snapshot_add_frame
<1>2. SoundFrames(snap) /\ Sound(f) /\ f \in Frame
  BY <1>1, EncodedIsSound DEF SnapInv, Sound
<1> HIDE DEF f
<1>3. SoundFrames(snap')
  BY <1>1, <1>2, AppendProperties DEF SoundFrames
<1>4. Idle'
  BY <1>1 DEF Idle
<1> QED BY <1>1, <1>3, <1>4, MemoryChanges

\* An emptied file is a beginning of any file (snapshot.c:136).
LEMMA SavePreserves ==
    ASSUME SnapInv, snapshot_save
    PROVE  SnapInv'
<1>1. /\ snap # None /\ saving' = 0 /\ disk' = <<>> /\ begun' = snap /\ acked' = FALSE
      /\ snap' = snap /\ SoundFrames(snap)
  BY DEF snapshot_save, SnapInv, memory
<1>2. Len(snap) \in Nat /\ Len(disk') = 0
  BY <1>1, LenProperties DEF SoundFrames
<1>3. PartOf(disk', begun')
  BY <1>1, <1>2 DEF PartOf
<1>4. /\ snap' # None => SoundFrames(snap')
      /\ begun' # None => SoundFrames(begun')
      /\ saving' \in Nat \cup {None} /\ acked' \in BOOLEAN /\ disk' \in Seq(Piece \cup {Cut})
  <2>0. <<>> \in Seq(Piece \cup {Cut})
    OBVIOUS
  <2>1. disk' \in Seq(Piece \cup {Cut}) /\ saving' \in Nat /\ acked' \in BOOLEAN
    BY <1>1, <2>0
  <2>2. SoundFrames(snap') /\ SoundFrames(begun')
    BY <1>1
  <2> QED BY <2>1, <2>2
<1>5. /\ begun' # None /\ snap' = begun' /\ ~acked'
      /\ Len(disk') = saving' /\ saving' <= 2 * Len(begun') + 2
      /\ \A k \in 1 .. Len(disk') : disk'[k] = FileOf(begun')[k]
  BY <1>1, <1>2
<1> QED BY <1>3, <1>4, <1>5 DEF SnapInv

\* One more write, and the file is one piece nearer to the whole (snapshot.c:146).
LEMMA WritePreserves ==
    ASSUME SnapInv, Write
    PROVE  SnapInv'
<1>1. /\ ~Idle /\ begun # None /\ snap = begun /\ ~acked /\ saving \in Nat
      /\ Len(disk) = saving /\ saving <= 2 * Len(begun) + 2 /\ SoundFrames(begun)
      /\ \A k \in 1 .. Len(disk) : disk[k] = FileOf(begun)[k]
      /\ disk \in Seq(Piece \cup {Cut})
  BY DEF Write, SnapInv, Idle
<1>2. /\ FileOf(begun) \in Seq(Piece) /\ Len(FileOf(begun)) = 2 * Len(begun) + 2
      /\ Len(begun) \in Nat
  BY <1>1, FileIs, LenProperties DEF SoundFrames
<1>3. /\ saving < 2 * Len(begun) + 2 /\ disk' = Append(disk, FileOf(begun)[saving + 1])
      /\ saving' = saving + 1 /\ UNCHANGED <<snap, begun, acked>>
  BY <1>1, <1>2 DEF Write, memory
<1>4. FileOf(begun)[saving + 1] \in Piece
  <2>1. saving + 1 \in 1 .. Len(FileOf(begun))
    BY <1>1, <1>2, <1>3
  <2> QED BY <1>2, <2>1, ElementOfSeq
<1>5. /\ disk' \in Seq(Piece \cup {Cut}) /\ Len(disk') = saving + 1
      /\ \A k \in 1 .. Len(disk') : disk'[k] = FileOf(begun)[k]
  BY <1>1, <1>3, <1>4, AppendProperties
<1>6. saving' <= 2 * Len(begun) + 2 /\ saving' \in Nat
  BY <1>1, <1>2, <1>3
<1>7. PartOf(disk', begun')
  BY <1>3, <1>5, <1>6 DEF PartOf
<1>8. saving' # None
  BY <1>6, SnapshotAssumption
<1>9. acked' = FALSE /\ snap' # None /\ begun' = begun /\ snap' = begun
  BY <1>1, <1>3 DEF SnapInv
<1> QED BY <1>1, <1>3, <1>5, <1>6, <1>7, <1>9 DEF SnapInv

\* A save that is cut off leaves what was written, perhaps with a torn write behind it.
LEMMA WriteFailsPreserves ==
    ASSUME SnapInv, WriteFails
    PROVE  SnapInv'
<1>1. /\ ~Idle /\ begun # None /\ snap = begun /\ ~acked
      /\ Len(disk) = saving /\ saving \in Nat /\ SoundFrames(begun)
      /\ \A k \in 1 .. Len(disk) : disk[k] = FileOf(begun)[k]
      /\ disk \in Seq(Piece \cup {Cut})
  BY DEF WriteFails, SnapInv, Idle
<1>2. Len(FileOf(begun)) = 2 * Len(begun) + 2 /\ Len(begun) \in Nat
  BY <1>1, FileIs, LenProperties DEF SoundFrames
<1>3. saving < 2 * Len(begun) + 2 /\ saving' = None /\ UNCHANGED <<snap, begun, acked>>
  BY <1>1, <1>2 DEF WriteFails, memory
<1>4. PICK part \in {<<>>, <<Cut>>} : disk' = disk \o part
  BY DEF WriteFails
<1>5. /\ disk' \in Seq(Piece \cup {Cut}) /\ PartOf(disk', begun)
  <2>1. CASE part = <<>>
    <3>1. disk' = disk
      BY <1>1, <1>4, <2>1
    <3>2. Len(disk) <= 2 * Len(begun) + 2
      BY <1>1, <1>2, <1>3
    <3> QED BY <1>1, <3>1, <3>2 DEF PartOf
  <2>2. CASE part = <<Cut>>
    <3>1. /\ disk' \in Seq(Piece \cup {Cut}) /\ Len(disk') = saving + 1
          /\ disk'[saving + 1] = Cut
          /\ \A k \in 1 .. saving : disk'[k] = disk[k]
      <4>1. disk' = disk \o <<Cut>> /\ Cut \in Piece \cup {Cut}
        BY <1>4, <2>2
      <4>2. disk' = Append(disk, Cut)
        BY <1>1, <4>1
      <4> QED BY <1>1, <4>1, <4>2, AppendProperties
    <3>2. \A k \in 1 .. Len(disk') : k \in 1 .. saving \/ k = saving + 1
      BY <1>1, <3>1
    <3>3. Len(disk') <= 2 * Len(begun) + 2
      BY <1>1, <1>2, <1>3, <3>1
    <3> QED BY <1>1, <3>1, <3>2, <3>3 DEF PartOf
  <2> QED BY <2>1, <2>2
<1>6. PartOf(disk', begun') /\ ~acked' /\ acked' \in BOOLEAN
  BY <1>1, <1>3, <1>5 DEF SnapInv
<1> QED BY <1>1, <1>3, <1>5, <1>6 DEF SnapInv, Idle

\* A save that answers 0 has written every piece (snapshot.c:189).
LEMMA SaveReturnsPreserves ==
    ASSUME SnapInv, SaveReturns
    PROVE  SnapInv'
<1>1. /\ ~Idle /\ begun # None /\ snap = begun /\ PartOf(disk, begun)
      /\ Len(disk) = saving /\ saving \in Nat /\ SoundFrames(begun)
      /\ \A k \in 1 .. Len(disk) : disk[k] = FileOf(begun)[k]
  BY DEF SaveReturns, SnapInv, Idle
<1>2. FileOf(begun) \in Seq(Piece) /\ Len(FileOf(begun)) = 2 * Len(begun) + 2
  BY <1>1, FileIs
<1>3. /\ saving = 2 * Len(begun) + 2 /\ saving' = None /\ acked' = TRUE
      /\ UNCHANGED <<snap, disk, begun>>
  BY <1>1, <1>2 DEF SaveReturns, memory
<1>4. \A k \in 1 .. Len(disk) : disk[k] # Cut
  BY <1>1, <1>2, <1>3, ElementOfSeq, SnapshotAssumption
<1>5. PartOf(disk', begun')
  BY <1>1, <1>3
<1> QED BY <1>1, <1>3, <1>4, <1>5 DEF SnapInv, Idle

\* What was written outlives the process; the snapshot in memory does not.
LEMMA RestartPreserves ==
    ASSUME SnapInv, Restart
    PROVE  SnapInv'
<1>1. snap' = None /\ saving' = None /\ UNCHANGED <<disk, begun, acked>>
  BY DEF Restart
<1>2. begun # None => PartOf(disk', begun')
  BY <1>1 DEF SnapInv
<1> QED BY <1>1, <1>2 DEF SnapInv, Idle, SoundFrames

\* A damaged frame stays the frame of the same object.
LEMMA DamagePreserves ==
    ASSUME SnapInv, Damage
    PROVE  SnapInv'
<1>1. PICK i \in DOMAIN disk :
        /\ i % 2 = 1 /\ i \in 3 .. Len(disk) /\ disk[i] # Cut
        /\ disk' = [disk EXCEPT ![i].frame.payload = Ruined]
  BY DEF Damage
<1>2. Idle /\ UNCHANGED <<snap, saving, begun, acked>> /\ Idle'
  BY DEF Damage, memory, Idle
<1>3. /\ disk \in Seq(Piece \cup {Cut}) /\ Len(disk) \in Nat /\ disk # <<>>
      /\ DOMAIN disk = 1 .. Len(disk)
  BY <1>1, LenProperties DEF SnapInv
<1>4. begun # None /\ SoundFrames(begun) /\ PartOf(disk, begun) /\ Len(begun) \in Nat
  <2>1. begun # None /\ SoundFrames(begun) /\ PartOf(disk, begun)
    BY <1>3 DEF SnapInv
  <2> QED BY <2>1, LenProperties DEF SoundFrames
<1>5. PICK j \in 1 .. Len(begun) : i = 2 * j + 1
  <2>1. i <= 2 * Len(begun) + 2 /\ i \in Nat /\ i >= 3
    BY <1>1, <1>3, <1>4 DEF PartOf
  <2>2. (i - 1) \div 2 \in 1 .. Len(begun) /\ i = 2 * ((i - 1) \div 2) + 1
    BY <1>1, <1>4, <2>1, SMTT(30)
  <2> QED BY <2>2
<1>6. Sound(disk[i]) /\ disk[i].of = begun[j].of
  <2>1. \/ disk[i] = FileOf(begun)[i]
        \/ \E l \in 1 .. Len(begun) : i = 2 * l + 1 /\ FrameKept(disk[i], begun[l])
    BY <1>1, <1>3, <1>4 DEF PartOf
  <2>2. CASE disk[i] = FileOf(begun)[i]
    <3>1. FileOf(begun)[i] = begun[j]
      BY <1>4, <1>5, FileIs
    <3> QED BY <1>4, <2>2, <3>1 DEF SoundFrames
  <2>3. ASSUME NEW l \in 1 .. Len(begun), i = 2 * l + 1, FrameKept(disk[i], begun[l])
        PROVE  FrameKept(disk[i], begun[j])
    <3>1. l = j
      BY <1>4, <1>5, <2>3
    <3> QED BY <2>3, <3>1
  <2> QED BY <2>1, <2>2, <2>3 DEF FrameKept
<1> DEFINE g == [disk[i] EXCEPT !.frame.payload = Ruined]
<1>7. Sound(g) /\ g.of = begun[j].of
  <2>1. disk[i] \in Frame /\ disk[i].frame.crc = Written(disk[i].of)
    BY <1>6 DEF Sound
  <2>2. Ruined \in Payload
    BY DEF Payload
  <2>3. /\ g \in Frame /\ g.of = disk[i].of
        /\ g.frame.crc = disk[i].frame.crc /\ g.frame.payload = Ruined
    BY <2>1, <2>2 DEF Frame
  <2> HIDE DEF g
  <2> QED BY <1>6, <2>1, <2>3 DEF Sound
<1>8. /\ Len(disk') = Len(disk) /\ disk'[i] = g
      /\ \A k \in 1 .. Len(disk) : k # i => disk'[k] = disk[k]
  BY <1>1, <1>3
<1>9. disk' \in Seq(Piece \cup {Cut})
  <2>1. g \in Piece
    BY <1>7 DEF Sound, Piece
  <2>2. disk' = [disk EXCEPT ![i] = g]
    BY <1>1
  <2> HIDE DEF g
  <2> QED BY <1>3, <2>1, <2>2, ExceptSeq
<1>10. PartOf(disk', begun)
  <2> SUFFICES ASSUME NEW k \in 1 .. Len(disk)
               PROVE  \/ disk'[k] = FileOf(begun)[k]
                      \/ k = Len(disk) /\ disk'[k] = Cut
                      \/ \E l \in 1 .. Len(begun) : k = 2 * l + 1 /\ FrameKept(disk'[k], begun[l])
    BY <1>4, <1>8 DEF PartOf
  <2>1. CASE k = i
    BY <1>5, <1>7, <1>8, <2>1 DEF FrameKept
  <2>2. CASE k # i
    BY <1>4, <1>8, <2>2 DEF PartOf
  <2> QED BY <2>1, <2>2
<1>11. acked => \A k \in 1 .. Len(disk) : disk'[k] # Cut
  <2>1. g # Cut
    BY <1>7, SnapshotAssumption DEF Sound, Piece
  <2> QED BY <1>8, <2>1 DEF SnapInv
<1>12. PartOf(disk', begun')
  BY <1>2, <1>10
<1> HIDE DEF g
<1> QED BY <1>2, <1>3, <1>4, <1>8, <1>9, <1>11, <1>12 DEF SnapInv

\* Every step keeps the files sound.
LEMMA SnapshotPreserves ==
    ASSUME SnapInv, [SnapshotNext]_snapshot_vars
    PROVE  SnapInv'
<1>1. CASE UNCHANGED <<snap, disk, saving, begun, acked>>
  BY <1>1 DEF SnapInv, PartOf, Idle
<1>2. CASE UNCHANGED snapshot_vars
  BY <1>1, <1>2 DEF snapshot_vars, memory
<1>3. CASE snapshot_create
  <2>1. Idle /\ Idle' /\ snap' = <<>> /\ UNCHANGED <<disk, begun, acked>>
    BY <1>3 DEF snapshot_create, Idle
  <2>2. <<>> \in Seq(Frame) /\ Len(<<>>) = 0
    OBVIOUS
  <2>3. SoundFrames(<<>>)
    BY <2>2 DEF SoundFrames
  <2> QED BY <2>1, <2>3, MemoryChanges
<1>4. CASE snapshot_free
  <2>1. Idle /\ Idle' /\ snap' = None /\ UNCHANGED <<disk, begun, acked>>
    BY <1>4 DEF snapshot_free, Idle
  <2> QED BY <2>1, MemoryChanges
<1>5. ASSUME NEW o \in Objects, snapshot_add_frame(o) PROVE SnapInv'
  BY <1>5, AddFramePreserves
<1>6. CASE snapshot_load
  <2>1. /\ Idle /\ Idle' /\ Readable(disk) /\ snap' = FramesOn(disk)
        /\ UNCHANGED <<disk, begun, acked>>
    BY <1>6, Zenon DEF snapshot_load, Idle
  <2>2. SoundFrames(FramesOn(disk))
    BY <2>1, FramesRead
  <2> QED BY <2>1, <2>2, MemoryChanges
<1>7. ASSUME NEW kind \in Kinds, NEW i \in DOMAIN snap, runtime_load(kind, snap[i])
      PROVE  SnapInv'
  BY <1>1, <1>7 DEF runtime_load, memory
<1> QED BY <1>2, <1>3, <1>4, <1>5, <1>6, <1>7, SavePreserves, WritePreserves,
           WriteFailsPreserves, SaveReturnsPreserves, RestartPreserves, DamagePreserves
        DEF SnapshotNext

\* A process that starts has no file yet.
LEMMA SnapshotStarts == SnapshotInit => SnapInv
<1> SUFFICES ASSUME SnapshotInit PROVE SnapInv
  OBVIOUS
<1>1. /\ snap = None /\ disk = <<>> /\ saving = None /\ begun = None /\ acked = FALSE
  BY DEF SnapshotInit
<1>2. <<>> \in Seq(Piece \cup {Cut})
  OBVIOUS
<1> QED BY <1>1, <1>2 DEF SnapInv, Idle
---------------------------------------------------------------------------
(* The theorems.                                                           *)

\* What is in memory and on disk fits together, through every crash and damaged byte.
LEMMA FilesAlwaysSound == SnapshotSpec => []SnapInv
<1>1. SnapshotInit => SnapInv
  BY SnapshotStarts
<1>2. SnapInv /\ [SnapshotNext]_snapshot_vars => SnapInv'
  BY SnapshotPreserves
<1> QED BY <1>1, <1>2, PTL DEF SnapshotSpec

\* A load gives all frames of the last save that opened the file, in order, or it fails;
\* it does not fail behind a save that answered 0 (snapshot.c:123, 193).
THEOREM LoadsAreOfTheLastSave == SnapshotSpec => []LoadsTheLastSave
<1>1. SnapInv => LoadsTheLastSave
  BY InvMeansLoads
<1> QED BY <1>1, FilesAlwaysSound, PTL
---------------------------------------------------------------------------
(* What the runtime restores.                                              *)

\* An object of a kind, restored as elems, against where it came from.
Fits(kind, elems, c) ==
    /\ c.from.kind = kind
    /\ IsPrefix(elems, c.from.elems)
    /\ c.enough /\ kind # "map" /\ ~Contains(c.from.elems, NUL) => elems = c.from.elems

Source == [from : Objects, enough : BOOLEAN]

RegistryInv ==
    /\ registry \in [Kinds -> Seq(Seq(Elements))] /\ came \in [Kinds -> Seq(Source)]
    /\ \A kind \in Kinds :
          /\ Len(registry[kind]) = Len(came[kind])
          /\ \A j \in 1 .. Len(came[kind]) : Fits(kind, registry[kind][j], came[kind][j])

\* A beginning of a sequence is a prefix of it.
LEMMA BeginningIsPrefix ==
    ASSUME NEW S, NEW s \in Seq(S), NEW l \in Nat, l <= Len(s)
    PROVE  SubSeq(s, 1, l) \in Seq(S) /\ IsPrefix(SubSeq(s, 1, l), s)
<1> DEFINE a == SubSeq(s, 1, l)
<1>1. a \in Seq(S) /\ Len(a) = l
  BY Beginning
<1>2. SubSeq(a, 1, Len(a)) = a
  BY <1>1, SubSeqFull
<1> QED BY <1>1, <1>2 DEF IsPrefix

\* A string is restored up to its first zero byte, a string without one whole.
LEMMA TextIs ==
    ASSUME NEW s \in Seq(Elements)
    PROVE  /\ Text(s) \in Seq(Elements) /\ IsPrefix(Text(s), s)
           /\ ~Contains(s, NUL) => Text(s) = s
<1>1. Len(s) \in Nat /\ SubSeq(s, 1, Len(s)) = s
  BY LenProperties, SubSeqFull
<1>2. CASE ~Contains(s, NUL)
  <2>1. IsPrefix(SubSeq(s, 1, Len(s)), s)
    BY <1>1, BeginningIsPrefix
  <2> QED BY <1>1, <1>2, <2>1 DEF Text
<1>3. CASE Contains(s, NUL)
  <2> DEFINE I == {i \in 1 .. Len(s) : s[i] = NUL}
             k == Min(I)
  <2>1. I # {} /\ I \subseteq Nat
    BY <1>3 DEF Contains
  <2>2. k \in I
    <3> HIDE DEF I
    <3> QED BY <2>1, HasLeast DEF Min
  <2>3. k - 1 \in Nat /\ k - 1 <= Len(s)
    BY <1>1, <2>2
  <2>4. CString(s) = SubSeq(s, 1, k - 1)
    BY <2>1 DEF CString, SelectInSeq
  <2> HIDE DEF k
  <2> QED BY <1>3, <2>3, <2>4, BeginningIsPrefix DEF Text
<1> QED BY <1>2, <1>3

\* A valid frame gives its object back as promised (runtime.c:86).
LEMMA RestoredFits ==
    ASSUME NEW f, Sound(f), serializer_validate(f.frame), NEW enough \in BOOLEAN,
           NEW elems \in Restored(f.frame.payload, enough)
    PROVE  /\ elems \in Seq(Elements)
           /\ Fits(f.frame.payload.kind, elems, [from |-> f.of, enough |-> enough])
<1>1. PICK o : o = f.of
  OBVIOUS
<1>2. /\ o \in Objects /\ o.kind \in Kinds /\ o.elems \in Seq(Elements)
      /\ o = [kind |-> o.kind, elems |-> o.elems]
  <2>1. o \in Objects
    BY <1>1 DEF Sound, Frame
  <2>2. Objects \subseteq [kind : Kinds, elems : Seq(Elements)]
    BY SnapshotAssumption DEF Elements
  <2> QED BY <2>1, <2>2
<1>3. f.frame.payload = Written(o)
  <2>1. Ruined # Written(o)
    BY <1>2, SnapshotAssumption
  <2>2. f.frame.crc = f.frame.payload
    BY DEF serializer_validate
  <2>3. f.frame.crc = Written(o)
    BY <1>1 DEF Sound
  <2> QED BY <2>2, <2>3
<1> DEFINE p == Written(o)
<1>4. p.kind = o.kind /\ p.elems = (IF o.kind = "map" THEN <<>> ELSE o.elems)
  BY <1>2 DEF Written
<1> HIDE DEF p
<1>5. p.elems \in Seq(Elements) /\ IsPrefix(p.elems, o.elems)
  <2>1. CASE o.kind = "map"
    <3>1. p.elems = SubSeq(o.elems, 1, 0) /\ 0 <= Len(o.elems)
      BY <1>2, <1>4, <2>1, LenProperties, SubSeqEmpty
    <3> QED BY <1>2, <3>1, BeginningIsPrefix
  <2>2. CASE o.kind # "map"
    <3>1. SubSeq(o.elems, 1, Len(o.elems)) = o.elems /\ Len(o.elems) \in Nat
      BY <1>2, LenProperties, SubSeqFull
    <3>2. IsPrefix(SubSeq(o.elems, 1, Len(o.elems)), o.elems)
      BY <1>2, <3>1, BeginningIsPrefix
    <3> QED BY <1>2, <1>4, <2>2, <3>1, <3>2
  <2> QED BY <2>1, <2>2
<1>6. /\ elems \in Seq(Elements) /\ IsPrefix(elems, o.elems)
      /\ enough /\ o.kind # "map" /\ ~Contains(o.elems, NUL) => elems = o.elems
  <2>0. elems \in Restored(p, enough)
    BY <1>3 DEF p
  <2>1. CASE p.kind = "string"
    <3>1. elems = Text(o.elems)
      BY <1>4, <2>0, <2>1 DEF Restored
    <3> QED BY <1>2, <3>1, TextIs
  <2>2. CASE p.kind # "string" /\ enough
    <3>1. elems = p.elems
      BY <2>0, <2>2 DEF Restored
    <3> QED BY <1>4, <1>5, <3>1
  <2>3. CASE p.kind # "string" /\ ~enough
    <3>1. elems \in Prefixes(p.elems)
      BY <2>0, <2>3 DEF Restored
    <3>2. PICK l \in 0 .. Len(p.elems) : elems = SubSeq(p.elems, 1, l)
      BY <3>1 DEF Prefixes
    <3>3. l \in Nat /\ l <= Len(p.elems)
      BY <1>5, LenProperties
    <3>4. elems \in Seq(Elements)
      BY <1>5, <3>2, <3>3, BeginningIsPrefix
    <3>5. CASE o.kind = "map"
      <4>1. l = 0 /\ elems = SubSeq(o.elems, 1, 0)
        BY <1>2, <1>4, <3>2, <3>3, <3>5, SubSeqEmpty
      <4>2. 0 <= Len(o.elems)
        BY <1>2, LenProperties
      <4> QED BY <1>2, <2>3, <3>4, <4>1, <4>2, BeginningIsPrefix
    <3>6. CASE o.kind # "map"
      BY <1>2, <1>4, <2>3, <3>2, <3>3, <3>4, <3>6, BeginningIsPrefix
    <3> QED BY <3>5, <3>6
  <2> QED BY <2>1, <2>2, <2>3
<1> QED BY <1>1, <1>3, <1>4, <1>6 DEF Fits, p

\* A loader adds what its frame came to, or refuses it (runtime.c:84).
LEMMA LoadPreserves ==
    ASSUME SnapInv, RegistryInv, snap # None, NEW kind \in Kinds, NEW i \in DOMAIN snap,
           runtime_load(kind, snap[i])
    PROVE  RegistryInv'
<1> DEFINE f == snap[i]
<1>1. Sound(f)
  <2>1. i \in 1 .. Len(snap)
    BY LenProperties DEF SnapInv, SoundFrames
  <2> QED BY <2>1 DEF SnapInv, SoundFrames
<1>2. serializer_validate(f.frame) /\ f.frame.payload.kind = kind
  BY DEF runtime_load
<1>0. PICK enough \in BOOLEAN :
        /\ \E elems \in Restored(f.frame.payload, enough) :
              registry' = [registry EXCEPT ![kind] = Append(@, elems)]
        /\ came' = [came EXCEPT ![kind] = Append(@, [from |-> f.of, enough |-> enough])]
  BY DEF runtime_load
<1>3. PICK elems \in Restored(f.frame.payload, enough) :
         /\ registry' = [registry EXCEPT ![kind] = Append(@, elems)]
         /\ came' = [came EXCEPT ![kind] = Append(@, [from |-> f.of, enough |-> enough])]
  BY <1>0
<1> DEFINE c == [from |-> f.of, enough |-> enough]
<1>4. elems \in Seq(Elements) /\ Fits(kind, elems, c)
  BY <1>1, <1>2, RestoredFits
<1>5. c \in Source
  BY <1>1 DEF Source, Sound, Frame
<1> HIDE DEF c
<1>6. /\ registry'[kind] = Append(registry[kind], elems) /\ came'[kind] = Append(came[kind], c)
      /\ \A k \in Kinds : k # kind => registry'[k] = registry[k] /\ came'[k] = came[k]
  BY <1>3 DEF RegistryInv, c
<1>7. registry[kind] \in Seq(Seq(Elements)) /\ came[kind] \in Seq(Source)
  BY DEF RegistryInv
<1>8. /\ registry'[kind] \in Seq(Seq(Elements)) /\ came'[kind] \in Seq(Source)
      /\ Len(registry'[kind]) = Len(came'[kind])
      /\ \A j \in 1 .. Len(came'[kind]) : Fits(kind, registry'[kind][j], came'[kind][j])
  <2>1. Len(registry[kind]) = Len(came[kind]) /\ Len(came[kind]) \in Nat
    BY <1>7, LenProperties DEF RegistryInv
  <2>2. \A j \in 1 .. Len(came[kind]) : Fits(kind, registry[kind][j], came[kind][j])
    BY DEF RegistryInv
  <2>3. /\ Append(registry[kind], elems) \in Seq(Seq(Elements))
        /\ Len(Append(registry[kind], elems)) = Len(came[kind]) + 1
        /\ \A j \in 1 .. Len(came[kind]) : Append(registry[kind], elems)[j] = registry[kind][j]
        /\ Append(registry[kind], elems)[Len(came[kind]) + 1] = elems
    BY <1>4, <1>7, <2>1, AppendProperties
  <2>4. /\ Append(came[kind], c) \in Seq(Source)
        /\ Len(Append(came[kind], c)) = Len(came[kind]) + 1
        /\ \A j \in 1 .. Len(came[kind]) : Append(came[kind], c)[j] = came[kind][j]
        /\ Append(came[kind], c)[Len(came[kind]) + 1] = c
    BY <1>5, <1>7, <2>1, AppendProperties
  <2>5. \A j \in 1 .. Len(came[kind]) + 1 : j \in 1 .. Len(came[kind]) \/ j = Len(came[kind]) + 1
    BY <2>1
  <2> QED BY <1>4, <1>6, <2>2, <2>3, <2>4, <2>5
<1>9. registry' \in [Kinds -> Seq(Seq(Elements))] /\ came' \in [Kinds -> Seq(Source)]
  <2>1. DOMAIN registry' = Kinds /\ DOMAIN came' = Kinds
    BY <1>3 DEF RegistryInv
  <2>2. \A k \in Kinds : registry'[k] \in Seq(Seq(Elements)) /\ came'[k] \in Seq(Source)
    BY <1>6, <1>8 DEF RegistryInv
  <2>3. registry' = [k \in Kinds |-> registry'[k]] /\ came' = [k \in Kinds |-> came'[k]]
    BY <1>3, <2>1 DEF RegistryInv
  <2> QED BY <2>2, <2>3
<1> QED BY <1>6, <1>8, <1>9 DEF RegistryInv

\* An empty registry holds nothing that was not saved.
LEMMA NewRegistry ==
    ASSUME registry = runtime_new, came = runtime_new PROVE RegistryInv
<1>1. <<>> \in Seq(Seq(Elements)) /\ <<>> \in Seq(Source) /\ Len(<<>>) = 0
  OBVIOUS
<1> QED BY <1>1 DEF RegistryInv, runtime_new

\* Every step keeps the registry true to what was encoded.
LEMMA NextRestores ==
    ASSUME SnapInv, RegistryInv, [SnapshotNext]_snapshot_vars
    PROVE  RegistryInv'
<1>1. CASE UNCHANGED runtime
  BY <1>1 DEF runtime, RegistryInv
<1>2. CASE Restart
  <2>1. registry' = runtime_new /\ came' = runtime_new
    BY <1>2 DEF Restart
  <2>2. <<>> \in Seq(Seq(Elements)) /\ <<>> \in Seq(Source) /\ Len(<<>>) = 0
    OBVIOUS
  <2> QED BY <2>1, <2>2 DEF RegistryInv, runtime_new
<1>3. ASSUME snap # None, NEW kind \in Kinds, NEW i \in DOMAIN snap, runtime_load(kind, snap[i])
      PROVE  RegistryInv'
  BY <1>3, LoadPreserves
<1>4. CASE UNCHANGED snapshot_vars
  BY <1>1, <1>4 DEF snapshot_vars
<1>5. ASSUME NEW o \in Objects, snapshot_add_frame(o) PROVE UNCHANGED runtime
  BY <1>5 DEF snapshot_add_frame
<1>6. CASE snapshot_load
  <2>1. UNCHANGED runtime
    BY <1>6, Zenon DEF snapshot_load
  <2> QED BY <1>1, <2>1
<1> QED BY <1>1, <1>2, <1>3, <1>4, <1>5, <1>6
        DEF SnapshotNext, snapshot_create, snapshot_free, snapshot_save, Write, WriteFails,
            SaveReturns, Damage

\* A restored object is what was encoded, or a beginning of it, and never comes from a
\* damaged frame (runtime.c:86, serializer.c:204).
THEOREM RestoredAreSaved == SnapshotSpec => []RestoresWhatWasSaved
<1>1. SnapshotInit => RegistryInv
  BY NewRegistry DEF SnapshotInit
<1>2. SnapInv /\ RegistryInv /\ [SnapshotNext]_snapshot_vars => RegistryInv'
  BY NextRestores
<1>3. RegistryInv => RestoresWhatWasSaved
  <2> SUFFICES ASSUME RegistryInv, NEW kind \in Kinds, NEW j \in DOMAIN registry[kind]
               PROVE  LET was == came[kind][j].from
                      IN  /\ was.kind = kind
                          /\ IsPrefix(registry[kind][j], was.elems)
                          /\ came[kind][j].enough /\ kind # "map" /\ ~Contains(was.elems, NUL)
                                 => registry[kind][j] = was.elems
    BY DEF RestoresWhatWasSaved
  <2>1. j \in 1 .. Len(came[kind])
    BY LenProperties DEF RegistryInv
  <2>2. Fits(kind, registry[kind][j], came[kind][j])
    BY <2>1 DEF RegistryInv
  <2> QED BY <2>2 DEF Fits
<1> QED BY <1>1, <1>2, <1>3, FilesAlwaysSound, PTL DEF SnapshotSpec
=============================================================================

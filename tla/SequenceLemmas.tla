--------------------------- MODULE SequenceLemmas ---------------------------
(***************************************************************************)
(* What the operators on sequences that the containers are made of give:   *)
(* beginnings, parts, concatenations, an element more or less.  Each       *)
(* sequence is known by its length and its elements.  Then the members of  *)
(* a finite set of numbers counted in their order, the sum of a function   *)
(* over a finite set, the sequences whose values are each made from the    *)
(* one before, and the functions whose values are each made from values    *)
(* before, which is what a recursive function is.                          *)
(***************************************************************************)
EXTENDS Integers, SequencesExt, SequenceTheorems, FiniteSetTheorems,
        WellFoundedInduction, TLAPS

\* A set of numbers that is not empty has a least.
LEMMA HasLeast ==
    ASSUME NEW T, T \subseteq Nat, T # {}
    PROVE  \E i \in T : \A j \in T : i <= j
<1>1. PICK i \in T : \A j \in T : ~ (<<j, i>> \in OpToRel(<, Nat))
  BY NatLessThanWellFounded, WFMin, Zenon
<1>2. ASSUME NEW j \in T PROVE i <= j
  <2>1. i \in Nat /\ j \in Nat
    OBVIOUS
  <2>2. j < i => <<j, i>> \in OpToRel(<, Nat)
    BY <2>1 DEF OpToRel
  <2>3. ~(j < i)
    BY <1>1, <2>2, Zenon
  <2> QED BY <2>1, <2>3
<1> QED BY <1>2

\* The first n elements of a sequence.
LEMMA Beginning ==
    ASSUME NEW S, NEW s \in Seq(S), NEW n \in Nat, n <= Len(s)
    PROVE  /\ SubSeq(s, 1, n) \in Seq(S) /\ Len(SubSeq(s, 1, n)) = n
           /\ \A i \in 1 .. n : SubSeq(s, 1, n)[i] = s[i]
<1>1. \A i \in 1 .. n : s[i] \in S
  OBVIOUS
<1> QED BY <1>1, SubSeqProperties

\* A part of a sequence that may be empty.
LEMMA Part ==
    ASSUME NEW S, NEW s \in Seq(S), NEW m \in Nat \ {0}, NEW n \in Nat, n <= Len(s),
           m <= n + 1
    PROVE  /\ SubSeq(s, m, n) \in Seq(S) /\ Len(SubSeq(s, m, n)) = n - m + 1
           /\ \A i \in 1 .. n - m + 1 : SubSeq(s, m, n)[i] = s[m + i - 1]
<1>1. \A i \in m .. n : s[i] \in S
  OBVIOUS
<1>2. SubSeq(s, m, n) \in Seq(S) /\ Len(SubSeq(s, m, n)) = IF m <= n THEN n - m + 1 ELSE 0
  BY <1>1, SubSeqProperties
<1>3. \A i \in 1 .. n - m + 1 : SubSeq(s, m, n)[i] = s[m + i - 1]
  BY <1>1, SubSeqProperties
<1> QED BY <1>2, <1>3

\* t is a, b and c one behind the other.
Join(S, t, a, b, c) ==
    /\ t \in Seq(S)
    /\ Len(t) = Len(a) + Len(b) + Len(c)
    /\ \A i \in 1 .. Len(a) + Len(b) + Len(c) :
          t[i] = IF i <= Len(a) THEN a[i]
                 ELSE IF i <= Len(a) + Len(b) THEN b[i - Len(a)]
                 ELSE c[i - Len(a) - Len(b)]

\* Three sequences one behind the other.
LEMMA Joined ==
    ASSUME NEW S, NEW a \in Seq(S), NEW b \in Seq(S), NEW c \in Seq(S)
    PROVE  Join(S, a \o b \o c, a, b, c)
<1> DEFINE ab == a \o b
<1>1. /\ ab \in Seq(S) /\ Len(ab) = Len(a) + Len(b)
      /\ \A i \in 1 .. Len(a) + Len(b) : ab[i] = IF i <= Len(a) THEN a[i] ELSE b[i - Len(a)]
  BY ConcatProperties
<1> HIDE DEF ab
<1>2. /\ ab \o c \in Seq(S) /\ Len(ab \o c) = Len(ab) + Len(c)
      /\ \A i \in 1 .. Len(ab) + Len(c) :
            (ab \o c)[i] = IF i <= Len(ab) THEN ab[i] ELSE c[i - Len(ab)]
  <2>1. ab \in Seq(S)
    BY <1>1
  <2> QED BY <2>1, ConcatProperties, Zenon
<1>3. Len(a) \in Nat /\ Len(b) \in Nat /\ Len(c) \in Nat
  OBVIOUS
<1>4. ASSUME NEW i \in 1 .. Len(a) + Len(b) + Len(c)
      PROVE  (ab \o c)[i] = IF i <= Len(a) THEN a[i]
                            ELSE IF i <= Len(a) + Len(b) THEN b[i - Len(a)]
                            ELSE c[i - Len(a) - Len(b)]
  <2>1. CASE i <= Len(a) + Len(b)
    <3>1. i \in 1 .. Len(a) + Len(b) /\ i \in 1 .. Len(ab) + Len(c) /\ i <= Len(ab)
      BY <1>1, <1>3, <2>1
    <3>2. (ab \o c)[i] = ab[i]
      BY <1>2, <3>1
    <3> QED BY <1>1, <1>3, <2>1, <3>1, <3>2
  <2>2. CASE ~(i <= Len(a) + Len(b))
    <3>1. i \in 1 .. Len(ab) + Len(c) /\ ~(i <= Len(ab)) /\ ~(i <= Len(a))
      BY <1>1, <1>3, <2>2
    <3>2. (ab \o c)[i] = c[i - Len(ab)] /\ i - Len(ab) = i - Len(a) - Len(b)
      BY <1>1, <1>2, <1>3, <3>1
    <3> QED BY <2>2, <3>1, <3>2
  <2> QED BY <2>1, <2>2
<1> QED BY <1>1, <1>2, <1>4 DEF ab, Join

\* A sequence known by its elements is the one InsertAt gives.
LEMMA InsertedIs ==
    ASSUME NEW S, NEW s \in Seq(S), NEW t \in Seq(S), NEW e \in S, NEW i \in 1 .. Len(s) + 1,
           Len(t) = Len(s) + 1,
           \A j \in 1 .. Len(s) + 1 :
               t[j] = IF j < i THEN s[j] ELSE IF j = i THEN e ELSE s[j - 1]
    PROVE  t = InsertAt(s, i, e)
<1> DEFINE a == SubSeq(s, 1, i - 1)
           b == <<e>>
           c == SubSeq(s, i, Len(s))
<1>1. Len(s) \in Nat /\ i \in Nat \ {0} /\ i <= Len(s) + 1
  OBVIOUS
<1>2. /\ a \in Seq(S) /\ Len(a) = i - 1
      /\ \A j \in 1 .. i - 1 : a[j] = s[j]
  <2>1. i - 1 \in Nat /\ i - 1 <= Len(s)
    BY <1>1
  <2> QED BY <2>1, Beginning
<1>3. b \in Seq(S) /\ Len(b) = 1 /\ b[1] = e
  OBVIOUS
<1>4. /\ c \in Seq(S) /\ Len(c) = Len(s) - i + 1
      /\ \A j \in 1 .. Len(s) - i + 1 : c[j] = s[i + j - 1]
  BY <1>1, Part
<1> HIDE DEF a, b, c
<1> DEFINE new == a \o b \o c
<1>5. /\ new \in Seq(S) /\ Len(new) = Len(a) + Len(b) + Len(c)
      /\ \A j \in 1 .. Len(a) + Len(b) + Len(c) :
            new[j] = IF j <= Len(a) THEN a[j]
                     ELSE IF j <= Len(a) + Len(b) THEN b[j - Len(a)]
                     ELSE c[j - Len(a) - Len(b)]
  <2>1. a \in Seq(S) /\ b \in Seq(S) /\ c \in Seq(S)
    BY <1>2, <1>3, <1>4
  <2>2. Join(S, new, a, b, c)
    BY <2>1, Joined
  <2> HIDE DEF new
  <2> QED BY <2>2 DEF Join
<1> HIDE DEF new
<1>6. Len(new) = Len(s) + 1
  BY <1>1, <1>2, <1>3, <1>4, <1>5
<1>7. ASSUME NEW j \in 1 .. Len(s) + 1 PROVE t[j] = new[j]
  <2>1. j \in 1 .. Len(a) + Len(b) + Len(c)
    BY <1>5, <1>6
  <2>2. CASE j < i
    <3>1. j <= Len(a) /\ j \in 1 .. i - 1
      BY <1>1, <1>2, <2>2
    <3>2. new[j] = a[j] /\ a[j] = s[j]
      BY <1>2, <1>5, <2>1, <3>1
    <3> QED BY <2>2, <3>2
  <2>3. CASE j = i
    <3>1. ~(j <= Len(a)) /\ j <= Len(a) + Len(b) /\ j - Len(a) = 1
      BY <1>1, <1>2, <1>3, <2>3
    <3>2. new[j] = b[1]
      BY <1>5, <2>1, <3>1
    <3> QED BY <1>3, <2>3, <3>2
  <2>4. CASE i < j
    <3>1. /\ ~(j <= Len(a)) /\ ~(j <= Len(a) + Len(b))
          /\ j - Len(a) - Len(b) = j - i /\ j - i \in 1 .. Len(s) - i + 1
          /\ i + (j - i) - 1 = j - 1
      BY <1>1, <1>2, <1>3, <2>4
    <3>2. new[j] = c[j - i]
      BY <1>5, <2>1, <3>1
    <3>3. c[j - i] = s[i + (j - i) - 1]
      BY <1>4, <3>1
    <3>4. t[j] = s[j - 1]
      BY <2>4
    <3> QED BY <3>1, <3>2, <3>3, <3>4
  <2> QED BY <1>1, <2>2, <2>3, <2>4
<1>8. t = new
  BY <1>5, <1>6, <1>7, SeqEqual
<1> QED BY <1>8 DEF InsertAt, new, a, b, c

\* A sequence known by its elements is the one RemoveAt gives.
LEMMA RemovedIs ==
    ASSUME NEW S, NEW s \in Seq(S), NEW t \in Seq(S), NEW i \in 1 .. Len(s),
           Len(t) = Len(s) - 1,
           \A j \in 1 .. Len(s) - 1 : t[j] = IF j < i THEN s[j] ELSE s[j + 1]
    PROVE  t = RemoveAt(s, i)
<1> DEFINE a == SubSeq(s, 1, i - 1)
           c == SubSeq(s, i + 1, Len(s))
<1>1. Len(s) \in Nat /\ i \in Nat \ {0} /\ i <= Len(s)
  OBVIOUS
<1>2. /\ a \in Seq(S) /\ Len(a) = i - 1
      /\ \A j \in 1 .. i - 1 : a[j] = s[j]
  <2>1. i - 1 \in Nat /\ i - 1 <= Len(s)
    BY <1>1
  <2> QED BY <2>1, Beginning
<1>3. /\ c \in Seq(S) /\ Len(c) = Len(s) - i
      /\ \A j \in 1 .. Len(s) - i : c[j] = s[i + j]
  <2> DEFINE m == i + 1
  <2>1. m \in Nat \ {0} /\ m <= Len(s) + 1 /\ Len(s) - m + 1 = Len(s) - i
    BY <1>1
  <2>2. \A j \in 1 .. Len(s) - i : m + j - 1 = i + j
    BY <1>1
  <2> HIDE DEF m
  <2>3. /\ SubSeq(s, m, Len(s)) \in Seq(S) /\ Len(SubSeq(s, m, Len(s))) = Len(s) - m + 1
        /\ \A j \in 1 .. Len(s) - m + 1 : SubSeq(s, m, Len(s))[j] = s[m + j - 1]
    BY <1>1, <2>1, Part
  <2> QED BY <2>1, <2>2, <2>3 DEF m
<1> HIDE DEF a, c
<1> DEFINE new == a \o c
<1>4. /\ new \in Seq(S) /\ Len(new) = Len(a) + Len(c)
      /\ \A j \in 1 .. Len(a) + Len(c) : new[j] = IF j <= Len(a) THEN a[j] ELSE c[j - Len(a)]
  BY <1>2, <1>3, ConcatProperties, ZenonT(60)
<1> HIDE DEF new
<1>5. Len(new) = Len(s) - 1
  BY <1>1, <1>2, <1>3, <1>4
<1>6. ASSUME NEW j \in 1 .. Len(s) - 1 PROVE t[j] = new[j]
  <2>1. j \in 1 .. Len(a) + Len(c)
    BY <1>4, <1>5
  <2>2. CASE j < i
    <3>1. j <= Len(a) /\ j \in 1 .. i - 1
      BY <1>1, <1>2, <2>2
    <3> QED BY <1>2, <1>4, <2>1, <2>2, <3>1
  <2>3. CASE ~(j < i)
    <3>1. /\ ~(j <= Len(a)) /\ j - Len(a) \in 1 .. Len(s) - i /\ i + (j - Len(a)) = j + 1
      BY <1>1, <1>2, <2>3
    <3>2. new[j] = c[j - Len(a)] /\ c[j - Len(a)] = s[i + (j - Len(a))]
      BY <1>3, <1>4, <2>1, <3>1
    <3> QED BY <2>3, <3>1, <3>2
  <2> QED BY <2>2, <2>3
<1>7. t = new
  BY <1>1, <1>4, <1>5, <1>6, SeqEqual
<1> QED BY <1>7 DEF RemoveAt, new, a, c

-----------------------------------------------------------------------------
(* The members of a set of numbers, in their order. *)

\* The members of S up to i, and the member up to which there are n.
UpTo(S, i) == {j \in S : j <= i}
Nth(S, n) == CHOOSE i \in S : Cardinality(UpTo(S, i)) = n

\* The numbers up to a member are counted by a number, and by one more than those
\* up to any smaller one.
LEMMA Counted ==
    ASSUME NEW len \in Nat, NEW S, S \subseteq 1 .. len
    PROVE  /\ IsFiniteSet(S) /\ Cardinality(S) \in Nat
           /\ \A i \in Nat : /\ IsFiniteSet(UpTo(S, i)) /\ Cardinality(UpTo(S, i)) \in Nat
                             /\ Cardinality(UpTo(S, i)) <= Cardinality(S)
<1>1. IsFiniteSet(1 .. len)
  BY FS_Interval
<1>2. IsFiniteSet(S)
  BY <1>1, FS_Subset
<1>3. \A T \in SUBSET S : /\ IsFiniteSet(T) /\ Cardinality(T) \in Nat
                          /\ Cardinality(T) <= Cardinality(S)
  BY <1>2, FS_Subset, FS_CardinalityType
<1>4. \A i : UpTo(S, i) \in SUBSET S
  BY DEF UpTo
<1> QED BY <1>2, <1>3, <1>4

\* The nth member exists.
LEMMA NthIs ==
    ASSUME NEW len \in Nat, NEW S, S \subseteq 1 .. len, NEW n \in 1 .. Cardinality(S)
    PROVE  Nth(S, n) \in S /\ Cardinality(UpTo(S, Nth(S, n))) = n
<1> DEFINE enough == {i \in Nat : n <= Cardinality(UpTo(S, i))}
<1>1. /\ IsFiniteSet(S) /\ Cardinality(S) \in Nat
      /\ \A i \in Nat : IsFiniteSet(UpTo(S, i)) /\ Cardinality(UpTo(S, i)) \in Nat
  BY Counted
<1>0. \A j \in S : j \in Nat /\ 1 <= j /\ j <= len
  OBVIOUS
<1>2. len \in enough
  <2>1. UpTo(S, len) = S
    BY <1>0 DEF UpTo
  <2> QED BY <1>1, <2>1
<1>3. PICK i \in enough : \A j \in enough : i <= j
  BY <1>2, HasLeast
<1>4. i # 0
  <2>0. \A j \in S : ~(j <= 0)
    BY <1>0
  <2>1. UpTo(S, 0) = {}
    BY <2>0 DEF UpTo
  <2>2. Cardinality(UpTo(S, 0)) = 0
    BY <2>1, FS_EmptySet
  <2> QED BY <1>1, <1>3, <2>2
<1>5. i - 1 \in Nat /\ Cardinality(UpTo(S, i - 1)) < n
  <2>1. i - 1 \in Nat /\ ~(i <= i - 1)
    BY <1>3, <1>4
  <2>2. i - 1 \notin enough
    BY <1>3, <2>1
  <2> QED BY <1>1, <2>1, <2>2
<1>6. i \in S
  <2>1. SUFFICES ASSUME i \notin S PROVE FALSE
    OBVIOUS
  <2>2. \A j \in S : j <= i <=> j <= i - 1
    BY <1>0, <1>3, <2>1
  <2>3. UpTo(S, i) = UpTo(S, i - 1)
    BY <2>2 DEF UpTo
  <2> QED BY <1>1, <1>3, <1>5, <2>3
<1>7. Cardinality(UpTo(S, i)) = Cardinality(UpTo(S, i - 1)) + 1
  <2>1. /\ \A j \in S : j <= i <=> j <= i - 1 \/ j = i
        /\ ~(i <= i - 1)
    BY <1>0, <1>3, <1>6
  <2>2. UpTo(S, i) = UpTo(S, i - 1) \cup {i} /\ i \notin UpTo(S, i - 1)
    BY <1>6, <2>1 DEF UpTo
  <2> QED BY <1>1, <1>5, <2>2, FS_AddElement
<1>8. Cardinality(UpTo(S, i)) = n
  BY <1>1, <1>3, <1>5, <1>7
<1> QED BY <1>6, <1>8 DEF Nth

\* Every member is the nth for some n, and for one only.
LEMMA NthOnce ==
    ASSUME NEW len \in Nat, NEW S, S \subseteq 1 .. len, NEW i \in S
    PROVE  /\ Cardinality(UpTo(S, i)) \in 1 .. Cardinality(S)
           /\ Nth(S, Cardinality(UpTo(S, i))) = i
<1>1. /\ IsFiniteSet(S) /\ Cardinality(S) \in Nat
      /\ \A j \in Nat : /\ IsFiniteSet(UpTo(S, j)) /\ Cardinality(UpTo(S, j)) \in Nat
                        /\ Cardinality(UpTo(S, j)) <= Cardinality(S)
  BY Counted
<1>2. ASSUME NEW a \in S, NEW b \in S, a < b
      PROVE  Cardinality(UpTo(S, a)) < Cardinality(UpTo(S, b))
  <2>1. \A j \in S : j \in Nat
    OBVIOUS
  <2>2. ~(b <= a) /\ b <= b /\ \A j \in S : j <= a => j <= b
    BY <1>2, <2>1
  <2>3. UpTo(S, a) \cup {b} \in SUBSET UpTo(S, b) /\ b \notin UpTo(S, a)
    BY <2>2 DEF UpTo
  <2>4. Cardinality(UpTo(S, a) \cup {b}) = Cardinality(UpTo(S, a)) + 1
    BY <1>1, <2>1, <2>3, FS_AddElement
  <2>5. Cardinality(UpTo(S, a) \cup {b}) <= Cardinality(UpTo(S, b))
    BY <1>1, <2>1, <2>3, FS_Subset
  <2> QED BY <1>1, <2>1, <2>4, <2>5
<1>3. i \in Nat /\ UpTo(S, i) # {}
  BY DEF UpTo
<1>4. Cardinality(UpTo(S, i)) # 0
  BY <1>1, <1>3, FS_EmptySet
<1>5. Cardinality(UpTo(S, i)) \in 1 .. Cardinality(S)
  BY <1>1, <1>3, <1>4
<1> DEFINE j == Nth(S, Cardinality(UpTo(S, i)))
<1>6. j \in S /\ Cardinality(UpTo(S, j)) = Cardinality(UpTo(S, i))
  BY <1>5, NthIs
<1> HIDE DEF j
<1>7. ~(j < i) /\ ~(i < j) /\ i \in Nat /\ j \in Nat
  <2>1. i \in Nat /\ j \in Nat
    BY <1>6
  <2>2. Cardinality(UpTo(S, i)) \in Nat
    BY <1>1, <2>1
  <2> QED BY <1>2, <1>6, <2>1, <2>2
<1>8. i = j
  BY <1>7
<1> QED BY <1>5, <1>8 DEF j
-----------------------------------------------------------------------------
(* The sum of a function over a finite set. *)

\* g gives the sum over every subset of S with no more than n members.
Chosen(T)        == CHOOSE x \in T : TRUE
Small(S, n)      == {T \in SUBSET S : Cardinality(T) <= n}
Sums(f, S, n, g) ==
    g = [T \in Small(S, n) |-> IF T = {} THEN 0 ELSE f[Chosen(T)] + g[T \ {Chosen(T)}]]

\* g gives the sum over every subset of S.
SumRule(f, S, g) ==
    \A T \in SUBSET S : g[T] = IF T = {} THEN 0 ELSE f[Chosen(T)] + g[T \ {Chosen(T)}]

\* The sums over the subsets of a finite set are there.
LEMMA SumsExist ==
    ASSUME NEW f, NEW S, IsFiniteSet(S), NEW n \in Nat
    PROVE  \E g : Sums(f, S, n, g)
<1> DEFINE Bad == {m \in Nat : ~ \E g : Sums(f, S, m, g)}
<1> SUFFICES ASSUME Bad # {} PROVE FALSE
  OBVIOUS
<1>1. PICK m \in Bad : \A j \in Bad : m <= j
  BY HasLeast
<1>2. \A T \in SUBSET S : IsFiniteSet(T) /\ Cardinality(T) \in Nat
  BY FS_Subset, FS_CardinalityType
<1>3. m # 0
  <2>1. Small(S, 0) = {{}}
    BY <1>2, FS_EmptySet DEF Small
  <2>2. Sums(f, S, 0, [T \in {{}} |-> 0])
    BY <2>1 DEF Sums
  <2> QED BY <1>1, <2>2
<1>4. m - 1 \in Nat /\ m \in Nat /\ m - 1 \notin Bad
  BY <1>1, <1>3
<1>5. PICK g : Sums(f, S, m - 1, g)
  BY <1>4
<1> DEFINE Step(T) == IF T = {} THEN 0 ELSE f[Chosen(T)] + g[T \ {Chosen(T)}]
           h == [T \in Small(S, m) |-> Step(T)]
<1>6. ASSUME NEW T \in Small(S, m), T # {}
      PROVE  T \ {Chosen(T)} \in Small(S, m - 1) /\ T \ {Chosen(T)} \in Small(S, m)
  <2>1. Chosen(T) \in T
    BY <1>6 DEF Chosen
  <2>2. T \in SUBSET S /\ Cardinality(T) <= m /\ T \ {Chosen(T)} \in SUBSET S
    BY DEF Small
  <2>3. Cardinality(T \ {Chosen(T)}) = Cardinality(T) - 1
    BY <1>2, <2>1, <2>2, FS_RemoveElement
  <2>4. Cardinality(T) \in Nat
    BY <1>2, <2>2
  <2> HIDE DEF Bad
  <2> QED BY <1>4, <2>2, <2>3, <2>4 DEF Small
<1>7. ASSUME NEW T \in Small(S, m - 1)
      PROVE  h[T] = g[T]
  <2>1. T \in Small(S, m)
    BY <1>2, <1>4 DEF Small
  <2>2. g[T] = Step(T)
    BY <1>5 DEF Sums
  <2> QED BY <2>1, <2>2
<1>8. h = [T \in Small(S, m) |-> IF T = {} THEN 0 ELSE f[Chosen(T)] + h[T \ {Chosen(T)}]]
  <2>1. ASSUME NEW T \in Small(S, m), T # {}
        PROVE  h[T \ {Chosen(T)}] = g[T \ {Chosen(T)}]
    BY <1>6, <1>7, <2>1
  <2> QED BY <2>1
<1>9. Sums(f, S, m, h)
  BY <1>8 DEF Sums
<1> QED BY <1>1, <1>9

\* The sum over a set is that without the member chosen, and its value.
LEMMA SumsAre ==
    ASSUME NEW f, NEW S, IsFiniteSet(S)
    PROVE  \E g : SumFunctionOnSet(f, S) = g[S] /\ SumRule(f, S, g)
<1>1. Small(S, Cardinality(S)) = SUBSET S
  BY FS_Subset DEF Small
<1>2. Cardinality(S) \in Nat
  BY FS_CardinalityType
<1> DEFINE All(g) == g = [T \in SUBSET S |->
                            IF T = {} THEN 0 ELSE f[Chosen(T)] + g[T \ {Chosen(T)}]]
           g == CHOOSE g : All(g)
<1>3. \E h : All(h)
  <2>1. \A h : Sums(f, S, Cardinality(S), h) => All(h)
    BY <1>1 DEF Sums
  <2>2. \E h : Sums(f, S, Cardinality(S), h)
    BY <1>2, SumsExist
  <2> HIDE DEF All
  <2> QED BY <2>1, <2>2
<1>4. All(g)
  BY <1>3, Zenon
<1>5. SumFunctionOnSet(f, S) = g[S]
  BY DEF SumFunctionOnSet, FoldFunctionOnSet, MapThenFoldSet, Chosen
<1> HIDE DEF g
<1>6. SumRule(f, S, g)
  BY <1>4 DEF SumRule
<1> QED BY <1>5, <1>6

\* Sums that follow the same rule agree, whatever larger set they are taken from.
LEMMA SumsAgree ==
    ASSUME NEW f, NEW h, NEW S, IsFiniteSet(S), \A x \in S : f[x] = h[x],
           NEW a, SumRule(f, S, a), NEW b, SumRule(h, S, b)
    PROVE  a[S] = b[S]
<1> DEFINE Bad == {n \in Nat : \E T \in SUBSET S : Cardinality(T) = n /\ a[T] # b[T]}
<1>1. \A T \in SUBSET S : IsFiniteSet(T) /\ Cardinality(T) \in Nat
  BY FS_Subset, FS_CardinalityType
<1>2. SUFFICES ASSUME Bad # {} PROVE FALSE
  <2>1. Bad = {} => Cardinality(S) \notin Bad
    OBVIOUS
  <2>2. S \in SUBSET S /\ Cardinality(S) \in Nat
    BY <1>1
  <2> QED BY <2>1, <2>2
<1>3. PICK n \in Bad : \A j \in Bad : n <= j
  BY <1>2, HasLeast
<1>4. PICK T \in SUBSET S : Cardinality(T) = n /\ a[T] # b[T]
  BY <1>3
<1>5. a[{}] = 0 /\ b[{}] = 0
  <2>1. {} \in SUBSET S
    OBVIOUS
  <2> QED BY <2>1 DEF SumRule
<1>6. T # {}
  BY <1>4, <1>5
<1>7. Chosen(T) \in T /\ f[Chosen(T)] = h[Chosen(T)]
  BY <1>6 DEF Chosen
<1> DEFINE U == T \ {Chosen(T)}
<1>8. Cardinality(U) = n - 1 /\ U \in SUBSET S
  BY <1>1, <1>4, <1>7, FS_RemoveElement
<1>9. n - 1 \in Nat /\ n - 1 \notin Bad
  BY <1>1, <1>3, <1>8
<1>10. a[U] = b[U]
  BY <1>8, <1>9
<1>11. a[T] = f[Chosen(T)] + a[U] /\ b[T] = h[Chosen(T)] + b[U]
  BY <1>6 DEF SumRule
<1> QED BY <1>4, <1>7, <1>10, <1>11

\* Over no member the sum is 0; over more, that without any of them, and its value.
LEMMA SumOne ==
    ASSUME NEW S, IsFiniteSet(S), NEW f, \A x \in S : f[x] \in Int
    PROVE  /\ SumFunctionOnSet(f, {}) = 0
           /\ SumFunctionOnSet(f, S) \in Int
           /\ \A x \in S : SumFunctionOnSet(f, S) = f[x] + SumFunctionOnSet(f, S \ {x})
<1>1. PICK g : SumFunctionOnSet(f, S) = g[S] /\ SumRule(f, S, g)
  BY SumsAre
<1>2. \A T \in SUBSET S : IsFiniteSet(T) /\ Cardinality(T) \in Nat
  BY FS_Subset, FS_CardinalityType
<1>3. ASSUME NEW T \in SUBSET S
      PROVE  SumFunctionOnSet(f, T) = g[T]
  <2>1. PICK h : SumFunctionOnSet(f, T) = h[T] /\ SumRule(f, T, h)
    BY <1>2, SumsAre, Zenon
  <2>2. SumRule(f, T, g)
    BY <1>1 DEF SumRule
  <2>3. h[T] = g[T]
    BY <1>2, <2>1, <2>2, SumsAgree, SMTT(20)
  <2> QED BY <2>1, <2>3
<1> DEFINE Good(T) == g[T] \in Int /\ \A x \in T : g[T] = f[x] + g[T \ {x}]
           Bad == {n \in Nat : \E T \in SUBSET S : Cardinality(T) = n /\ ~Good(T)}
<1>4. Bad = {}
  <2> SUFFICES ASSUME Bad # {} PROVE FALSE
    OBVIOUS
  <2>1. PICK n \in Bad : \A j \in Bad : n <= j
    BY HasLeast
  <2>2. PICK T \in SUBSET S : Cardinality(T) = n /\ ~Good(T)
    BY <2>1
  <2>3. T # {}
    <3>1. g[{}] = 0
      BY <1>1 DEF SumRule
    <3> QED BY <2>2, <3>1
  <2> DEFINE c == Chosen(T)
  <2>4. c \in T /\ g[T] = f[c] + g[T \ {c}]
    BY <1>1, <2>3 DEF Chosen, SumRule
  <2> HIDE DEF c
  <2>5. ASSUME NEW U \in SUBSET T, U # T PROVE Good(U)
    <3>1. U \in SUBSET S /\ Cardinality(U) <= n /\ Cardinality(U) # n
      BY <1>2, <2>2, <2>5, FS_Subset
    <3>2. Cardinality(U) \notin Bad
      BY <1>2, <2>1, <3>1
    <3> QED BY <1>2, <3>1, <3>2
  <2>6. ASSUME NEW x \in T, x # c PROVE g[T] = f[x] + g[T \ {x}]
    <3>1. (T \ {c}) \ {x} = (T \ {x}) \ {c}
      OBVIOUS
    <3>2. g[T \ {c}] = f[x] + g[(T \ {c}) \ {x}]
      BY <2>4, <2>5, <2>6
    <3>3. g[T \ {x}] = f[c] + g[(T \ {x}) \ {c}]
      BY <2>4, <2>5, <2>6
    <3>4. g[(T \ {x}) \ {c}] \in Int /\ f[c] \in Int /\ f[x] \in Int
      BY <2>4, <2>5, <2>6
    <3> DEFINE r == g[(T \ {x}) \ {c}]
    <3>5. g[T] = f[c] + (f[x] + r) /\ g[T \ {x}] = f[c] + r /\ r \in Int
      BY <2>4, <3>1, <3>2, <3>3, <3>4
    <3> HIDE DEF Good, Bad, r
    <3> QED BY <3>4, <3>5
  <2>7. g[T] \in Int
    BY <2>4, <2>5
  <2> QED BY <2>2, <2>4, <2>6, <2>7
<1>5. Good(S)
  <2>1. Cardinality(S) \notin Bad /\ Cardinality(S) \in Nat
    BY <1>2, <1>4
  <2> QED BY <2>1
<1>6. g[{}] = 0
  BY <1>1 DEF SumRule
<1> HIDE DEF Bad
<1> QED BY <1>1, <1>3, <1>5, <1>6

\* A sum depends on the values of the members only.
LEMMA SumSame ==
    ASSUME NEW S, IsFiniteSet(S), NEW f, NEW h, \A x \in S : f[x] = h[x]
    PROVE  SumFunctionOnSet(f, S) = SumFunctionOnSet(h, S)
<1>1. PICK a : SumFunctionOnSet(f, S) = a[S] /\ SumRule(f, S, a)
  BY SumsAre
<1>2. PICK b : SumFunctionOnSet(h, S) = b[S] /\ SumRule(h, S, b)
  BY SumsAre
<1>3. a[S] = b[S]
  BY <1>1, <1>2, SumsAgree
<1> QED BY <1>1, <1>2, <1>3
-----------------------------------------------------------------------------
(* Sequences of values each made from the one before. *)

\* f goes from a by the functions in step, n times.
Goes(f, a, step, n) == f[0] = a /\ \A i \in 1 .. n : f[i] = step[i][f[i - 1]]

\* From a first value and a function that gives the next one, there is a sequence of
\* them of any length.
LEMMA Iterated ==
    ASSUME NEW S, NEW a \in S, NEW step \in [Nat -> [S -> S]], NEW n \in Nat
    PROVE  \E f \in [0 .. n -> S] : Goes(f, a, step, n)
<1> DEFINE Good(f, m) == /\ f \in [0 .. m -> S] /\ f[0] = a
                         /\ \A i \in 1 .. m : f[i] = step[i][f[i - 1]]
           Bad == {m \in Nat : ~ \E f : Good(f, m)}
<1>1. Bad = {}
  <2> SUFFICES ASSUME Bad # {} PROVE FALSE
    OBVIOUS
  <2>1. PICK m \in Bad : \A j \in Bad : m <= j
    BY HasLeast
  <2>2. m # 0
    <3>1. Good([i \in 0 .. 0 |-> a], 0)
      OBVIOUS
    <3> QED BY <3>1, <2>1
  <2>3. m - 1 \in Nat /\ m \in Nat /\ m - 1 \notin Bad
    <3>1. m \in Nat /\ m # 0
      BY <2>2
    <3> HIDE DEF Bad
    <3> QED BY <2>1, <3>1
  <2>4. PICK f : Good(f, m - 1)
    BY <2>3
  <2> DEFINE x == step[m][f[m - 1]]
             g == [i \in 0 .. m |-> IF i = m THEN x ELSE f[i]]
  <2>5. m - 1 \in 0 .. m - 1 /\ f[m - 1] \in S /\ x \in S
    BY <2>3, <2>4
  <2>6. \A i \in 0 .. m - 1 : g[i] = f[i] /\ g[i] \in S
    BY <2>3, <2>4
  <2>7. g[m] = x /\ g \in [0 .. m -> S] /\ g[0] = a
    BY <2>2, <2>3, <2>4, <2>5
  <2>8. ASSUME NEW i \in 1 .. m PROVE g[i] = step[i][g[i - 1]]
    <3>1. i - 1 \in 0 .. m - 1 /\ (i # m => i \in 1 .. m - 1 /\ i \in 0 .. m - 1)
      BY <2>3
    <3>2. g[i - 1] = f[i - 1]
      BY <2>6, <3>1
    <3>3. CASE i = m
      BY <2>7, <3>2, <3>3
    <3>4. CASE i # m
      BY <2>4, <2>6, <3>1, <3>2, <3>4
    <3> QED BY <3>3, <3>4
  <2>9. Good(g, m)
    BY <2>7, <2>8
  <2> QED BY <2>1, <2>9
<1> QED BY <1>1 DEF Goes

\* How FlattenSeq goes through the parts, from nothing to the whole.
LEMMA FlattenSteps ==
    ASSUME NEW T, NEW ps \in Seq(Seq(T))
    PROVE  \E m \in [0 .. Len(ps) -> Seq(T)] :
              /\ m[0] = <<>> /\ m[Len(ps)] = FlattenSeq(ps)
              /\ \A i \in 1 .. Len(ps) : m[i] = m[i - 1] \o ps[i]
<1> DEFINE n == Len(ps)
           step == [i \in Nat |-> [s \in Seq(T) |-> IF i \in 1 .. n THEN s \o ps[i] ELSE <<>>]]
<1>1. n \in Nat /\ \A i \in 1 .. n : ps[i] \in Seq(T)
  BY ElementOfSeq, LenProperties
<1>2. step \in [Nat -> [Seq(T) -> Seq(T)]]
  <2> SUFFICES ASSUME NEW i \in Nat, NEW s \in Seq(T)
               PROVE  (IF i \in 1 .. n THEN s \o ps[i] ELSE <<>>) \in Seq(T)
    OBVIOUS
  <2> QED BY <1>1, ConcatProperties
<1>3. ASSUME NEW i \in 1 .. n, NEW s \in Seq(T) PROVE step[i][s] = s \o ps[i]
  <2>1. i \in Nat
    OBVIOUS
  <2> QED BY <2>1
<1>4. <<>> \in Seq(T)
  OBVIOUS
<1> HIDE DEF step
<1>5. PICK m \in [0 .. n -> Seq(T)] :
         m[0] = <<>> /\ \A i \in 1 .. n : m[i] = step[i][m[i - 1]]
  <2> HIDE DEF n
  <2>1. \E m \in [0 .. n -> Seq(T)] : Goes(m, <<>>, step, n)
    BY <1>1, <1>2, <1>4, Iterated, Zenon
  <2> QED BY <2>1 DEF Goes
<1>6. \A i \in 1 .. n : m[i] = m[i - 1] \o ps[i]
  <2> SUFFICES ASSUME NEW i \in 1 .. n PROVE m[i] = m[i - 1] \o ps[i]
    OBVIOUS
  <2>1. i - 1 \in 0 .. n
    BY <1>1
  <2>2. m[i - 1] \in Seq(T)
    BY <2>1
  <2> QED BY <1>3, <1>5, <2>2
<1>7. m[n] = FlattenSeq(ps)
  <2>1. CASE n = 0
    <3>1. ps = <<>>
      BY <2>1, EmptySeq
    <3> QED BY <1>5, <2>1, <3>1 DEF FlattenSeq
  <2>2. CASE n # 0
    <3> DEFINE All(f) == f = [i \in 1 .. Len(ps) |->
                                IF i = 1 THEN ps[i] ELSE f[i - 1] \o ps[i]]
               g == CHOOSE f : All(f)
    <3>1. \E f : All(f)
      <4> DEFINE f == [i \in 1 .. n |-> m[i]]
      <4>1. ASSUME NEW i \in 1 .. n PROVE f[i] = IF i = 1 THEN ps[i] ELSE f[i - 1] \o ps[i]
        <5>1. CASE i = 1
          <6>1. m[i - 1] = <<>>
            BY <1>5, <5>1
          <6>2. m[i] = <<>> \o ps[i]
            BY <1>6, <6>1, Zenon
          <6> QED BY <1>1, <5>1, <6>2
        <5>2. CASE i # 1
          <6>1. i - 1 \in 1 .. n
            BY <1>1, <5>2
          <6> QED BY <1>6, <5>2, <6>1
        <5> QED BY <5>1, <5>2
      <4>2. All(f)
        BY <4>1
      <4> QED BY <4>2
    <3>2. All(g)
      BY <3>1, Zenon
    <3>3. FlattenSeq(ps) = g[n]
      BY <2>2 DEF FlattenSeq
    <3> HIDE DEF g
    <3> DEFINE Bad == {i \in Nat : i \in 1 .. n /\ g[i] # m[i]}
    <3>4. Bad = {}
      <4> SUFFICES ASSUME Bad # {} PROVE FALSE
        OBVIOUS
      <4>1. PICK i \in Bad : \A j \in Bad : i <= j
        BY HasLeast
      <4>2. i \in 1 .. n /\ g[i] # m[i]
        BY <4>1
      <4>3. CASE i = 1
        <5>1. m[i - 1] = <<>>
          BY <1>5, <4>3
        <5>2. m[i] = <<>> \o ps[i]
          BY <1>6, <4>2, <5>1, Zenon
        <5>3. g[i] = ps[i]
          BY <3>2, <4>2, <4>3
        <5> QED BY <1>1, <4>2, <5>2, <5>3
      <4>4. CASE i # 1
        <5>1. i - 1 \in 1 .. n /\ i - 1 \in Nat /\ ~(i <= i - 1)
          BY <1>1, <4>2, <4>4
        <5>2. g[i - 1] = m[i - 1]
          BY <4>1, <5>1
        <5>3. g[i] = g[i - 1] \o ps[i]
          BY <3>2, <4>2, <4>4
        <5> QED BY <1>6, <4>2, <5>2, <5>3
      <4> QED BY <4>3, <4>4
    <3>5. n \in 1 .. n
      BY <1>1, <2>2
    <3> QED BY <1>1, <3>3, <3>4, <3>5
  <2> QED BY <2>1, <2>2
<1> QED BY <1>5, <1>6, <1>7

\* Parts of two elements each, one behind the other.
LEMMA PairsFlattened ==
    ASSUME NEW T, NEW ps \in Seq(Seq(T)), \A i \in 1 .. Len(ps) : Len(ps[i]) = 2
    PROVE  /\ FlattenSeq(ps) \in Seq(T) /\ Len(FlattenSeq(ps)) = 2 * Len(ps)
           /\ \A i \in 1 .. Len(ps) : /\ FlattenSeq(ps)[2 * i - 1] = ps[i][1]
                                      /\ FlattenSeq(ps)[2 * i] = ps[i][2]
<1> DEFINE n == Len(ps)
<1>1. PICK m \in [0 .. n -> Seq(T)] :
         /\ m[0] = <<>> /\ m[n] = FlattenSeq(ps)
         /\ \A i \in 1 .. n : m[i] = m[i - 1] \o ps[i]
  BY FlattenSteps
<1> DEFINE Good(k) == /\ Len(m[k]) = 2 * k
                      /\ \A i \in 1 .. k : m[k][2 * i - 1] = ps[i][1] /\ m[k][2 * i] = ps[i][2]
           Bad == {k \in Nat : k \in 0 .. n /\ ~Good(k)}
<1>2. n \in Nat /\ \A i \in 1 .. n : ps[i] \in Seq(T) /\ Len(ps[i]) = 2
  BY ElementOfSeq, LenProperties
<1>3. Bad = {}
  <2> SUFFICES ASSUME Bad # {} PROVE FALSE
    OBVIOUS
  <2>1. PICK k \in Bad : \A j \in Bad : k <= j
    BY HasLeast
  <2>2. k \in 0 .. n /\ ~Good(k) /\ k \in Nat
    BY <2>1
  <2>3. k # 0
    BY <1>1, <2>2
  <2>4. k \in 1 .. n /\ k - 1 \in 0 .. n /\ k - 1 \in Nat /\ ~(k <= k - 1)
    BY <1>2, <2>2, <2>3
  <2>5. Good(k - 1)
    BY <2>1, <2>4
  <2> DEFINE a == m[k - 1]
             b == ps[k]
  <2>6. a \in Seq(T) /\ b \in Seq(T) /\ Len(a) = 2 * (k - 1) /\ Len(b) = 2
    BY <1>2, <2>4, <2>5
  <2>7. m[k] = a \o b
    BY <1>1, <2>4
  <2>8. \A i \in 1 .. k - 1 : a[2 * i - 1] = ps[i][1] /\ a[2 * i] = ps[i][2]
    BY <2>5
  <2> HIDE DEF a, b, Bad, Good, n
  <2>9. /\ Len(a \o b) = Len(a) + Len(b)
        /\ \A i \in 1 .. Len(a) : (a \o b)[i] = a[i]
        /\ \A i \in 1 .. Len(b) : (a \o b)[Len(a) + i] = b[i]
    <3>1. /\ Len(a \o b) = Len(a) + Len(b)
          /\ \A i \in 1 .. Len(a) + Len(b) :
                (a \o b)[i] = IF i <= Len(a) THEN a[i] ELSE b[i - Len(a)]
      BY <2>6, ConcatProperties, Zenon
    <3>2. Len(a) \in Nat /\ Len(b) \in Nat
      BY <2>6, LenProperties
    <3>3. \A i \in 1 .. Len(b) : /\ Len(a) + i \in 1 .. Len(a) + Len(b)
                                 /\ ~(Len(a) + i <= Len(a)) /\ Len(a) + i - Len(a) = i
      BY <3>2
    <3> QED BY <3>1, <3>2, <3>3
  <2>10. Len(m[k]) = 2 * k
    BY <2>4, <2>6, <2>7, <2>9
  <2>11. ASSUME NEW i \in 1 .. k
         PROVE  m[k][2 * i - 1] = ps[i][1] /\ m[k][2 * i] = ps[i][2]
    <3>1. CASE i = k
      <4>1. 2 * i - 1 = Len(a) + 1 /\ 2 * i = Len(a) + 2 /\ 1 \in 1 .. Len(b) /\ 2 \in 1 .. Len(b)
        BY <2>4, <2>6, <3>1
      <4>2. m[k][2 * i - 1] = b[1] /\ m[k][2 * i] = b[2]
        BY <2>7, <2>9, <4>1
      <4> QED BY <3>1, <4>2 DEF b
    <3>2. CASE i # k
      <4>1. i \in 1 .. k - 1 /\ 2 * i - 1 \in 1 .. Len(a) /\ 2 * i \in 1 .. Len(a)
        BY <2>4, <2>6, <3>2
      <4> QED BY <2>7, <2>8, <2>9, <4>1
    <3> QED BY <3>1, <3>2
  <2>12. Good(k)
    BY <2>10, <2>11 DEF Good
  <2> QED BY <2>2, <2>12
<1>4. Good(n)
  <2>1. n \in 0 .. n /\ n \in Nat
    BY <1>2
  <2> HIDE DEF Good
  <2> QED BY <1>3, <2>1
<1> QED BY <1>1, <1>4, SMTT(20)

\* Whatever lies before i in D decides the value at i.
Founded(D, S, step) ==
    /\ D \subseteq Nat
    /\ step \in [D -> [[D -> S] -> S]]
    /\ \A i \in D : \A f, g \in [D -> S] :
          (\A j \in D : j < i => f[j] = g[j]) => step[i][f] = step[i][g]

\* A function whose values are each made from those before it: a recursive definition
\* has such a function to choose.
LEMMA Recursion ==
    ASSUME NEW D, NEW S, S # {}, NEW step, Founded(D, S, step)
    PROVE  \E f \in [D -> S] : \A i \in D : f[i] = step[i][f]
<1> DEFINE Good(f, m) == f \in [D -> S] /\ \A i \in D : i < m => f[i] = step[i][f]
           Bad == {m \in Nat : ~ \E f : Good(f, m)}
<1>0. /\ D \subseteq Nat /\ \A i \in D : \A f \in [D -> S] : step[i][f] \in S
      /\ \A i \in D : \A f, g \in [D -> S] :
            (\A j \in D : j < i => f[j] = g[j]) => step[i][f] = step[i][g]
  BY DEF Founded
<1>1. Bad = {}
  <2> SUFFICES ASSUME Bad # {} PROVE FALSE
    OBVIOUS
  <2>1. PICK m \in Bad : \A j \in Bad : m <= j
    BY HasLeast
  <2>2. m # 0
    <3>1. PICK s \in S : TRUE
      OBVIOUS
    <3>2. Good([i \in D |-> s], 0)
      BY <1>0
    <3> QED BY <3>2, <2>1
  <2>3. m - 1 \in Nat /\ m \in Nat /\ m - 1 \notin Bad
    <3>1. m \in Nat /\ m # 0
      BY <2>2
    <3> HIDE DEF Bad
    <3> QED BY <2>1, <3>1
  <2>4. PICK f : Good(f, m - 1)
    BY <2>3
  <2> DEFINE g == [f EXCEPT ![m - 1] = step[m - 1][f]]
  <2>5. g \in [D -> S]
    BY <1>0, <2>4
  <2>6. ASSUME NEW i \in D, i < m PROVE g[i] = step[i][g]
    <3>1. \A j \in D : j < i => f[j] = g[j]
      BY <1>0, <2>3, <2>4, <2>6
    <3>2. step[i][f] = step[i][g]
      <4> HIDE DEF g
      <4> QED BY <1>0, <2>4, <2>5, <3>1
    <3>3. CASE i = m - 1
      BY <2>4, <3>2, <3>3
    <3>4. CASE i # m - 1
      <4>1. i < m - 1 /\ g[i] = f[i]
        BY <1>0, <2>3, <2>4, <2>6, <3>4
      <4> QED BY <2>4, <3>2, <4>1
    <3> QED BY <3>3, <3>4
  <2>7. Good(g, m)
    <3> HIDE DEF g
    <3> QED BY <2>5, <2>6
  <2>8. m \notin Bad
    <3> HIDE DEF Good
    <3> QED BY <2>7
  <2> QED BY <2>8
<1>2. ASSUME NEW m \in Nat, NEW f, NEW g, Good(f, m), Good(g, m), NEW i \in D, i < m
      PROVE  f[i] = g[i]
  <2> DEFINE Off == {j \in Nat : j \in D /\ j < m /\ f[j] # g[j]}
  <2>1. Off = {}
    <3> SUFFICES ASSUME Off # {} PROVE FALSE
      OBVIOUS
    <3>1. PICK j \in Off : \A k \in Off : j <= k
      BY HasLeast
    <3>2. j \in D /\ j \in Nat /\ j < m /\ f[j] # g[j]
      BY <3>1
    <3>3. \A k \in D : k < j => f[k] = g[k]
      BY <1>0, <3>1, <3>2
    <3>4. step[j][f] = step[j][g]
      BY <1>0, <1>2, <3>2, <3>3, Zenon
    <3> QED BY <1>2, <3>2, <3>4
  <2> QED BY <1>0, <1>2, <2>1
<1> DEFINE at(i) == CHOOSE f : Good(f, i + 1)
           h == [i \in D |-> at(i)[i]]
<1>3. ASSUME NEW i \in D PROVE Good(at(i), i + 1)
  <2>1. i + 1 \in Nat /\ i + 1 \notin Bad
    <3> HIDE DEF Bad
    <3> QED BY <1>0, <1>1
  <2>2. \E f : Good(f, i + 1)
    BY <2>1
  <2> HIDE DEF Good
  <2> QED BY <2>2
<1>4. h \in [D -> S]
  <2> SUFFICES ASSUME NEW i \in D PROVE at(i)[i] \in S
    OBVIOUS
  <2> HIDE DEF at
  <2> QED BY <1>3
<1>5. ASSUME NEW i \in D PROVE h[i] = step[i][h]
  <2> DEFINE f == at(i)
  <2>1. Good(f, i + 1) /\ i \in Nat /\ i + 1 \in Nat
    BY <1>0, <1>3
  <2>2. h[i] = f[i]
    OBVIOUS
  <2>3. ASSUME NEW j \in D, j < i PROVE f[j] = h[j]
    <3>1. Good(at(j), j + 1) /\ j \in Nat /\ h[j] = at(j)[j]
      BY <1>0, <1>3
    <3> HIDE DEF at, f, h
    <3>2. Good(f, j + 1)
      BY <1>0, <2>1, <2>3, <3>1
    <3>3. j + 1 \in Nat /\ j < j + 1
      BY <3>1
    <3> HIDE DEF Good
    <3>4. f[j] = at(j)[j]
      BY <1>2, <3>1, <3>2, <3>3
    <3> QED BY <3>1, <3>4
  <2> HIDE DEF at, f, h
  <2>4. i < i + 1
    BY <2>1
  <2>5. f \in [D -> S] /\ f[i] = step[i][f]
    BY <2>1, <2>4
  <2>6. step[i][f] = step[i][h]
    BY <1>0, <1>4, <2>3, <2>5, Zenon
  <2> QED BY <2>2, <2>5, <2>6
<1> HIDE DEF at, h
<1> QED BY <1>4, <1>5

\* Up to n, from 0 on.
LEMMA Upward ==
    ASSUME NEW n \in Nat, NEW Good, 0 \in Good, \A k \in 1 .. n : k - 1 \in Good => k \in Good
    PROVE  \A k \in 0 .. n : k \in Good
<1> DEFINE Bad == {k \in Nat : k \in 0 .. n /\ k \notin Good}
<1> SUFFICES ASSUME Bad # {} PROVE FALSE
  OBVIOUS
<1>1. PICK k \in Bad : \A j \in Bad : k <= j
  BY HasLeast
<1>2. k \in 0 .. n /\ k \notin Good
  BY <1>1
<1>3. k # 0
  BY <1>2
<1>4. k \in 1 .. n /\ k - 1 \in 0 .. n /\ k - 1 \in Nat /\ ~(k <= k - 1)
  BY <1>2, <1>3
<1>5. k - 1 \in Good
  BY <1>1, <1>4
<1> QED BY <1>2, <1>4, <1>5

\* f is a value and n more, each made by step from the one before.
Looped(f, a, step, n) == f[0] = a /\ \A i \in 1 .. n : f[i] = step[f[i - 1]]

\* From a first value and a function that gives the next one, n values more.
LEMMA TurnsFollow ==
    ASSUME NEW S, NEW a \in S, NEW step \in [S -> S], NEW n \in Nat
    PROVE  \E f \in [0 .. n -> S] : Looped(f, a, step, n)
<1> DEFINE steps == [i \in Nat |-> step]
<1>1. steps \in [Nat -> [S -> S]]
  OBVIOUS
<1>2. \A i \in 1 .. n : steps[i] = step
  OBVIOUS
<1> HIDE DEF steps
<1>3. \E f \in [0 .. n -> S] : Goes(f, a, steps, n)
  BY <1>1, Iterated, Zenon
<1>4. PICK f \in [0 .. n -> S] : Goes(f, a, steps, n)
  BY <1>3
<1> QED BY <1>2, <1>4 DEF Goes, Looped

\* Concatenation of a, b and c may be grouped either way.
Regroups(a, b, c) == (a \o b) \o c = a \o (b \o c)

\* Concatenation of three, either way round.
LEMMA Regroup ==
    ASSUME NEW S, NEW a \in Seq(S), NEW b \in Seq(S), NEW c \in Seq(S)
    PROVE  Regroups(a, b, c)
BY ConcatAssociative DEF Regroups
=============================================================================

---------------------------- MODULE StringEngine ----------------------------
(***************************************************************************)
(* string.c: a growing buffer of bytes that is also a C string, and the    *)
(* operations that work in place on it, each beside a definition of what   *)
(* it should give (the Wanted operators and the ghost want).               *)
(*                                                                         *)
(*  - data is data[0] .. data[len]: the text and the byte behind it.  The  *)
(*    bytes from there to the capacity hold leftovers and are not tracked. *)
(*  - An argument is a C string of the program, or the string's own data.  *)
(*  - A call that fails for want of memory before it changed anything is   *)
(*    no step; string_replace may fail half way.                           *)
(*  - Positions and lengths are size_t: a sum or a product of two wraps.   *)
(*    Not asked for is a capacity string_ensure_capacity never reaches, in *)
(*    whose search (string.c:128) the doubling wraps to 0 and goes on.     *)
(*  - Where int and long run over, which C leaves undefined, the usual     *)
(*    builds' two's complement is taken.                                   *)
(*  - When the code leaves the buffer, or reads one it has freed, what     *)
(*    follows is undefined: outcome says so and the run stops there.       *)
(***************************************************************************)
EXTENDS Integers, FiniteSets, SequencesExt

CONSTANTS
    Chars, NUL,
    Spaces,             \* blank, tab, newline, return
    UpperOf, LowerOf,   \* what the case operations make of a character
    MIN_CAPACITY,       \* 16
    INT_MAX, LONG_MAX, SIZE_MAX,
    MaxLength,          \* bound: no text longer than this is built
    MaxPattern          \* bound: length of the arguments

ASSUME CharsAssumption ==
    /\ NUL \notin Chars /\ Spaces \subseteq Chars
    /\ UpperOf \in [Chars -> Chars] /\ LowerOf \in [Chars -> Chars]

ASSUME SizesAssumption ==
    /\ MIN_CAPACITY \in Nat \ {0} /\ MaxLength \in Nat /\ MaxPattern \in Nat
    /\ INT_MAX \in Nat /\ LONG_MAX \in Nat /\ SIZE_MAX \in Nat
    /\ MaxLength <= SIZE_MAX /\ MaxPattern <= SIZE_MAX

Patterns == UNION {[1 .. n -> Chars] : n \in 0 .. MaxPattern}

VARIABLES
    data, capacity,
    ret,        \* what the last call gave: [of, n, parts, by]
    want,       \* ghost: the text and the parts there should be
    outcome     \* "defined" or "undefined"

string_vars == <<data, capacity, ret, want, outcome>>

len == Len(data) - 1
Text == SubSeq(data, 1, len)

Nothing == [of |-> "", n |-> 0, parts |-> <<>>, by |-> <<>>]

\* string_ensure_capacity: doubled until it is enough.
Enough(required) ==
    LET doubled[k \in 0 .. MaxLength] == IF k = 0 THEN capacity ELSE 2 * doubled[k - 1]
        enough == {k \in 0 .. MaxLength : required <= doubled[k]}
    IN  doubled[CHOOSE k \in enough : \A j \in enough : k <= j]

\* The text becomes t, ended by a zero byte; w is what it should become.
Gives(t, w, r, wanted) ==
    /\ Len(t) <= MaxLength
    /\ data' = Append(t, NUL)
    /\ capacity' = Enough(Len(t))
    /\ want' = [text |-> w, parts |-> wanted]
    /\ ret' = r
    /\ UNCHANGED outcome

Becomes(t, w) == Gives(t, w, Nothing, <<>>)

Undefined ==
    /\ outcome' = "undefined"
    /\ ret' = Nothing
    /\ UNCHANGED <<data, capacity, want>>

---------------------------------------------------------------------------
(* Adding and taking away                                                  *)

\* string_append, string_append_n, string_append_char.
string_append(str) == Becomes(Text \o str, Text \o str)

\* The string's own data: growing frees it before it is copied.
AppendOwn ==
    IF 2 * len <= capacity THEN string_append(Text)
    ELSE 2 * len <= MaxLength /\ Undefined

Inserted(t, pos, str) == SubSeq(t, 1, pos) \o str \o SubSeq(t, pos + 1, Len(t))

At(t, i, d) == i + Len(d) <= Len(t) /\ SubSeq(t, i + 1, i + Len(d)) = d

string_insert(pos, str) ==
    LET at == IF pos > len THEN len ELSE pos
    IN  Becomes(Inserted(Text, at, str), Inserted(Text, at, str))

\* The string's own data, copied byte by byte into the gap made in it: from the
\* position on, the copy reads what it has just written.
InsertOwn(pos) ==
    LET at == IF pos > len THEN len ELSE pos
        copied == [i \in 1 .. len |-> IF at = 0 THEN Text[i] ELSE Text[((i - 1) % at) + 1]]
    IN  IF 2 * len <= capacity
        THEN Gives(Inserted(Text, at, copied), Inserted(Text, at, Text),
                   [Nothing EXCEPT !.of = IF copied = Text THEN "" ELSE "smear"], <<>>)
        ELSE 2 * len <= MaxLength /\ Undefined

\* Two sizes added, in the bits of one.
Sum(a, b) == IF a + b > SIZE_MAX THEN a + b - SIZE_MAX - 1 ELSE a + b

\* Where the end of the range runs over SIZE_MAX it comes before the start, and what is
\* moved down to the start is moved up: the text grows in the buffer there is.
string_remove(start, n) ==
    LET end == Sum(start, n)
        t == SubSeq(Text, 1, start) \o SubSeq(Text, 1 + IF end > len THEN len ELSE end, len)
        w == SubSeq(Text, 1, start) \o SubSeq(Text, start + n + 1, len)
    IN  /\ start < len
        /\ IF Len(t) > capacity THEN Undefined
           ELSE Gives(t, w, IF end < start THEN [Nothing EXCEPT !.of = "wrapped", !.by = Text]
                            ELSE Nothing, <<>>)

string_clear == Becomes(<<>>, <<>>)

---------------------------------------------------------------------------
(* string_replace                                                          *)

\* The text with the characters from pos on that `from` takes replaced by `to`.
Replaced(t, pos, from, to) ==
    SubSeq(t, 1, pos) \o to \o SubSeq(t, pos + Len(from) + 1, Len(t))

\* Mutant: the new length forgets the replacement.
TurnForgets(s, from, to, room) ==
    IF s.ends # "" THEN s
    ELSE IF Len(s.text) < Len(from) THEN [s EXCEPT !.ends = "outside"]
    ELSE IF s.pos > Len(s.text) - Len(from) THEN [s EXCEPT !.ends = "inside"]
    ELSE IF ~At(s.text, s.pos, from) THEN [s EXCEPT !.pos = s.pos + 1]
    ELSE [text |-> SubSeq(Replaced(s.text, s.pos, from, to), 1, Len(s.text) - Len(from)),
          pos |-> s.pos + Len(to), n |-> s.n + 1, ends |-> ""]

\* One turn of the loop: pos walks while pos <= len - from_len, a difference without a
\* sign.  room is how far the buffer can grow.
ReplaceTurn(s, from, to, room) ==
    IF s.ends # "" THEN s
    ELSE IF Len(s.text) < Len(from) THEN [s EXCEPT !.ends = "outside"]
    ELSE IF s.pos > Len(s.text) - Len(from) THEN [s EXCEPT !.ends = "inside"]
    ELSE IF ~At(s.text, s.pos, from) THEN [s EXCEPT !.pos = s.pos + 1]
    ELSE IF Len(to) > Len(from) /\ Len(s.text) + Len(to) - Len(from) > room
         THEN [s EXCEPT !.ends = "inside"]
    ELSE [text |-> Replaced(s.text, s.pos, from, to),
          pos |-> s.pos + Len(to), n |-> s.n + 1, ends |-> ""]

\* All of them: each leaves less of the text behind pos, and the last one only stops.
ReplaceLoop(t, from, to, room) ==
    LET turn[k \in 0 .. Len(t) + 1] ==
            IF k = 0 THEN [text |-> t, pos |-> 0, n |-> 0, ends |-> ""]
            ELSE ReplaceTurn(turn[k - 1], from, to, room)
    IN  turn[Len(t) + 1]

\* What should come of the last k characters of the text, when `most` more occurrences,
\* from the left, are replaced.
WantedReplace(t, from, to) ==
    LET wanted[k \in 0 .. Len(t)] ==
            [most \in 0 .. Len(t) |->
                IF k = 0 \/ most = 0 THEN SubSeq(t, Len(t) - k + 1, Len(t))
                ELSE IF At(t, Len(t) - k, from) THEN to \o wanted[k - Len(from)][most - 1]
                ELSE <<t[Len(t) - k + 1]>> \o wanted[k - 1][most]]
    IN  wanted[Len(t)]

\* Growing fails at the first time, at a later one, or not at all.
string_replace(from, to) ==
    /\ from # <<>>
    /\ Len(WantedReplace(Text, from, to)[len]) <= MaxLength
    /\ \E most \in IF Len(to) > Len(from) THEN 0 .. MaxLength ELSE {MaxLength} :
          LET room == Enough(most)
              r == ReplaceLoop(Text, from, to, room)
              told == [Nothing EXCEPT !.of = "replace", !.n = r.n, !.by = from]
              all == WantedReplace(Text, from, to)
              wanted == all[IF Len(all[len]) <= room THEN len ELSE r.n]
          IN  IF r.ends = "inside" THEN Gives(r.text, wanted, told, <<>>)
              ELSE /\ outcome' = "undefined"
                   /\ ret' = told
                   /\ want' = [text |-> wanted, parts |-> <<>>]
                   /\ UNCHANGED <<data, capacity>>

---------------------------------------------------------------------------
(* Whole-text operations                                                   *)

TrimLeft(t) == SubSeq(t, 1 + Cardinality({i \in DOMAIN t : \A j \in 1 .. i : t[j] \in Spaces}), Len(t))

TrimRight(t) ==
    SubSeq(t, 1, Len(t) - Cardinality({i \in DOMAIN t : \A j \in i .. Len(t) : t[j] \in Spaces}))

\* The part from the first to the last character that is no space.
WantedTrim(t) ==
    LET ink == {i \in DOMAIN t : t[i] \notin Spaces}
    IN  IF ink = {} THEN <<>>
        ELSE SubSeq(t, CHOOSE i \in ink : \A j \in ink : i <= j,
                       CHOOSE i \in ink : \A j \in ink : i >= j)

string_trim == Becomes(TrimRight(TrimLeft(Text)), WantedTrim(Text))

string_to_uppercase == LET t == [i \in 1 .. len |-> UpperOf[data[i]]] IN Becomes(t, t)

string_to_lowercase == LET t == [i \in 1 .. len |-> LowerOf[data[i]]] IN Becomes(t, t)

\* left and right meet in the middle; they are counted from 0.
Swapped(t) ==
    LET turn[k \in 0 .. Len(t)] ==
            IF k = 0 THEN t
            ELSE LET left == k - 1
                     right == Len(t) - k
                 IN  IF left < right
                     THEN [turn[k - 1] EXCEPT ![left + 1] = turn[k - 1][right + 1],
                                              ![right + 1] = turn[k - 1][left + 1]]
                     ELSE turn[k - 1]
    IN  turn[Len(t)]

\* The last position of the empty text is the largest number there is.
string_reverse ==
    IF len = 0 THEN Undefined ELSE Becomes(Swapped(Text), Reverse(Text))

\* A product that runs over SIZE_MAX asks for less than the copies need.
string_repeat(n) ==
    /\ n >= 2
    /\ IF len * n > SIZE_MAX THEN (len * n) % (SIZE_MAX + 1) <= MaxLength /\ Undefined
       ELSE LET copies == FlattenSeq([i \in 1 .. n |-> Text]) IN Becomes(copies, copies)

Pad(n, c) == [i \in 1 .. n |-> c]

string_pad_left(width, c) == len < width /\ Becomes(Pad(width - len, c) \o Text, Pad(width - len, c) \o Text)

string_pad_right(width, c) == len < width /\ Becomes(Text \o Pad(width - len, c), Text \o Pad(width - len, c))

---------------------------------------------------------------------------
(* string_split_str, and string_split, whose delimiter is one character    *)

\* The part that ends at i is put behind the others; the next one begins at start.
PartEnds(s, t, start) ==
    [i |-> start, start |-> start, parts |-> Append(s.parts, SubSeq(t, s.start + 1, s.i))]

\* Mutant: the next part begins one character behind the delimiter's first.
SplitTurnShort(s, t, d) ==
    IF s.i > Len(t) THEN s
    ELSE IF At(t, s.i, d) \/ s.i = Len(t) THEN PartEnds(s, t, s.i + 1)
    ELSE [s EXCEPT !.i = s.i + 1]

\* One turn: one part ends at each delimiter the scan meets, and one at the end.
SplitTurn(s, t, d) ==
    IF s.i > Len(t) THEN s
    ELSE IF At(t, s.i, d) THEN PartEnds(s, t, s.i + Len(d))
    ELSE IF s.i = Len(t) THEN PartEnds(s, t, s.i + 1)
    ELSE [s EXCEPT !.i = s.i + 1]

PartsOf(t, d) ==
    LET turn[k \in 0 .. Len(t) + 1] ==
            IF k = 0 THEN [i |-> 0, start |-> 0, parts |-> <<>>]
            ELSE SplitTurn(turn[k - 1], t, d)
    IN  turn[Len(t) + 1].parts

\* Every place the delimiter stands at is counted, also within another.
string_split_str(d) ==
    LET parts == PartsOf(Text, d)
    IN  /\ d # <<>>
        /\ Gives(Text, Text,
                 [of |-> "split", n |-> 1 + Cardinality({i \in 0 .. len : At(Text, i, d)}),
                  parts |-> parts, by |-> d],
                 parts)

\* Where the end runs over SIZE_MAX the copy goes on past the text, if there is a string
\* to copy to: none is made of no bytes at all.
string_substring(start, n) ==
    LET end == Sum(start, n)
        to == IF end > len THEN len ELSE end
    IN  IF start < len /\ end < start THEN Sum(n, 2) # 0 /\ Undefined
        ELSE Gives(Text, Text,
                   [of |-> "substring", n |-> 1, by |-> <<>>,
                    parts |-> <<IF start >= len THEN <<>> ELSE SubSeq(Text, start + 1, to)>>],
                   <<SubSeq(Text, start + 1, IF start + n > len THEN len ELSE start + n)>>)

\* string_find: the first place, counted from 0, or -1.  It compares the lengths first.
string_find(substr) ==
    LET places == {i \in 0 .. len - Len(substr) : At(Text, i, substr)}
    IN  IF substr = <<>> \/ Len(substr) > len \/ places = {} THEN -1
        ELSE CHOOSE i \in places : \A j \in places : i <= j

\* string_join, of the parts a split gave.
string_join(parts, separator) ==
    LET joined[i \in 1 .. Len(parts)] ==
            IF i = 1 THEN parts[1] ELSE joined[i - 1] \o separator \o parts[i]
    IN  joined[Len(parts)]

---------------------------------------------------------------------------
(* Numbers: a text of the digits 0 .. 9 and the sign in front of them      *)

Minus == -1
Plus == -2

Low(v, max) == ((v + max + 1) % (2 * max + 2)) - max - 1
Signed(max) == -max - 1 .. max

Digits[v \in Nat] == IF v = 0 THEN <<>> ELSE Append(Digits[v \div 10], v % 10)

\* int_to_string_impl; the smallest number has no opposite, and the loop that takes
\* the digits makes no turn for it.
string_from_long(value) ==
    LET positive == IF value < 0 THEN Low(-value, LONG_MAX) ELSE value
    IN  (IF value < 0 THEN <<Minus>> ELSE <<>>) \o
        (IF positive = 0 THEN <<0>> ELSE IF positive < 0 THEN <<>> ELSE Digits[positive])

Numeral(t) == IF t # <<>> /\ t[1] \in {Minus, Plus} THEN Tail(t) ELSE t

\* parse_int, behind string_to_int, string_to_long and string_to_double, counts in int.
ReadDigits(digits) ==
    LET result[i \in 0 .. Len(digits)] ==
            IF i = 0 THEN 0 ELSE Low(result[i - 1] * 10 + digits[i], INT_MAX)
    IN  result[Len(digits)]

\* Mutant: the sign is taken off and forgotten.
ToLongUnsigned(t) ==
    IF Numeral(t) = <<>> THEN [ok |-> FALSE] ELSE [ok |-> TRUE, value |-> ReadDigits(Numeral(t))]

string_to_long(t) ==
    IF Numeral(t) = <<>> THEN [ok |-> FALSE]
    ELSE LET result == ReadDigits(Numeral(t))
         IN  [ok |-> TRUE, value |-> IF t[1] = Minus THEN Low(-result, INT_MAX) ELSE result]

\* A number is written into a string of its own.  Bound: only while this one is empty,
\* which makes no difference to either.
NumberWritten(v) ==
    /\ len = 0
    /\ ret' = [of |-> "number", n |-> v, parts |-> <<string_from_long(v)>>, by |-> <<>>]
    /\ UNCHANGED <<data, capacity, want, outcome>>

---------------------------------------------------------------------------
string_new(str) ==
    /\ data = Append(str, NUL)
    /\ capacity = IF Len(str) < MIN_CAPACITY THEN MIN_CAPACITY ELSE 2 * Len(str)

StringInit ==
    /\ \E str \in Patterns : string_new(str)
    /\ ret = Nothing
    /\ want = [text |-> Text, parts |-> <<>>]
    /\ outcome = "defined"

StringNext ==
    /\ outcome = "defined"
    /\ \/ \E str \in Patterns :
             \/ string_append(str)
             \/ \E pos \in 0 .. len + 1 : string_insert(pos, str)
             \/ \E to \in Patterns : string_replace(str, to)
             \/ string_split_str(str)
       \/ AppendOwn
       \/ \E pos \in 0 .. len + 1 : InsertOwn(pos)
       \/ \E start \in 0 .. len, n \in 0 .. SIZE_MAX :
             string_remove(start, n) \/ string_substring(start, n)
       \/ string_clear
       \/ \E v \in Signed(LONG_MAX) : NumberWritten(v)
       \/ string_trim
       \/ string_to_uppercase
       \/ string_to_lowercase
       \/ string_reverse
       \/ \E n \in 2 .. SIZE_MAX : string_repeat(n)
       \/ \E width \in 0 .. MaxLength, c \in Chars : string_pad_left(width, c) \/ string_pad_right(width, c)

StringSpec == StringInit /\ [][StringNext]_string_vars

---------------------------------------------------------------------------
(* Properties                                                              *)

\* A delimiter that can begin again before it has ended.
Overlaps(d) == \E k \in 1 .. Len(d) - 1 : SubSeq(d, 1, k) = SubSeq(d, Len(d) - k + 1, Len(d))

\* Until a call leaves the buffer or reads one it has freed: what string_validate asks for,
\* the text ends in the one zero byte and fits the buffer.  And it is the text the calls
\* describe, with two exceptions: the own data inserted in its own middle, where the copy
\* reads what it has written, and a removal whose end runs over SIZE_MAX, which keeps what
\* it should but makes the text longer than it was (string.c:191).  The parts of a split,
\* joined, give the text back, none holds the delimiter, and there are as many as the
\* caller is told unless the delimiter overlaps itself; string_find agrees with where
\* the first part ends; a substring is the part asked for that there is (string.h:362).
TextAsPromised ==
    outcome = "defined" =>
        /\ data[len + 1] = NUL /\ \A i \in 1 .. len : data[i] \in Chars
        /\ len <= capacity
        /\ ret.of \notin {"smear", "wrapped"} => Text = want.text
        /\ ret.of = "wrapped" => Len(Text) > Len(ret.by) /\ IsPrefix(want.text, Text)
        /\ ret.of = "split" =>
              /\ string_join(ret.parts, ret.by) = Text
              /\ \A i \in DOMAIN ret.parts : \A j \in 0 .. len : ~At(ret.parts[i], j, ret.by)
              /\ ret.n >= Len(ret.parts)
              /\ Overlaps(ret.by) \/ ret.n = Len(ret.parts)
              /\ string_find(ret.by) = IF Len(ret.parts) = 1 THEN -1 ELSE Len(ret.parts[1])
        /\ ret.of = "substring" => ret.parts = want.parts

\* string_replace leaves the buffer exactly when the text it should end with is shorter
\* than what it looks for: the loop compares with a difference that has no sign.
ReplaceStaysInside ==
    ret.of = "replace" =>
        (outcome = "undefined" <=> Len(want.text) < Len(ret.by))

\* A long written as text and read back is the int of its low bits, however many digits
\* the reading has run over; only the smallest long is written as no number at all.
NumbersComeBack ==
    ret.of = "number" =>
        string_to_long(ret.parts[1]) =
            IF ret.n = -LONG_MAX - 1 THEN [ok |-> FALSE]
            ELSE [ok |-> TRUE, value |-> Low(ret.n, INT_MAX)]
=============================================================================

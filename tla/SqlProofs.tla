------------------------------ MODULE SqlProofs ------------------------------
(***************************************************************************)
(* Proofs about SqlParser and SqlEngine.                                   *)
(*                                                                         *)
(*  - Parser: ParseInv, its inductive invariant, says where the cursor can *)
(*    be, what the statement is made of, and why a terminator is passed:   *)
(*    an INSERT has come to the loop of its columns through a parenthesis  *)
(*    that is not closed before the terminator.                            *)
(*  - Statements: while the text is a statement in its written form, of    *)
(*    any length, FormsRead says at which item the cursor is and what is   *)
(*    read by then; the statement at the end is what is written.           *)
(*  - Rows: the scan of DELETE, from the last row to the first, with the   *)
(*    invariant LeftAt of its turns.                                       *)
(*  - Engine: EngineInv adds the tables.  Every row is as wide as its      *)
(*    table, no two tables have a name in common, and the columns of a     *)
(*    table are apart while statements are plain.                          *)
(*  - With it every DELETE and UPDATE leaves the other rows alone, and     *)
(*    while statements are plain the tables are relations.                 *)
(*                                                                         *)
(* TextsAssumption and FormsAssumption (SqlParser) are the assumptions.    *)
(***************************************************************************)
EXTENDS SqlEngine, SequenceLemmas

\* What a text is made of once it is in memory.
Lexemes == Words \cup Delimiters \cup {NUL}

Statement ==
    [type : Kinds \cup {"UNKNOWN", NULL}, table : Words \cup {"", NULL},
     columns : Seq(Words), values : Seq(Words),
     where_clause : Seq(Words \cup Delimiters) \cup {NULL}]

\* A parenthesis opens at i and is not closed before n.
OpenFrom(i, n) == text[i] = "(" /\ \A j \in i .. n - 1 : text[j] # ")"

ParseInv ==
    /\ text \in Seq(Lexemes)
    /\ pos \in Nat \ {0} /\ pos <= Len(text) + 2
    /\ at \in Heads \cup Loops => pos <= Len(text) + 1
    /\ at \in {"idle", "done"} \cup Heads \cup Loops
    /\ stmt \in Statement
    /\ at \in {"INSERT", "columns"} => stmt.type = "INSERT"
    /\ at \in {"select", "UPDATE", "set", "DELETE"} => stmt.type # "INSERT"
    /\ at = "columns" => \E i \in 1 .. pos - 1 : OpenFrom(i, pos)
    /\ \A n \in 1 .. Len(text) : text[n] = NUL =>
          /\ stmt.type = "INSERT" /\ at \notin {"INSERT", "columns"}
          /\ \E i \in 1 .. n - 1 : OpenFrom(i, n)
-----------------------------------------------------------------------------
(* Tokens. *)

\* At, of any text.
Glyph(t, p) == IF p <= Len(t) THEN t[p] ELSE NUL

\* The spaces from p on end, at the end of the text if not before (sql_parser.c:32).
LEMMA SpacesEnd ==
    ASSUME NEW S, NEW t \in Seq(S), NEW p \in Nat \ {0}
    PROVE  \E q \in p .. p + Len(t) :
              Glyph(t, q) # SPACE /\ \A r \in p .. q - 1 : Glyph(t, r) = SPACE
<1> DEFINE Ends == {q \in p .. p + Len(t) : Glyph(t, q) # SPACE}
<1>1. Len(t) \in Nat
  OBVIOUS
<1>2. p + Len(t) \in Ends
  BY <1>1 DEF Glyph, NUL, SPACE
<1>3. Ends \subseteq Nat /\ Ends # {}
  BY <1>1, <1>2
<1>4. PICK q \in Ends : \A r \in Ends : q <= r
  BY <1>3, HasLeast
<1>5. q \in p .. p + Len(t) /\ Glyph(t, q) # SPACE
  BY <1>4
<1>6. ASSUME NEW r \in p .. q - 1 PROVE Glyph(t, r) = SPACE
  <2>1. r \in p .. p + Len(t) /\ ~(q <= r)
    BY <1>1, <1>5
  <2> QED BY <1>4, <2>1
<1> QED BY <1>5, <1>6

\* skip_spaces ends at something else than a space and passes nothing else.
LEMMA SkipIs ==
    ASSUME text \in Seq(Lexemes), NEW p \in Nat \ {0}
    PROVE  /\ Skip(p) \in Nat \ {0} /\ Skip(p) >= p /\ At(Skip(p)) # SPACE
           /\ \A r \in p .. Skip(p) - 1 : At(r) = SPACE
           /\ p <= Len(text) + 1 => Skip(p) <= Len(text) + 1
<1>1. \A r : At(r) = Glyph(text, r)
  BY DEF At, Glyph
<1>2. \E q \in p .. p + Len(text) :
         At(q) # SPACE /\ \A r \in p .. q - 1 : At(r) = SPACE
  BY <1>1, SpacesEnd
<1> DEFINE q == Skip(p)
<1>3. q \in p .. p + Len(text) /\ At(q) # SPACE /\ \A r \in p .. q - 1 : At(r) = SPACE
  BY <1>2, Zenon DEF Skip
<1>4. Len(text) \in Nat
  OBVIOUS
<1> HIDE DEF q
<1>5. q \in Nat \ {0} /\ q >= p
  BY <1>3, <1>4
<1>6. ASSUME p <= Len(text) + 1 PROVE q <= Len(text) + 1
  <2>1. SUFFICES ASSUME ~(q <= Len(text) + 1) PROVE FALSE
    OBVIOUS
  <2>2. Len(text) + 1 \in p .. q - 1
    BY <1>4, <1>5, <1>6, <2>1
  <2>3. At(Len(text) + 1) = SPACE
    BY <1>3, <2>2
  <2> QED BY <1>4, <2>3 DEF At, NUL, SPACE
<1> QED BY <1>3, <1>5, <1>6 DEF q

\* A lexeme that is neither a delimiter nor the end is a word.
LEMMA WordsElse ==
    ASSUME text \in Seq(Lexemes), NEW p \in Nat \ {0}, At(p) \notin Delimiters \cup {NUL}
    PROVE  At(p) \in Words /\ p <= Len(text)
  BY DEF At, Lexemes

\* The terminator is no delimiter.
LEMMA NoDelimiterEnds == NUL \notin Delimiters
  BY DEF NUL, Delimiters, COMMA, SPACE

\* extract_token answers with a word, nothing, or NULL at the end, and passes neither a
\* delimiter but spaces nor the end (sql_parser.c:38).
LEMMA TokenIs ==
    ASSUME text \in Seq(Lexemes), NEW p \in Nat \ {0}
    PROVE  /\ extract_token(p).token \in Words \cup {"", NULL}
           /\ extract_token(p).next \in Nat \ {0} /\ extract_token(p).next >= p
           /\ \A r \in p .. extract_token(p).next - 1 : At(r) \notin {COMMA, "(", ")", NUL}
           /\ p <= Len(text) + 1 => extract_token(p).next <= Len(text) + 1
<1> DEFINE q == Skip(p)  t == extract_token(p)
<1>1. /\ q \in Nat \ {0} /\ q >= p /\ At(q) # SPACE
      /\ \A r \in p .. q - 1 : At(r) = SPACE
      /\ p <= Len(text) + 1 => q <= Len(text) + 1
  BY SkipIs
<1>2. /\ At(q) = NUL => t.token = NULL
      /\ At(q) \in Delimiters => t.token = ""
      /\ At(q) \notin Delimiters \cup {NUL} => t.token = At(q)
      /\ t.next = IF At(q) \in Delimiters \cup {NUL} THEN q ELSE q + 1
  BY NoDelimiterEnds, Zenon DEF extract_token
<1> HIDE DEF q, t
<1>3. CASE At(q) \in Delimiters \cup {NUL}
  <2>1. t.token \in {"", NULL} /\ t.next = q
    BY <1>2, <1>3 DEF Delimiters, NUL
  <2>2. \A r \in p .. q - 1 : At(r) \notin {COMMA, "(", ")", NUL}
    BY <1>1 DEF NUL, SPACE, COMMA
  <2> QED BY <1>1, <2>1, <2>2 DEF t
<1>4. CASE At(q) \notin Delimiters \cup {NUL}
  <2>1. At(q) \in Words /\ q <= Len(text)
    BY <1>1, <1>4, WordsElse
  <2>2. t.token = At(q) /\ t.next = q + 1
    BY <1>2, <1>4
  <2>3. ASSUME NEW r \in p .. q PROVE At(r) \notin {COMMA, "(", ")", NUL}
    <3>1. CASE r = q
      BY <1>4, <3>1 DEF Delimiters
    <3>2. CASE r # q
      <4>1. r \in p .. q - 1
        BY <1>1, <3>2
      <4> QED BY <1>1, <4>1 DEF NUL, SPACE, COMMA
    <3> QED BY <3>1, <3>2
  <2>4. p .. t.next - 1 = p .. q
    BY <1>1, <2>2
  <2>5. t.next <= Len(text) + 1 /\ t.next \in Nat \ {0} /\ t.next >= p
    BY <1>1, <2>1, <2>2
  <2> QED BY <2>1, <2>2, <2>3, <2>4, <2>5 DEF t
<1> QED BY <1>3, <1>4

\* What Add makes of a list of words is one.
LEMMA AddKeepsWords ==
    ASSUME NEW list \in Seq(Words), NEW token \in Words \cup {"", NULL}
    PROVE  Add(list, token) \in Seq(Words)
<1>1. CASE token \in {NULL, ""}
  BY <1>1, Zenon DEF Add
<1>2. CASE token \notin {NULL, ""}
  <2>1. token \in Words
    BY <1>2
  <2>2. Append(list, token) \in Seq(Words)
    BY <2>1, AppendProperties
  <2> QED BY <1>2, <2>2, Zenon DEF Add
<1> QED BY <1>1, <1>2

\* The first place of a value in a sequence, or 0.
PlaceOf(s, v) == SelectInSeq(s, LAMBDA x : x = v)

\* Where PlaceOf finds it.
LEMMA PlaceOfIs ==
    ASSUME NEW S, NEW s \in Seq(S), NEW v
    PROVE  /\ PlaceOf(s, v) \in 0 .. Len(s)
           /\ PlaceOf(s, v) = 0 => \A i \in 1 .. Len(s) : s[i] # v
           /\ PlaceOf(s, v) # 0 => /\ s[PlaceOf(s, v)] = v
                                   /\ \A i \in 1 .. PlaceOf(s, v) - 1 : s[i] # v
<1> DEFINE w == PlaceOf(s, v)
           I == {i \in 1 .. Len(s) : s[i] = v}
<1>1. w = IF I # {} THEN Min(I) ELSE 0
  BY Zenon DEF PlaceOf, SelectInSeq
<1> HIDE DEF w
<1>2. CASE I = {}
  BY <1>1, <1>2 DEF w
<1>3. CASE I # {}
  <2>1. I \subseteq Nat
    OBVIOUS
  <2>2. \E i \in I : \A j \in I : i <= j
    BY <1>3, <2>1, HasLeast
  <2>3. Min(I) \in I /\ \A j \in I : Min(I) <= j
    BY <2>2 DEF Min
  <2>4. w \in I /\ \A j \in I : w <= j
    BY <1>1, <1>3, <2>3
  <2>5. \A i \in 1 .. w - 1 : s[i] # v
    BY <2>4
  <2> QED BY <2>4, <2>5 DEF w
<1> QED BY <1>2, <1>3

\* The condition is a part of the text, without what ends the text (sql_parser.c:65).
LEMMA WhereIs ==
    ASSUME text \in Seq(Lexemes), \A n \in 1 .. Len(text) : text[n] # NUL
    PROVE  extract_where \in Seq(Words \cup Delimiters) \cup {NULL}
<1> DEFINE w    == PlaceOf(text, "WHERE")
           rest == SubSeq(text, w + 1, Len(text))
           end  == PlaceOf(rest, SEMICOLON)
<1>1. extract_where = IF w = 0 THEN NULL
                      ELSE IF end = 0 THEN rest ELSE SubSeq(rest, 1, end - 1)
  BY Zenon DEF extract_where, PlaceOf
<1>2. text \in Seq(Words \cup Delimiters)
  BY DEF Lexemes
<1>3. w \in 0 .. Len(text)
  BY <1>2, PlaceOfIs
<1> HIDE DEF w
<1>4. rest \in Seq(Words \cup Delimiters)
  BY <1>2, <1>3, Part
<1>5. end \in 0 .. Len(rest)
  BY <1>4, PlaceOfIs
<1> HIDE DEF rest, end
<1>6. end # 0 => SubSeq(rest, 1, end - 1) \in Seq(Words \cup Delimiters)
  BY <1>4, <1>5, Beginning
<1> QED BY <1>1, <1>4, <1>6
-----------------------------------------------------------------------------
(* The steps of the parser. *)

Places == {"idle", "done"} \cup Heads \cup Loops

\* What a step that leaves the text alone has to keep.
LEMMA SameText ==
    ASSUME ParseInv, text' = text, stmt' \in Statement, stmt'.type = stmt.type,
           pos' \in Nat \ {0}, pos' <= Len(text) + 2, at' \in Places,
           at' \in Heads \cup Loops => pos' <= Len(text) + 1,
           at' # "INSERT",
           at' = "columns" => /\ at \in {"INSERT", "columns"}
                              /\ \E i \in 1 .. pos' - 1 : OpenFrom(i, pos'),
           at' \in {"select", "UPDATE", "set", "DELETE"} =>
                at \in {"select", "UPDATE", "set", "DELETE"}
    PROVE  ParseInv'
<1>1. /\ text' \in Seq(Lexemes)
      /\ pos' \in Nat \ {0} /\ pos' <= Len(text') + 2
      /\ at' \in Heads \cup Loops => pos' <= Len(text') + 1
      /\ stmt' \in Statement
      /\ at' \in {"idle", "done"} \cup Heads \cup Loops
  BY DEF ParseInv, Places
<1>2. /\ at' \in {"INSERT", "columns"} => stmt'.type = "INSERT"
      /\ at' \in {"select", "UPDATE", "set", "DELETE"} => stmt'.type # "INSERT"
  BY DEF ParseInv
<1>3. at' = "columns" => \E i \in 1 .. pos' - 1 : OpenFrom(i, pos)'
  BY DEF OpenFrom
<1>4. ASSUME NEW n \in 1 .. Len(text'), text'[n] = NUL
      PROVE  /\ stmt'.type = "INSERT" /\ at' \notin {"INSERT", "columns"}
             /\ \E i \in 1 .. n - 1 : OpenFrom(i, n)'
  BY <1>4 DEF ParseInv, OpenFrom
<1> QED BY <1>1, <1>2, <1>3, <1>4 DEF ParseInv

\* The type of a text is one of the kinds only if there is a first word.
LEMMA TypeIs ==
    ASSUME NEW S, NEW t \in Seq(S)
    PROVE  /\ identify_type(t) \in Kinds \cup {"UNKNOWN"}
           /\ identify_type(t) # "UNKNOWN" => Len(t) >= 1
  BY DEF identify_type, Kinds

\* A text is a sequence of words and delimiters.
LEMMA TextsAre ==
    ASSUME NEW t \in Texts \cup Leftovers
    PROVE  t \in Seq(Lexemes) /\ \A n \in 1 .. Len(t) : t[n] # NUL
<1>1. t \in Seq(Range(t)) /\ NUL \notin Range(t)
  BY TextsAssumption
<1>2. Range(t) \subseteq Lexemes
  <2>1. Range(t) \in {Range(s) : s \in Texts \cup Leftovers}
    OBVIOUS
  <2> QED BY <2>1, Zenon DEF Lexemes, Words
<1>3. \A n \in 1 .. Len(t) : t[n] \in Range(t)
  BY <1>1, ElementOfSeq
<1> QED BY <1>1, <1>2, <1>3

\* A parse begins on a text, behind six characters of it (sql_parser.c:91).
LEMMA ParseBegins ==
    ASSUME NEW t \in Texts, sql_parse(t)
    PROVE  ParseInv'
<1>1. t \in Seq(Lexemes) /\ (\A n \in 1 .. Len(t) : t[n] # NUL) /\ text' = t
  BY TextsAre DEF sql_parse
<1> DEFINE Ends(q) == /\ Glyph(text', q) # SPACE
                      /\ \A r \in 2 .. q - 1 : Glyph(text', r) = SPACE
<1>3. \E q \in 2 .. 2 + Len(t) : Ends(q)
  BY <1>1, SpacesEnd
<1>4. pos' \in 2 .. 2 + Len(t) /\ Ends(pos')
  <2>1. pos' = CHOOSE q \in 2 .. 2 + Len(text') : Ends(q)
    BY Zenon DEF sql_parse, Skip, At, Glyph
  <2> HIDE DEF Ends
  <2> QED BY <1>1, <1>3, <2>1, Zenon
<1>5. /\ at' = (CASE identify_type(t) = "UNKNOWN" -> "done"
               [] identify_type(t) = "SELECT"  -> "select"
               [] OTHER -> identify_type(t))
      /\ stmt' = [NoStatement EXCEPT !.type = identify_type(t)]
  BY DEF sql_parse
<1> DEFINE k == identify_type(t)
<1>6. k \in Kinds \cup {"UNKNOWN"} /\ (k # "UNKNOWN" => Len(t) >= 1)
  BY <1>1, TypeIs
<1> HIDE DEF k
<1>7. /\ k = "UNKNOWN" => at' = "done"
      /\ k = "SELECT" => at' = "select"
      /\ k \notin {"UNKNOWN", "SELECT"} => at' = k
  <2>1. "UNKNOWN" # "SELECT"
    OBVIOUS
  <2> QED BY <1>5, <2>1, Zenon DEF k
<1>8. stmt' \in Statement /\ stmt'.type = k
  <2>1. <<>> \in Seq(Words)
    OBVIOUS
  <2> QED BY <1>5, <1>6, <2>1 DEF NoStatement, Statement, k
<1>9. at' \in {"done", "select", "INSERT", "UPDATE", "DELETE", "CREATE"}
      /\ (at' = "INSERT" => k = "INSERT")
      /\ (at' \in {"select", "UPDATE", "DELETE"} => k # "INSERT")
      /\ (at' # "done" => Len(t) >= 1)
  BY <1>6, <1>7 DEF Kinds
<1>10. at' # "done" => pos' <= Len(t) + 1
  <2>1. SUFFICES ASSUME at' # "done", pos' = Len(t) + 2 PROVE FALSE
    BY <1>1, <1>4
  <2>2. Len(t) + 1 \in 2 .. pos' - 1
    BY <1>1, <1>9, <2>1
  <2>3. Glyph(t, Len(t) + 1) = SPACE
    BY <1>1, <1>4, <2>2
  <2> QED BY <1>1, <2>3 DEF Glyph, NUL, SPACE
<1>11. pos' \in Nat \ {0} /\ pos' <= Len(t) + 2
  BY <1>1, <1>4
<1> QED BY <1>1, <1>8, <1>9, <1>10, <1>11 DEF ParseInv, Heads, Loops

\* A name behind a keyword, if the keyword is there (sql_parser.c:143).
LEMMA TableAfterIs ==
    ASSUME ParseInv, at \in Heads, NEW keyword, keyword # NUL
    PROVE  /\ TableAfter(keyword).token \in Words \cup {"", NULL}
           /\ TableAfter(keyword).next \in Nat \ {0}
           /\ TableAfter(keyword).next <= Len(text) + 1
<1> DEFINE q == Skip(pos)
<1>1. q \in Nat \ {0} /\ q <= Len(text) + 1
  BY SkipIs DEF ParseInv
<1>2. TableAfter(keyword) = IF At(q) = keyword THEN extract_token(q + 1)
                            ELSE [token |-> NULL, next |-> q]
  BY Zenon DEF TableAfter
<1> HIDE DEF q
<1>3. CASE At(q) = keyword
  <2> DEFINE t == extract_token(q + 1)
  <2>1. q <= Len(text)
    BY <1>1, <1>3 DEF At
  <2>2. q + 1 \in Nat \ {0} /\ q + 1 <= Len(text) + 1
    BY <1>1, <2>1 DEF ParseInv
  <2>3. t.token \in Words \cup {"", NULL} /\ t.next \in Nat \ {0}
        /\ t.next <= Len(text) + 1
    BY <2>2, TokenIs DEF ParseInv
  <2>4. TableAfter(keyword) = t
    BY <1>2, <1>3
  <2> HIDE DEF t
  <2> QED BY <2>3, <2>4
<1>4. CASE At(q) # keyword
  BY <1>1, <1>2, <1>4
<1> QED BY <1>3, <1>4

\* INSERT has come to its columns through a parenthesis, or to VALUES (sql_parser.c:143).
LEMMA InsertHeadKeeps ==
    ASSUME ParseInv, InsertHead
    PROVE  ParseInv'
<1> DEFINE t == TableAfter("INTO")  p == Skip(t.next)
<1>1. at = "INSERT" /\ at \in Heads /\ text' = text
      /\ stmt' = [stmt EXCEPT !.table = t.token]
      /\ (IF At(p) = "(" THEN at' = "columns" /\ pos' = p + 1 ELSE at' = "VALUES" /\ pos' = p)
  BY DEF InsertHead, Heads
<1>2. t.token \in Words \cup {"", NULL} /\ t.next \in Nat \ {0} /\ t.next <= Len(text) + 1
  <2>1. "INTO" # NUL
    BY DEF NUL
  <2> QED BY <1>1, <2>1, TableAfterIs
<1> HIDE DEF t
<1>3. p \in Nat \ {0} /\ p <= Len(text) + 1
  <2>1. /\ Skip(t.next) \in Nat /\ Skip(t.next) >= t.next
        /\ t.next <= Len(text) + 1 => Skip(t.next) <= Len(text) + 1
    BY <1>2, SkipIs, Zenon DEF ParseInv
  <2>2. Len(text) \in Nat
    BY DEF ParseInv
  <2> DEFINE n == t.next
  <2>3. n \in Nat \ {0} /\ n <= Len(text) + 1 /\ p \in Nat /\ p >= n
        /\ (n <= Len(text) + 1 => p <= Len(text) + 1)
    BY <1>2, <2>1
  <2> HIDE DEF n, p
  <2> QED BY <2>2, <2>3
<1> HIDE DEF p
<1>4. stmt' \in Statement /\ stmt'.type = stmt.type
  BY <1>1, <1>2 DEF ParseInv, Statement
<1>5. CASE At(p) = "("
  <2>1. p <= Len(text) /\ text[p] = "("
    BY <1>5 DEF At, NUL
  <2>2. at' = "columns" /\ pos' = p + 1
    BY <1>1, <1>5
  <2>3. p \in 1 .. pos' - 1 /\ OpenFrom(p, pos')
    BY <1>3, <2>1, <2>2 DEF OpenFrom
  <2>4. pos' \in Nat \ {0} /\ pos' <= Len(text) + 1 /\ pos' <= Len(text) + 2
    BY <1>3, <2>1, <2>2 DEF ParseInv
  <2> QED BY <1>1, <1>4, <2>2, <2>3, <2>4, SameText DEF Places, Loops
<1>6. CASE At(p) # "("
  <2>1. at' = "VALUES" /\ pos' = p
    BY <1>1, <1>6
  <2>2. pos' <= Len(text) + 2
    BY <1>3, <2>1 DEF ParseInv
  <2> QED BY <1>1, <1>3, <1>4, <2>1, <2>2, SameText DEF Places, Heads
<1> QED BY <1>5, <1>6

\* The values begin behind a parenthesis; where there is none the parse is over.
LEMMA ValuesHeadKeeps ==
    ASSUME ParseInv, ValuesHead
    PROVE  ParseInv'
<1> DEFINE q == Skip(pos)  p == Skip(q + 1)
<1>1. /\ at = "VALUES" /\ text' = text /\ stmt' = stmt
      /\ IF At(q) = "VALUES" /\ At(p) = "(" THEN at' = "values" /\ pos' = p + 1
                                           ELSE at' = "done" /\ pos' = pos
  BY DEF ValuesHead
<1>2. q \in Nat \ {0}
  BY SkipIs DEF ParseInv
<1>3. q + 1 \in Nat \ {0}
  BY <1>2
<1>4. p \in Nat \ {0}
  BY <1>3, SkipIs DEF ParseInv
<1> HIDE DEF p, q
<1>5. CASE At(q) = "VALUES" /\ At(p) = "("
  <2>1. p <= Len(text)
    BY <1>5 DEF At, NUL
  <2>2. at' = "values" /\ pos' = p + 1
    BY <1>1, <1>5
  <2>3. pos' \in Nat \ {0} /\ pos' <= Len(text) + 1 /\ pos' <= Len(text) + 2
    BY <1>4, <2>1, <2>2 DEF ParseInv
  <2> QED BY <1>1, <2>2, <2>3, SameText DEF Places, Loops, ParseInv
<1>6. CASE ~(At(q) = "VALUES" /\ At(p) = "(")
  <2>1. at' = "done" /\ pos' = pos
    BY <1>1, <1>6
  <2> QED BY <1>1, <2>1, SameText DEF Places, Heads, Loops, ParseInv
<1> QED BY <1>5, <1>6

\* Only the text of an INSERT has a terminator in it.
LEMMA CleanElse ==
    ASSUME ParseInv, at \in {"select", "UPDATE", "set", "DELETE"}
    PROVE  extract_where \in Seq(Words \cup Delimiters) \cup {NULL}
  BY WhereIs DEF ParseInv

\* UPDATE has a table, and values if SET follows (sql_parser.c:189).
LEMMA UpdateHeadKeeps ==
    ASSUME ParseInv, UpdateHead
    PROVE  ParseInv'
<1> DEFINE q == Skip(pos)  t == extract_token(q)  p == Skip(t.next)  r == Skip(p + 1)
<1>1. /\ at = "UPDATE" /\ at \in Heads /\ text' = text
      /\ IF At(p) = "SET"
         THEN at' = "set" /\ pos' = r /\ stmt' = [stmt EXCEPT !.table = t.token]
         ELSE /\ at' = "done" /\ pos' = p
              /\ stmt' = [stmt EXCEPT !.table = t.token, !.where_clause = extract_where]
  BY DEF UpdateHead, Heads
<1>2. q \in Nat \ {0} /\ q <= Len(text) + 1
  BY <1>1, SkipIs DEF ParseInv
<1> HIDE DEF q
<1>3. t.token \in Words \cup {"", NULL} /\ t.next \in Nat \ {0} /\ t.next <= Len(text) + 1
  BY <1>2, TokenIs DEF ParseInv
<1> HIDE DEF t
<1>4. p \in Nat \ {0} /\ p <= Len(text) + 1
  <2> DEFINE n == t.next
  <2>1. n \in Nat \ {0} /\ n <= Len(text) + 1
    BY <1>3
  <2> HIDE DEF n
  <2>2. Skip(n) \in Nat \ {0} /\ Skip(n) <= Len(text) + 1
    BY <2>1, SkipIs DEF ParseInv
  <2> QED BY <2>2 DEF n
<1> HIDE DEF p
<1>5. extract_where \in Seq(Words \cup Delimiters) \cup {NULL}
  BY <1>1, CleanElse
<1>6. stmt' \in Statement /\ stmt'.type = stmt.type
  BY <1>1, <1>3, <1>5 DEF ParseInv, Statement
<1>7. CASE At(p) = "SET"
  <2>1. p <= Len(text)
    BY <1>7 DEF At, NUL
  <2>2. p + 1 \in Nat \ {0} /\ p + 1 <= Len(text) + 1
    BY <1>4, <2>1 DEF ParseInv
  <2>3. r \in Nat \ {0} /\ r <= Len(text) + 1
    BY <2>2, SkipIs DEF ParseInv
  <2>4. at' = "set" /\ pos' = r
    BY <1>1, <1>7
  <2> HIDE DEF r
  <2>5. pos' \in Nat \ {0} /\ pos' <= Len(text) + 1 /\ pos' <= Len(text) + 2
    BY <2>3, <2>4 DEF ParseInv
  <2> QED BY <1>1, <1>6, <2>4, <2>5, SameText DEF Places, Loops
<1>8. CASE At(p) # "SET"
  <2>1. at' = "done" /\ pos' = p
    BY <1>1, <1>8
  <2>2. pos' \in Nat \ {0} /\ pos' <= Len(text) + 1 /\ pos' <= Len(text) + 2
    BY <1>4, <2>1 DEF ParseInv
  <2> QED BY <1>1, <1>6, <2>1, <2>2, SameText DEF Places
<1> QED BY <1>7, <1>8

\* DELETE has a table if FROM is there (sql_parser.c:215).
LEMMA DeleteHeadKeeps ==
    ASSUME ParseInv, DeleteHead
    PROVE  ParseInv'
<1> DEFINE t == TableAfter("FROM")
<1>1. /\ at = "DELETE" /\ at \in Heads /\ text' = text /\ at' = "done" /\ pos' = t.next
      /\ stmt' = [stmt EXCEPT !.table = t.token, !.where_clause = extract_where]
  BY DEF DeleteHead, Heads
<1>2. "FROM" # NUL
  BY DEF NUL
<1>3. t.token \in Words \cup {"", NULL} /\ t.next \in Nat \ {0} /\ t.next <= Len(text) + 1
  BY <1>1, <1>2, TableAfterIs
<1> HIDE DEF t
<1>4. extract_where \in Seq(Words \cup Delimiters) \cup {NULL}
  BY <1>1, CleanElse
<1>5. stmt' \in Statement /\ stmt'.type = stmt.type
  BY <1>1, <1>3, <1>4 DEF ParseInv, Statement
<1>6. pos' \in Nat \ {0} /\ pos' <= Len(text) + 2
  <2>1. pos' \in Nat \ {0} /\ pos' <= Len(text) + 1
    BY <1>1, <1>3
  <2>2. Len(text) \in Nat
    BY DEF ParseInv
  <2> QED BY <2>1, <2>2
<1> QED BY <1>1, <1>5, <1>6, SameText DEF Places, Heads, Loops

\* CREATE has a table if TABLE is there, and columns behind a parenthesis.
LEMMA CreateHeadKeeps ==
    ASSUME ParseInv, CreateHead
    PROVE  ParseInv'
<1> DEFINE t == TableAfter("TABLE")  p == Skip(t.next)
<1>1. /\ at = "CREATE" /\ at \in Heads /\ text' = text
      /\ stmt' = [stmt EXCEPT !.table = t.token]
      /\ (IF At(p) = "(" THEN at' = "create" /\ pos' = p + 1 ELSE at' = "done" /\ pos' = p)
  BY DEF CreateHead, Heads
<1>2. "TABLE" # NUL
  BY DEF NUL
<1>3. t.token \in Words \cup {"", NULL} /\ t.next \in Nat \ {0} /\ t.next <= Len(text) + 1
  BY <1>1, <1>2, TableAfterIs
<1> HIDE DEF t
<1>4. p \in Nat \ {0} /\ p <= Len(text) + 1
  <2> DEFINE n == t.next
  <2>1. n \in Nat \ {0} /\ n <= Len(text) + 1
    BY <1>3
  <2> HIDE DEF n
  <2>2. Skip(n) \in Nat \ {0} /\ Skip(n) <= Len(text) + 1
    BY <2>1, SkipIs DEF ParseInv
  <2> QED BY <2>2 DEF n
<1> HIDE DEF p
<1>5. stmt' \in Statement /\ stmt'.type = stmt.type
  BY <1>1, <1>3 DEF ParseInv, Statement
<1>6. At(p) = "(" => p <= Len(text)
  BY DEF At, NUL
<1>7. pos' \in Nat \ {0} /\ pos' <= Len(text) + 1 /\ pos' <= Len(text) + 2
  BY <1>1, <1>4, <1>6 DEF ParseInv
<1> QED BY <1>1, <1>5, <1>7, SameText DEF Places, Loops

\* Every loop ends at the end of the text, the lists in parentheses at the next one that
\* closes.
LEMMA StopsAre ==
    ASSUME NEW loop \in Loops
    PROVE  /\ NUL \in Stops(loop)
           /\ loop \in {"columns", "values", "create"} => Stops(loop) = {NUL, ")"}
<1>1. CASE loop = "select"
  BY <1>1 DEF Stops
<1>2. CASE loop = "set"
  BY <1>2 DEF Stops
<1>3. CASE loop \in {"columns", "values", "create"}
  <2>1. loop # "select" /\ loop # "set"
    BY <1>3
  <2> QED BY <2>1, Zenon DEF Stops
<1> QED BY <1>1, <1>2, <1>3 DEF Loops

\* The places before a cursor that moves from p to q, in a text of n lexemes.
LEMMA Behind ==
    ASSUME NEW p \in Nat \ {0}, NEW q \in Nat, NEW n \in Nat, p <= q, q <= n + 1
    PROVE  /\ \A i \in 1 .. p - 1 : i \in 1 .. q - 1
           /\ \A i \in 1 .. p - 1 : \A j \in i .. q - 1 : j \in i .. p - 1 \/ j \in p .. q - 1
           /\ \A r \in p .. q - 1 : r \in 1 .. n
  OBVIOUS

\* One turn of a loop passes no parenthesis (sql_parser.c:118, 153, 172, 197, 239).
LEMMA TurnPasses ==
    ASSUME ParseInv, Turn
    PROVE  /\ pos' \in Nat \ {0} /\ pos <= pos' /\ pos' <= Len(text) + 1 /\ pos <= Len(text)
           /\ \A r \in pos .. pos' - 1 : text[r] \notin {"(", ")"}
<1> DEFINE t == extract_token(pos)  q == Skip(t.next)
<1>1. at \in Loops /\ At(pos) # NUL /\ pos' = PastComma(q)
  BY StopsAre DEF Turn
<1>2. pos <= Len(text) /\ pos <= Len(text) + 1 /\ Len(text) \in Nat
  BY <1>1 DEF At, ParseInv
<1>3. t.next \in Nat \ {0} /\ t.next >= pos /\ t.next <= Len(text) + 1
      /\ \A r \in pos .. t.next - 1 : At(r) \notin {COMMA, "(", ")", NUL}
  BY <1>2, TokenIs DEF ParseInv
<1> DEFINE n == t.next
<1>4. n \in Nat \ {0} /\ n >= pos /\ n <= Len(text) + 1
      /\ \A r \in pos .. n - 1 : At(r) \notin {COMMA, "(", ")", NUL}
  BY <1>3
<1>5. q = Skip(n)
  OBVIOUS
<1> HIDE DEF n, q, t
<1>6. q \in Nat \ {0} /\ q >= n /\ (\A r \in n .. q - 1 : At(r) = SPACE) /\ q <= Len(text) + 1
  BY <1>4, <1>5, SkipIs DEF ParseInv
<1>7. pos' = IF At(q) = COMMA THEN q + 1 ELSE q
  BY <1>1 DEF PastComma
<1>8. At(q) = COMMA => q <= Len(text)
  BY DEF At, NUL, COMMA
<1>9. pos \in Nat \ {0}
  BY DEF ParseInv
<1>10. pos' \in Nat \ {0} /\ pos <= pos' /\ pos' <= Len(text) + 1
  BY <1>2, <1>4, <1>6, <1>7, <1>8, <1>9
<1>11. ASSUME NEW r \in pos .. pos' - 1 PROVE text[r] \notin {"(", ")"}
  <2>1. r \in Nat /\ r <= Len(text)
    <3>1. r \in 1 .. Len(text)
      BY <1>2, <1>9, <1>10, Behind, Zenon
    <3> QED BY <1>2, <3>1
  <2>4. text[r] = At(r)
    BY <2>1 DEF At
  <2>2. r \in pos .. n - 1 \/ r \in n .. q - 1 \/ (r = q /\ At(q) = COMMA)
    BY <1>4, <1>6, <1>7, <1>9
  <2>3. At(r) \notin {"(", ")"}
    BY <1>4, <1>6, <2>2 DEF SPACE, COMMA
  <2> QED BY <2>3, <2>4
<1> QED BY <1>2, <1>10, <1>11

\* A turn adds at most one word, and passes no closing parenthesis.
LEMMA TurnKeeps ==
    ASSUME ParseInv, Turn
    PROVE  ParseInv'
<1>1. /\ at \in Loops /\ text' = text /\ at' = at
      /\ stmt' = IF at \in {"values", "set"}
                 THEN [stmt EXCEPT !.values = Add(@, extract_token(pos).token)]
                 ELSE [stmt EXCEPT !.columns = Add(@, extract_token(pos).token)]
  BY DEF Turn
<1>2. /\ pos' \in Nat \ {0} /\ pos <= pos' /\ pos' <= Len(text) + 1 /\ pos <= Len(text)
      /\ \A r \in pos .. pos' - 1 : text[r] \notin {"(", ")"}
  BY TurnPasses
<1>3. extract_token(pos).token \in Words \cup {"", NULL}
  BY TokenIs DEF ParseInv
<1>4. stmt' \in Statement /\ stmt'.type = stmt.type
  BY <1>1, <1>3, AddKeepsWords DEF ParseInv, Statement
<1>7. Len(text) \in Nat
  BY DEF ParseInv
<1>5. ASSUME at = "columns" PROVE \E i \in 1 .. pos' - 1 : OpenFrom(i, pos')
  <2>1. PICK i \in 1 .. pos - 1 : OpenFrom(i, pos)
    BY <1>5 DEF ParseInv
  <2>2. pos \in Nat \ {0} /\ pos' \in Nat \ {0} /\ pos <= pos'
    BY <1>2 DEF ParseInv
  <2>5. /\ \A k \in 1 .. pos - 1 : k \in 1 .. pos' - 1
        /\ \A k \in 1 .. pos - 1 : \A j \in k .. pos' - 1 :
              j \in k .. pos - 1 \/ j \in pos .. pos' - 1
    BY <1>2, <1>7, <2>2, Behind
  <2>3. i \in 1 .. pos' - 1
    BY <2>5
  <2>4. ASSUME NEW j \in i .. pos' - 1 PROVE text[j] # ")"
    <3>1. j \in i .. pos - 1 \/ j \in pos .. pos' - 1
      BY <2>5
    <3> QED BY <1>2, <2>1, <3>1 DEF OpenFrom
  <2> QED BY <2>1, <2>3, <2>4 DEF OpenFrom
<1>6. pos' <= Len(text) + 2
  BY <1>2 DEF ParseInv
<1> QED BY <1>1, <1>2, <1>4, <1>5, <1>6, SameText DEF Places, Loops, Heads

\* The columns of SELECT end with the text or at FROM.
LEMMA SelectEndsKeeps ==
    ASSUME ParseInv, SelectEnds
    PROVE  ParseInv'
<1> DEFINE t == extract_token(pos + 1)
<1>1. /\ at = "select" /\ text' = text /\ at' = "done"
      /\ IF At(pos) = "FROM"
         THEN /\ pos' = t.next
              /\ stmt' = [stmt EXCEPT !.table = t.token, !.where_clause = extract_where]
         ELSE stmt' = [stmt EXCEPT !.where_clause = extract_where] /\ pos' = pos
  BY DEF SelectEnds
<1>2. extract_where \in Seq(Words \cup Delimiters) \cup {NULL}
  BY <1>1, CleanElse
<1>3. At(pos) = "FROM" => pos <= Len(text)
  BY DEF At, NUL
<1>4. pos + 1 \in Nat \ {0} /\ (At(pos) = "FROM" => pos + 1 <= Len(text) + 1)
  BY <1>3 DEF ParseInv
<1>5. /\ t.token \in Words \cup {"", NULL} /\ t.next \in Nat \ {0}
      /\ At(pos) = "FROM" => t.next <= Len(text) + 1
  BY <1>4, TokenIs DEF ParseInv
<1> HIDE DEF t
<1>6. stmt' \in Statement /\ stmt'.type = stmt.type
  BY <1>1, <1>2, <1>5 DEF ParseInv, Statement
<1>7. pos' \in Nat \ {0} /\ pos' <= Len(text) + 2
  <2>1. pos' \in Nat \ {0} /\ (pos' <= Len(text) + 1 \/ pos' <= Len(text) + 2)
    BY <1>1, <1>5 DEF ParseInv
  <2>2. Len(text) \in Nat
    BY DEF ParseInv
  <2> QED BY <2>1, <2>2
<1> QED BY <1>1, <1>6, <1>7, SameText DEF Places, Heads, Loops

\* Where the list of columns is not closed, the text goes on behind its end
\* (sql_parser.c:162).
LEMMA ColumnsEndKeeps ==
    ASSUME ParseInv, ColumnsEnd
    PROVE  ParseInv'
<1>1. /\ at = "columns" /\ At(pos) \in {NUL, ")"} /\ at' = "VALUES" /\ pos' = pos + 1
      /\ stmt' = stmt
      /\ IF At(pos) = NUL THEN \E rest \in Leftovers : text' = Append(text, NUL) \o rest
                          ELSE text' = text
  <2>1. at = "columns" /\ At(pos) \in Stops(at)
    BY DEF ColumnsEnd
  <2>2. Stops("columns") = {NUL, ")"}
    BY StopsAre DEF Loops
  <2> QED BY <2>1, <2>2 DEF ColumnsEnd
<1>2. pos \in Nat \ {0} /\ pos <= Len(text) + 1 /\ Len(text) \in Nat
  BY <1>1 DEF ParseInv, Loops
<1>3. CASE At(pos) # NUL
  <2>1. pos <= Len(text)
    BY <1>3 DEF At
  <2>2. pos' \in Nat \ {0} /\ pos' <= Len(text) + 1 /\ pos' <= Len(text) + 2
    BY <1>1, <1>2, <2>1
  <2> QED BY <1>1, <1>3, <2>2, SameText DEF Places, Heads, Loops, ParseInv
<1>4. CASE At(pos) = NUL
  <2>1. PICK rest \in Leftovers : text' = Append(text, NUL) \o rest
    BY <1>1, <1>4
  <2>2. rest \in Seq(Lexemes) /\ \A n \in 1 .. Len(rest) : rest[n] # NUL
    BY TextsAre
  <2>3. \A n \in 1 .. Len(text) : text[n] # NUL
    BY <1>1 DEF ParseInv
  <2>4. pos = Len(text) + 1
    BY <1>2, <1>4, <2>3 DEF At
  <2> DEFINE a == Append(text, NUL)
  <2>5. /\ a \in Seq(Lexemes) /\ Len(a) = Len(text) + 1 /\ a[Len(text) + 1] = NUL
        /\ \A n \in 1 .. Len(text) : a[n] = text[n]
    <3>1. NUL \in Lexemes
      BY DEF Lexemes
    <3> QED BY <3>1, AppendProperties DEF ParseInv
  <2> HIDE DEF a
  <2>6. /\ text' \in Seq(Lexemes) /\ Len(text') = Len(a) + Len(rest)
        /\ \A n \in 1 .. Len(a) + Len(rest) :
              text'[n] = IF n <= Len(a) THEN a[n] ELSE rest[n - Len(a)]
    <3>1. text' = a \o rest
      BY <2>1 DEF a
    <3> QED BY <2>2, <2>5, <3>1, ConcatProperties
  <2>7. Len(rest) \in Nat
    BY <2>2
  <2>8. \A n \in 1 .. Len(text) : text'[n] = text[n]
    BY <1>2, <2>5, <2>6, <2>7
  <2>9. ASSUME NEW n \in 1 .. Len(text'), text'[n] = NUL PROVE n = pos
    <3>1. CASE n <= Len(text)
      BY <1>2, <2>3, <2>8, <2>9, <3>1
    <3>2. CASE n > Len(text) + 1
      <4>1. text'[n] = rest[n - Len(a)] /\ n - Len(a) \in 1 .. Len(rest)
        BY <1>2, <2>5, <2>6, <2>7, <3>2
      <4> QED BY <2>2, <2>9, <4>1
    <3> QED BY <1>2, <2>4, <2>6, <2>5, <2>7, <3>1, <3>2
  <2>10. PICK i \in 1 .. pos - 1 : OpenFrom(i, pos)
    BY <1>1 DEF ParseInv
  <2>12. text'[i] = "(" /\ \A j \in i .. pos - 1 : text'[j] # ")"
    BY <1>2, <2>4, <2>8, <2>10 DEF OpenFrom
  <2>13. ASSUME NEW n \in 1 .. Len(text'), text'[n] = NUL
         PROVE  /\ stmt'.type = "INSERT" /\ at' \notin {"INSERT", "columns"}
                /\ \E k \in 1 .. n - 1 : OpenFrom(k, n)'
    <3>1. n = pos
      BY <2>9, <2>13
    <3>2. i \in 1 .. n - 1 /\ text'[i] = "(" /\ \A j \in i .. n - 1 : text'[j] # ")"
      BY <2>12, <3>1
    <3>3. OpenFrom(i, n)'
      BY <3>2 DEF OpenFrom
    <3> QED BY <1>1, <3>2, <3>3 DEF ParseInv
  <2>14. pos' \in Nat \ {0} /\ pos' <= Len(text') + 1 /\ pos' <= Len(text') + 2
    BY <1>1, <1>2, <2>4, <2>5, <2>6, <2>7
  <2> QED BY <1>1, <2>6, <2>13, <2>14 DEF ParseInv, Heads, Loops
<1> QED BY <1>3, <1>4

\* The lists of VALUES and CREATE end at a parenthesis, which stays.
LEMMA ListEndsKeeps ==
    ASSUME ParseInv, ListEnds
    PROVE  ParseInv'
<1>1. at' = "done" /\ text' = text /\ pos' = pos /\ stmt' = stmt
  BY DEF ListEnds
<1> QED BY <1>1, SameText DEF Places, Heads, Loops, ParseInv

\* The values of UPDATE end at WHERE, a semicolon, or with the text.
LEMMA SetEndsKeeps ==
    ASSUME ParseInv, SetEnds
    PROVE  ParseInv'
<1>1. /\ at = "set" /\ at' = "done" /\ text' = text /\ pos' = pos
      /\ stmt' = [stmt EXCEPT !.where_clause = extract_where]
  BY DEF SetEnds
<1>2. extract_where \in Seq(Words \cup Delimiters) \cup {NULL}
  BY <1>1, CleanElse
<1>3. stmt' \in Statement /\ stmt'.type = stmt.type
  BY <1>1, <1>2 DEF ParseInv, Statement
<1>4. pos' \in Nat \ {0} /\ pos' <= Len(text) + 2
  BY <1>1 DEF ParseInv
<1> QED BY <1>1, <1>3, <1>4, SameText DEF Places, Heads, Loops

\* Every step of the parser keeps the invariant.
LEMMA ParseKeeps ==
    ASSUME ParseInv, ParseStep
    PROVE  ParseInv'
  BY InsertHeadKeeps, ValuesHeadKeeps, UpdateHeadKeeps, DeleteHeadKeeps, CreateHeadKeeps,
     TurnKeeps, SelectEndsKeeps, ColumnsEndKeeps, ListEndsKeeps, SetEndsKeeps, Zenon
     DEF ParseStep

\* Before a parse and after it there is no text.
LEMMA NoTextParsed ==
    /\ Init => ParseInv
    /\ sql_statement_free => ParseInv'
<1>1. <<>> \in Seq(Lexemes) /\ <<>> \in Seq(Words) /\ Len(<<>>) = 0
  OBVIOUS
<1>2. NoStatement \in Statement
  BY <1>1 DEF NoStatement, Statement
<1>3. ASSUME Init PROVE ParseInv
  BY <1>1, <1>2, <1>3 DEF Init, ParseInv, Heads, Loops
<1>4. ASSUME sql_statement_free PROVE ParseInv'
  BY <1>1, <1>2, <1>4 DEF sql_statement_free, ParseInv, Heads, Loops
<1> QED BY <1>3, <1>4

\* The parser is sound in every reachable state (sql_parser.c).
THEOREM ParserAlwaysSound == Spec => []ParseInv
<1>1. ASSUME ParseInv, [Next]_parser_vars PROVE ParseInv'
  <2>1. CASE UNCHANGED parser_vars
    BY <1>1, <2>1 DEF parser_vars, ParseInv, OpenFrom
  <2>2. CASE Next
    BY <1>1, <2>2, ParseKeeps, ParseBegins, NoTextParsed DEF Next
  <2> QED BY <1>1, <2>1, <2>2
<1> QED BY <1>1, NoTextParsed, PTL DEF Spec

\* What the invariant says of types.
LEMMA ParseInvTypes ==
    ASSUME ParseInv
    PROVE  TypeOK
<1>1. stmt \in Statement /\ text \in Seq(Words \cup Delimiters \cup {NUL})
  BY DEF ParseInv, Lexemes
<1>2. /\ stmt.type \in Kinds \cup {"UNKNOWN", NULL}
      /\ stmt.table \in Words \cup {"", NULL}
      /\ stmt.columns \in Seq(Words) /\ stmt.values \in Seq(Words)
      /\ stmt.where_clause = NULL \/ stmt.where_clause \in Seq(Words \cup Delimiters)
  BY <1>1 DEF Statement
<1>3. \A i \in DOMAIN text : text[i] \in Words \cup Delimiters \cup {NUL}
  BY <1>1
<1>4. Len(text) \in Nat
  BY <1>1
<1>5. pos \in 1 .. Len(text) + 2 /\ at \in {"idle", "done"} \cup Heads \cup Loops
  BY <1>4 DEF ParseInv
<1> QED BY <1>2, <1>3, <1>5 DEF TypeOK

\* The parser reads behind the end of a text only in an INSERT whose column list is not
\* closed (sql_parser.c:162).
THEOREM ReadsBehindOnlyThen == Spec => []ReadsBehindUnclosedOnly
<1>1. ASSUME ParseInv PROVE ReadsBehindUnclosedOnly
  <2>1. TypeOK
    BY <1>1, ParseInvTypes
  <2>2. \A n \in 1 .. Len(text) : text[n] = NUL =>
           stmt.type = "INSERT" /\ \E i \in 1 .. n - 1 : OpenFrom(i, n)
    BY <1>1 DEF ParseInv
  <2>3. DOMAIN text = 1 .. Len(text)
    BY <1>1 DEF ParseInv
  <2> QED BY <2>1, <2>2, <2>3 DEF ReadsBehindUnclosedOnly, OpenFrom
<1> QED BY <1>1, ParserAlwaysSound, PTL
-----------------------------------------------------------------------------
(* Statements as they are written. *)

\* The words that names and items are made of, and what a text has beside them.
Plain(t, cs, vs) == ({t} \cup Range(cs) \cup Range(vs)) \ Reserved
Keywords == Kinds \cup {"INTO", "VALUES", "SET", "FROM", "TABLE"}
HeadWords(t, cs, vs) == Plain(t, cs, vs) \cup Delimiters \cup Keywords

\* The items of a list and what is between them, from o on.
ListAt(s, o, items) ==
    /\ \A k \in 1 .. Len(items) : Glyph(s, o + 3 * k - 3) = items[k]
    /\ \A k \in 1 .. Len(items) - 1 : /\ Glyph(s, o + 3 * k - 2) = COMMA
                                      /\ Glyph(s, o + 3 * k - 1) = SPACE

\* Where the cursor is when k items of n are taken: at the comma's space, or behind the list.
ItemAt(o, n, k) == IF k = 0 THEN o ELSE IF k = n THEN o + 3 * n - 2 ELSE o + 3 * k - 1

\* s is a text, a, and another, b, behind it.
Appended(S, s, a, b) ==
    /\ s \in Seq(S) /\ Len(s) = Len(a) + Len(b) /\ Len(a) \in Nat /\ Len(b) \in Nat
    /\ \A p \in 1 .. Len(a) : Glyph(s, p) = Glyph(a, p)
    /\ \A p \in Nat \ {0} : Glyph(s, Len(a) + p) = Glyph(b, p)

\* What follows a text does not change it.
LEMMA GlyphJoined ==
    ASSUME NEW S, NEW a \in Seq(S), NEW b \in Seq(S)
    PROVE  Appended(S, a \o b, a, b)
<1>1. /\ a \o b \in Seq(S) /\ Len(a \o b) = Len(a) + Len(b)
      /\ Len(a) \in Nat /\ Len(b) \in Nat
      /\ \A i \in 1 .. Len(a) + Len(b) : (a \o b)[i] = IF i <= Len(a) THEN a[i] ELSE b[i - Len(a)]
  BY ConcatProperties, LenProperties
<1> DEFINE ab == a \o b
<1>2. ab = a \o b
  OBVIOUS
<1> HIDE DEF ab
<1>3. /\ Len(ab) = Len(a) + Len(b)
      /\ \A i \in 1 .. Len(a) + Len(b) : ab[i] = IF i <= Len(a) THEN a[i] ELSE b[i - Len(a)]
  BY <1>1, <1>2
<1>4. ASSUME NEW p \in 1 .. Len(a) PROVE Glyph(ab, p) = Glyph(a, p)
  BY <1>1, <1>3 DEF Glyph
<1>5. ASSUME NEW p \in Nat \ {0} PROVE Glyph(ab, Len(a) + p) = Glyph(b, p)
  BY <1>1, <1>3 DEF Glyph
<1> QED BY <1>1, <1>2, <1>4, <1>5 DEF Appended

\* A list of items is written at three places each, but for the last (sql_parser.c:113).
LEMMA ListedIs ==
    ASSUME NEW S, NEW items \in Seq(S), items # <<>>
    PROVE  /\ Listed(items) \in Seq(S \cup Delimiters)
           /\ Len(Listed(items)) = 3 * Len(items) - 2
           /\ ListAt(Listed(items), 1, items)
<1> DEFINE n == Len(items)  l == Listed(items)
<1>1. n \in Nat \ {0}
  BY EmptySeq
<1>2. l = [i \in 1 .. 3 * n - 2 |->
              CASE i % 3 = 1 -> items[(i + 2) \div 3] [] i % 3 = 2 -> COMMA [] OTHER -> SPACE]
  BY DEF Listed
<1>3. ASSUME NEW i \in 1 .. 3 * n - 2
      PROVE  /\ i % 3 = 1 => l[i] = items[(i + 2) \div 3]
             /\ i % 3 = 2 => l[i] = COMMA
             /\ i % 3 = 0 => l[i] = SPACE
  <2>1. l[i] = CASE i % 3 = 1 -> items[(i + 2) \div 3] [] i % 3 = 2 -> COMMA [] OTHER -> SPACE
    BY <1>2, Zenon
  <2>2. CASE i % 3 = 1
    <3>1. i % 3 # 2 /\ i % 3 # 0
      BY <2>2
    <3> QED BY <2>1, <2>2, <3>1, Zenon
  <2>3. CASE i % 3 = 2
    <3>1. i % 3 # 1 /\ i % 3 # 0
      BY <2>3
    <3> QED BY <2>1, <2>3, <3>1, Zenon
  <2>4. CASE i % 3 = 0
    <3>1. i % 3 # 1 /\ i % 3 # 2
      BY <2>4
    <3> QED BY <2>1, <2>4, <3>1, Zenon
  <2>5. i % 3 \in 0 .. 2
    OBVIOUS
  <2> QED BY <2>2, <2>3, <2>4, <2>5
<1>4. ASSUME NEW i \in 1 .. 3 * n - 2 PROVE l[i] \in S \cup Delimiters
  <2>1. i % 3 \in 0 .. 2
    OBVIOUS
  <2>2. i % 3 = 1 => (i + 2) \div 3 \in 1 .. n
    BY <1>1
  <2>3. \A k \in 1 .. n : items[k] \in S
    BY ElementOfSeq
  <2> QED BY <1>3, <2>1, <2>2, <2>3 DEF Delimiters
<1>5. l = [i \in 1 .. 3 * n - 2 |-> l[i]]
  BY <1>2, Zenon
<1> HIDE DEF l
<1>6. 3 * n - 2 \in Nat
  BY <1>1
<1>7. l \in [1 .. 3 * n - 2 -> S \cup Delimiters]
  BY <1>4, <1>5
<1>8. l \in Seq(S \cup Delimiters) /\ Len(l) = 3 * n - 2
  BY <1>6, <1>7, SeqDef, LenProperties
<1>9. ASSUME NEW k \in 1 .. n PROVE Glyph(l, 1 + 3 * k - 3) = items[k]
  <2>1. 1 + 3 * k - 3 \in 1 .. 3 * n - 2 /\ (1 + 3 * k - 3) % 3 = 1
        /\ (1 + 3 * k - 3 + 2) \div 3 = k
    BY <1>1
  <2> QED BY <1>3, <1>8, <2>1 DEF Glyph
<1>10. ASSUME NEW k \in 1 .. n - 1
       PROVE  Glyph(l, 1 + 3 * k - 2) = COMMA /\ Glyph(l, 1 + 3 * k - 1) = SPACE
  <2>1. /\ 1 + 3 * k - 2 \in 1 .. 3 * n - 2 /\ (1 + 3 * k - 2) % 3 = 2
        /\ 1 + 3 * k - 1 \in 1 .. 3 * n - 2 /\ (1 + 3 * k - 1) % 3 = 0
    BY <1>1
  <2> QED BY <1>3, <1>8, <2>1 DEF Glyph
<1> QED BY <1>8, <1>9, <1>10 DEF ListAt, l

\* A list in another text, as many places further on.
LEMMA ListMoved ==
    ASSUME NEW items, Len(items) \in Nat \ {0}, NEW s, NEW o \in Nat \ {0}, ListAt(s, o, items),
           NEW x, NEW e \in Nat, e >= o,
           \A p \in o .. o + 3 * Len(items) - 3 : Glyph(x, e - o + p) = Glyph(s, p)
    PROVE  ListAt(x, e, items)
<1>1. ASSUME NEW k \in 1 .. Len(items) PROVE Glyph(x, e + 3 * k - 3) = items[k]
  <2>1. o + 3 * k - 3 \in o .. o + 3 * Len(items) - 3
        /\ e + 3 * k - 3 = e - o + (o + 3 * k - 3)
    OBVIOUS
  <2> QED BY <2>1 DEF ListAt
<1>2. ASSUME NEW k \in 1 .. Len(items) - 1
      PROVE  Glyph(x, e + 3 * k - 2) = COMMA /\ Glyph(x, e + 3 * k - 1) = SPACE
  <2>1. /\ o + 3 * k - 2 \in o .. o + 3 * Len(items) - 3
        /\ o + 3 * k - 1 \in o .. o + 3 * Len(items) - 3
        /\ e + 3 * k - 2 = e - o + (o + 3 * k - 2)
        /\ e + 3 * k - 1 = e - o + (o + 3 * k - 1)
    OBVIOUS
  <2> QED BY <2>1 DEF ListAt
<1> QED BY <1>1, <1>2 DEF ListAt

\* s is a text, a, with a list behind it and another text, b, behind that.
ListBetween(S, s, a, items, b) ==
    /\ s \in Seq(S) /\ Len(s) = Len(a) + 3 * Len(items) - 2 + Len(b)
    /\ \A p \in 1 .. Len(a) : Glyph(s, p) = Glyph(a, p)
    /\ ListAt(s, Len(a) + 1, items)
    /\ \A p \in Nat \ {0} : Glyph(s, Len(a) + 3 * Len(items) - 2 + p) = Glyph(b, p)

\* What is written behind a text and before another does not change them.
LEMMA ListJoined ==
    ASSUME NEW S, Delimiters \subseteq S, NEW a \in Seq(S), NEW items \in Seq(S), items # <<>>,
           NEW b \in Seq(S)
    PROVE  ListBetween(S, (a \o Listed(items)) \o b, a, items, b)
<1> DEFINE l == Listed(items)  al == a \o l  s == al \o b
<1>1. l \in Seq(S) /\ Len(l) = 3 * Len(items) - 2 /\ ListAt(l, 1, items)
  <2>1. S \cup Delimiters = S
    OBVIOUS
  <2> QED BY <2>1, ListedIs, Zenon
<1> HIDE DEF l
<1>2. Appended(S, al, a, l)
  BY <1>1, GlyphJoined
<1> HIDE DEF al
<1>3. Appended(S, s, al, b)
  <2>1. al \in Seq(S)
    BY <1>2 DEF Appended
  <2> QED BY <2>1, GlyphJoined
<1> HIDE DEF s
<1>4. Len(a) \in Nat /\ Len(items) \in Nat \ {0} /\ Len(b) \in Nat
  BY EmptySeq, LenProperties
<1>5. ASSUME NEW p \in 1 .. 3 * Len(items) - 2 PROVE Glyph(s, Len(a) + p) = Glyph(l, p)
  <2>3. Len(al) = Len(a) + (3 * Len(items) - 2)
    BY <1>1, <1>2 DEF Appended
  <2>1. Len(a) + p \in 1 .. Len(al) /\ p \in Nat \ {0}
    BY <1>4, <2>3
  <2>2. Glyph(s, Len(a) + p) = Glyph(al, Len(a) + p)
    BY <1>3, <2>1 DEF Appended
  <2> QED BY <1>2, <2>1, <2>2 DEF Appended
<1>6. ListAt(s, Len(a) + 1, items)
  <2>1. \A p \in 1 .. 1 + 3 * Len(items) - 3 : Glyph(s, Len(a) + p) = Glyph(l, p)
    BY <1>4, <1>5
  <2> QED BY <1>1, <1>4, <2>1, ListMoved
<1>7. \A p \in 1 .. Len(a) : Glyph(s, p) = Glyph(a, p)
  BY <1>1, <1>2, <1>3, <1>4, SMTT(30) DEF Appended
<1>8. \A p \in Nat \ {0} : Glyph(s, Len(a) + 3 * Len(items) - 2 + p) = Glyph(b, p)
  BY <1>1, <1>2, <1>3, <1>4 DEF Appended
<1>9. Len(s) = Len(a) + 3 * Len(items) - 2 + Len(b)
  BY <1>1, <1>2, <1>3, <1>4 DEF Appended
<1>10. s \in Seq(S)
  BY <1>3 DEF Appended
<1> QED BY <1>6, <1>7, <1>8, <1>9, <1>10 DEF ListBetween, s, al, l

\* A list the forms are made of has an item, and its items are plain.
LEMMA ListsAre ==
    ASSUME NEW items \in Lists
    PROVE  /\ items \in Seq(Range(items) \ Reserved) /\ Len(items) \in Nat \ {0} /\ items # <<>>
           /\ \A i \in 1 .. Len(items) : items[i] \notin Reserved
<1>1. items # <<>> /\ items \in Seq(Range(items) \ Reserved)
  BY FormsAssumption
<1>2. Len(items) \in Nat \ {0}
  BY <1>1, EmptySeq, LenProperties
<1>3. \A i \in 1 .. Len(items) : items[i] \in Range(items) \ Reserved
  BY <1>1, ElementOfSeq
<1> QED BY <1>1, <1>2, <1>3

\* skip_spaces stays where there is no space, and passes a single one (sql_parser.c:32).
LEMMA SkipPasses ==
    ASSUME text \in Seq(Lexemes), NEW p \in Nat \ {0}
    PROVE  /\ At(p) # SPACE => Skip(p) = p
           /\ At(p) = SPACE /\ At(p + 1) # SPACE => Skip(p) = p + 1
<1> DEFINE q == Skip(p)
<1>1. q \in Nat \ {0} /\ q >= p /\ At(q) # SPACE /\ \A r \in p .. q - 1 : At(r) = SPACE
  BY SkipIs
<1> HIDE DEF q
<1>2. ASSUME At(p) # SPACE PROVE q = p
  <2>1. p \notin p .. q - 1
    BY <1>1, <1>2
  <2> QED BY <1>1, <2>1
<1>3. ASSUME At(p) = SPACE, At(p + 1) # SPACE PROVE q = p + 1
  <2>1. q # p
    BY <1>1, <1>3
  <2>2. p + 1 \notin p .. q - 1
    BY <1>1, <1>3
  <2> QED BY <1>1, <2>1, <2>2
<1> QED BY <1>2, <1>3 DEF q

\* extract_token takes the word it comes to (sql_parser.c:38).
LEMMA TokenThere ==
    ASSUME NEW p, At(Skip(p)) \notin Delimiters \cup {NUL}
    PROVE  extract_token(p).token = At(Skip(p)) /\ extract_token(p).next = Skip(p) + 1
<1>1. At(Skip(p)) # NUL /\ At(Skip(p)) \notin Delimiters
  OBVIOUS
<1>2. extract_token(p) = [token |-> At(Skip(p)), next |-> Skip(p) + 1]
  BY <1>1, Zenon DEF extract_token
<1> QED BY <1>2

\* One turn takes the next item of a list as it is written (sql_parser.c:118).
LEMMA ItemTaken ==
    ASSUME text \in Seq(Lexemes), NEW items \in Lists, NEW o \in Nat \ {0},
           ListAt(text, o, items), At(o + 3 * Len(items) - 2) \notin {SPACE, COMMA},
           NEW k \in 0 .. Len(items) - 1, NEW p, p = ItemAt(o, Len(items), k)
    PROVE  /\ At(p) \notin {NUL, "FROM", "WHERE", SEMICOLON, ")"}
           /\ extract_token(p).token = items[k + 1]
           /\ PastComma(Skip(extract_token(p).next)) = ItemAt(o, Len(items), k + 1)
<1> DEFINE n == Len(items)  i == o + 3 * k
<1>1. n \in Nat \ {0} /\ items[k + 1] \notin Reserved
  <2>1. n \in Nat \ {0} /\ \A j \in 1 .. n : items[j] \notin Reserved
    BY ListsAre
  <2> QED BY <2>1
<1>2. At(i) = items[k + 1]
  <2>1. o + 3 * (k + 1) - 3 = i /\ k + 1 \in 1 .. n
    BY <1>1
  <2>2. Glyph(text, o + 3 * (k + 1) - 3) = items[k + 1]
    BY <2>1 DEF ListAt
  <2> QED BY <2>1, <2>2 DEF At, Glyph
<1>3. At(i) # SPACE /\ At(i) \notin Delimiters \cup {NUL}
      /\ At(i) \notin {NUL, "FROM", "WHERE", SEMICOLON, ")"}
  BY <1>1, <1>2 DEF Reserved, Delimiters
<1>4. p \in Nat \ {0} /\ Skip(p) = i /\ (p = i \/ At(p) = SPACE)
  <2>1. CASE k = 0
    <3>1. p = i
      BY <2>1 DEF ItemAt
    <3> QED BY <1>3, <3>1, SkipPasses
  <2>2. CASE k # 0
    <3>1. p = o + 3 * k - 1 /\ k \in 1 .. n - 1
      BY <1>1, <2>2 DEF ItemAt
    <3>2. Glyph(text, o + 3 * k - 1) = SPACE
      BY <3>1 DEF ListAt
    <3>3. At(p) = SPACE /\ p + 1 = i /\ p \in Nat \ {0}
      BY <3>1, <3>2 DEF At, Glyph
    <3> QED BY <1>3, <3>3, SkipPasses
  <2> QED BY <2>1, <2>2
<1>5. At(p) \notin {NUL, "FROM", "WHERE", SEMICOLON, ")"}
  BY <1>3, <1>4 DEF SPACE, NUL, SEMICOLON
<1>6. extract_token(p).token = items[k + 1] /\ extract_token(p).next = i + 1
  BY <1>2, <1>3, <1>4, TokenThere
<1>7. PastComma(Skip(i + 1)) = ItemAt(o, n, k + 1)
  <2>1. CASE k + 1 < n
    <3>1. o + 3 * (k + 1) - 2 = i + 1 /\ k + 1 \in 1 .. n - 1 /\ i + 1 \in Nat \ {0}
      BY <1>1, <2>1
    <3>2. Glyph(text, o + 3 * (k + 1) - 2) = COMMA
      BY <3>1 DEF ListAt
    <3>3. At(i + 1) = COMMA
      BY <3>1, <3>2 DEF At, Glyph
    <3>4. Skip(i + 1) = i + 1
      BY <3>1, <3>3, SkipPasses DEF COMMA, SPACE
    <3>5. PastComma(i + 1) = i + 2
      BY <3>1, <3>3 DEF PastComma
    <3>6. ItemAt(o, n, k + 1) = i + 2
      BY <1>1, <2>1 DEF ItemAt
    <3> QED BY <3>4, <3>5, <3>6
  <2>2. CASE k + 1 = n
    <3>1. o + 3 * n - 2 = i + 1 /\ i + 1 \in Nat \ {0} /\ k + 1 # 0
      BY <1>1, <2>2
    <3>2. At(i + 1) # SPACE /\ At(i + 1) # COMMA
      BY <3>1
    <3>3. Skip(i + 1) = i + 1
      BY <3>1, <3>2, SkipPasses
    <3>4. PastComma(i + 1) = i + 1
      BY <3>2 DEF PastComma
    <3>5. ItemAt(o, n, k + 1) = i + 1
      BY <2>2, <3>1 DEF ItemAt
    <3> QED BY <3>3, <3>4, <3>5
  <2> QED BY <1>1, <2>1, <2>2
<1> QED BY <1>5, <1>6, <1>7

\* Taking one item more of a list.
LEMMA OneMore ==
    ASSUME NEW items \in Lists, NEW k \in 0 .. Len(items) - 1
    PROVE  Add(SubSeq(items, 1, k), items[k + 1]) = SubSeq(items, 1, k + 1)
<1> DEFINE S == Range(items) \ Reserved
           a == SubSeq(items, 1, k)
           b == SubSeq(items, 1, k + 1)
<1>1. items \in Seq(S) /\ items[k + 1] \notin Reserved /\ Len(items) \in Nat
  <2>1. /\ items \in Seq(S) /\ Len(items) \in Nat
        /\ \A j \in 1 .. Len(items) : items[j] \notin Reserved
    BY ListsAre
  <2> QED BY <2>1
<1>2. a \in Seq(S) /\ Len(a) = k /\ \A i \in 1 .. k : a[i] = items[i]
  BY <1>1, Beginning
<1>3. b \in Seq(S) /\ Len(b) = k + 1 /\ \A i \in 1 .. k + 1 : b[i] = items[i]
  BY <1>1, Beginning
<1>4. Add(a, items[k + 1]) = Append(a, items[k + 1])
  BY <1>1, Zenon DEF Add, Reserved
<1>5. items[k + 1] \in S
  BY <1>1, ElementOfSeq
<1> HIDE DEF a, b, S
<1>6. Append(a, items[k + 1]) = b
  BY <1>2, <1>3, <1>5
<1> QED BY <1>4, <1>6 DEF a, b

\* None or all of a list.
LEMMA NoneOrAll ==
    ASSUME NEW items \in Lists
    PROVE  SubSeq(items, 1, 0) = <<>> /\ SubSeq(items, 1, Len(items)) = items
<1> DEFINE S == Range(items) \ Reserved
<1>1. items \in Seq(S) /\ Len(items) \in Nat
  BY ListsAre
<1> HIDE DEF S
<1>2. SubSeq(items, 1, 0) = <<>>
  BY <1>1
<1>3. SubSeq(items, 1, Len(items)) = items
  BY <1>1
<1> QED BY <1>2, <1>3

\* extract_where gives the condition as it is written (sql_parser.c:65).
LEMMA WrittenWhere ==
    ASSUME NEW S, "WHERE" \notin S, NEW head \in Seq(S), NEW c \in Conditions,
           text = head \o Condition(c)
    PROVE  extract_where = c
<1> DEFINE w    == PlaceOf(text, "WHERE")
           rest == SubSeq(text, w + 1, Len(text))
           end  == PlaceOf(rest, SEMICOLON)
<1>1. extract_where = IF w = 0 THEN NULL
                      ELSE IF end = 0 THEN rest ELSE SubSeq(rest, 1, end - 1)
  BY Zenon DEF extract_where, PlaceOf
<1> HIDE DEF w, rest, end
<1>2. Len(head) \in Nat /\ \A i \in 1 .. Len(head) : head[i] # "WHERE"
  BY ElementOfSeq, LenProperties
<1>3. CASE c = NULL
  <2>1. text = head
    BY <1>3 DEF Condition
  <2>2. w \in 0 .. Len(head) /\ (w # 0 => head[w] = "WHERE")
    BY <2>1, PlaceOfIs DEF w
  <2>3. w = 0
    BY <1>2, <2>2
  <2> QED BY <1>1, <1>3, <2>3
<1>4. CASE c # NULL
  <2> DEFINE C == Range(c) \ {NUL, SEMICOLON}
             T == S \cup C \cup {"WHERE"}
  <2>1. c \in Seq(C)
    BY <1>4, FormsAssumption
  <2>2. \A i \in 1 .. Len(c) : c[i] # SEMICOLON
    BY <2>1, ElementOfSeq
  <2>3. Len(c) \in Nat
    BY <2>1
  <2>4. text = head \o (<<"WHERE">> \o c)
    BY <1>4 DEF Condition
  <2>5. C \subseteq T /\ S \subseteq T /\ "WHERE" \in T
    OBVIOUS
  <2> HIDE DEF C, T
  <2> DEFINE d == <<"WHERE">> \o c
  <2>6. c \in Seq(T) /\ <<"WHERE">> \in Seq(T) /\ head \in Seq(T)
    BY <2>1, <2>5
  <2>7. d \in Seq(T) /\ Len(d) = 1 + Len(c)
        /\ \A i \in 1 .. 1 + Len(c) : d[i] = IF i <= 1 THEN "WHERE" ELSE c[i - 1]
    BY <2>6, ConcatProperties
  <2> HIDE DEF d
  <2>8. text = head \o d
    BY <2>4 DEF d
  <2>9. text \in Seq(T) /\ Len(text) = Len(head) + Len(d)
        /\ \A i \in 1 .. Len(head) + Len(d) :
              text[i] = IF i <= Len(head) THEN head[i] ELSE d[i - Len(head)]
    <3>1. /\ head \o d \in Seq(T) /\ Len(head \o d) = Len(head) + Len(d)
          /\ \A i \in 1 .. Len(head) + Len(d) :
                (head \o d)[i] = IF i <= Len(head) THEN head[i] ELSE d[i - Len(head)]
      BY <2>6, <2>7, ConcatProperties
    <3> QED BY <2>8, <3>1, Zenon
  <2>10. text[Len(head) + 1] = "WHERE" /\ \A i \in 1 .. Len(head) : text[i] # "WHERE"
    <3>1. /\ Len(head) + 1 \in 1 .. Len(head) + Len(d) /\ ~(Len(head) + 1 <= Len(head))
          /\ Len(head) + 1 - Len(head) = 1 /\ 1 \in 1 .. 1 + Len(c)
          /\ \A i \in 1 .. Len(head) : i \in 1 .. Len(head) + Len(d) /\ i <= Len(head)
      BY <1>2, <2>3, <2>7
    <3>2. d[1] = "WHERE"
      BY <2>3, <2>7
    <3> QED BY <1>2, <2>9, <3>1, <3>2
  <2>11. /\ w \in 0 .. Len(text)
         /\ w = 0 => \A i \in 1 .. Len(text) : text[i] # "WHERE"
         /\ w # 0 => /\ text[w] = "WHERE"
                     /\ \A i \in 1 .. w - 1 : text[i] # "WHERE"
    <3>1. text \in Seq(T)
      BY <2>9
    <3>2. w \in 0 .. Len(text)
      BY <3>1, PlaceOfIs DEF w
    <3>3. ASSUME w = 0 PROVE \A i \in 1 .. Len(text) : text[i] # "WHERE"
      BY <3>1, <3>3, PlaceOfIs DEF w
    <3>4. ASSUME w # 0 PROVE text[w] = "WHERE"
      BY <3>1, <3>4, PlaceOfIs DEF w
    <3>5. ASSUME w # 0, NEW i \in 1 .. w - 1 PROVE text[i] # "WHERE"
      BY <3>1, <3>5, PlaceOfIs DEF w
    <3> QED BY <3>2, <3>3, <3>4, <3>5
  <2>12. w = Len(head) + 1
    <3>1. Len(head) + 1 \in 1 .. Len(text)
      BY <1>2, <2>3, <2>7, <2>9
    <3>2. w # 0
      BY <2>10, <2>11, <3>1
    <3>3. Len(head) + 1 \notin 1 .. w - 1
      BY <2>10, <2>11, <3>2
    <3>4. w \notin 1 .. Len(head)
      BY <2>10, <2>11, <3>2
    <3> QED BY <1>2, <2>11, <3>1, <3>2, <3>3, <3>4
  <2>13. rest \in Seq(T) /\ Len(rest) = Len(c) /\ \A i \in 1 .. Len(c) : rest[i] = c[i]
    <3>1. /\ rest \in Seq(T) /\ Len(rest) = Len(text) - (w + 1) + 1
          /\ \A i \in 1 .. Len(text) - (w + 1) + 1 : rest[i] = text[w + 1 + i - 1]
      <4>1. /\ w + 1 \in Nat \ {0} /\ Len(text) \in Nat /\ Len(text) <= Len(text)
            /\ w + 1 <= Len(text) + 1 /\ text \in Seq(T)
        BY <1>2, <2>3, <2>7, <2>9, <2>12
      <4> QED BY <4>1, Part, SMTT(30) DEF rest
    <3>2. Len(rest) = Len(c)
      BY <1>2, <2>3, <2>7, <2>9, <2>12, <3>1
    <3>3. ASSUME NEW i \in 1 .. Len(c) PROVE rest[i] = c[i]
      <4>1. rest[i] = text[Len(head) + 1 + i]
        <5>1. i \in 1 .. Len(text) - (w + 1) + 1 /\ w + 1 + i - 1 = Len(head) + 1 + i
          BY <1>2, <2>3, <2>7, <2>9, <2>12
        <5> QED BY <3>1, <5>1
      <4>2. text[Len(head) + 1 + i] = d[1 + i]
        <5>1. /\ Len(head) + 1 + i \in 1 .. Len(head) + Len(d)
              /\ ~(Len(head) + 1 + i <= Len(head)) /\ Len(head) + 1 + i - Len(head) = 1 + i
          BY <1>2, <2>3, <2>7
        <5> QED BY <2>9, <5>1
      <4>3. d[1 + i] = c[i]
        BY <2>3, <2>7
      <4> QED BY <4>1, <4>2, <4>3
    <3> QED BY <3>1, <3>2, <3>3
  <2>14. rest = c
    BY <2>6, <2>13
  <2>15. end = 0
    <3>1. end \in 0 .. Len(rest) /\ (end # 0 => rest[end] = SEMICOLON)
      BY <2>13, PlaceOfIs DEF end
    <3> QED BY <2>2, <2>3, <2>14, <3>1
  <2>16. w # 0
    BY <1>2, <2>12
  <2> QED BY <1>1, <2>14, <2>15, <2>16
<1> QED BY <1>3, <1>4

\* The lexemes of a form.
FormWords(t, cs, vs, c) ==
    HeadWords(t, cs, vs) \cup {"WHERE"} \cup (Range(c) \ {NUL, SEMICOLON})

\* No form holds the terminator, and only a condition holds WHERE.
LEMMA FormWordsAre ==
    ASSUME NEW t \in Names, NEW cs \in Lists, NEW vs \in Lists, NEW c \in Conditions
    PROVE  /\ t \in HeadWords(t, cs, vs) /\ t \notin Reserved
           /\ cs \in Seq(HeadWords(t, cs, vs)) /\ vs \in Seq(HeadWords(t, cs, vs))
           /\ Delimiters \cup Keywords \subseteq HeadWords(t, cs, vs)
           /\ HeadWords(t, cs, vs) \subseteq FormWords(t, cs, vs, c)
           /\ "WHERE" \notin HeadWords(t, cs, vs) /\ NUL \notin FormWords(t, cs, vs, c)
<1> DEFINE H == HeadWords(t, cs, vs)
<1>1. t \notin Reserved
  BY FormsAssumption
<1>2. cs \in Seq(Range(cs) \ Reserved) /\ vs \in Seq(Range(vs) \ Reserved)
  BY ListsAre
<1>3. Range(cs) \ Reserved \subseteq H /\ Range(vs) \ Reserved \subseteq H
  BY DEF HeadWords, Plain
<1>4. cs \in Seq(H) /\ vs \in Seq(H)
  <2> HIDE DEF H
  <2> QED BY <1>2, <1>3
<1>5. "WHERE" \notin Keywords /\ "WHERE" \notin Delimiters
      /\ NUL \notin Keywords /\ NUL \notin Delimiters /\ NUL # "WHERE"
  BY DEF Keywords, Kinds, Delimiters, NUL, COMMA, SPACE
<1>6. "WHERE" \in Reserved /\ NUL \in Reserved
  BY DEF Reserved
<1> QED BY <1>1, <1>4, <1>5, <1>6, Zenon DEF HeadWords, FormWords, Plain

\* A condition begins with WHERE, if there is one.
LEMMA ConditionIs ==
    ASSUME NEW t \in Names, NEW cs \in Lists, NEW vs \in Lists, NEW c \in Conditions
    PROVE  /\ Condition(c) \in Seq(FormWords(t, cs, vs, c))
           /\ Glyph(Condition(c), 1) \in {NUL, "WHERE"}
<1> DEFINE F == FormWords(t, cs, vs, c)
<1>1. CASE c = NULL
  BY <1>1 DEF Condition, Glyph
<1>2. CASE c # NULL
  <2>1. c \in Seq(Range(c) \ {NUL, SEMICOLON})
    BY <1>2, FormsAssumption
  <2>2. Range(c) \ {NUL, SEMICOLON} \subseteq F /\ "WHERE" \in F
    BY DEF FormWords
  <2> HIDE DEF F
  <2>3. c \in Seq(F) /\ <<"WHERE">> \in Seq(F)
    BY <2>1, <2>2
  <2>4. Appended(F, <<"WHERE">> \o c, <<"WHERE">>, c)
    BY <2>3, GlyphJoined
  <2>5. <<"WHERE">> \o c \in Seq(F)
    BY <2>4 DEF Appended
  <2>6. Glyph(<<"WHERE">> \o c, 1) = Glyph(<<"WHERE">>, 1)
    BY <2>4 DEF Appended
  <2>7. Glyph(<<"WHERE">>, 1) = "WHERE"
    BY DEF Glyph
  <2> QED BY <1>2, <2>5, <2>6, <2>7 DEF Condition, F
<1> QED BY <1>1, <1>2

\* A form that ends with a condition.
LEMMA WithCondition ==
    ASSUME NEW t \in Names, NEW cs \in Lists, NEW vs \in Lists, NEW c \in Conditions,
           NEW head \in Seq(HeadWords(t, cs, vs)), NEW x, x = head \o Condition(c)
    PROVE  /\ Appended(FormWords(t, cs, vs, c), x, head, Condition(c))
           /\ Glyph(x, Len(head) + 1) \in {NUL, "WHERE"}
           /\ text = x => extract_where = c
<1> DEFINE F == FormWords(t, cs, vs, c)  H == HeadWords(t, cs, vs)
<1>1. Condition(c) \in Seq(F) /\ Glyph(Condition(c), 1) \in {NUL, "WHERE"}
  BY ConditionIs
<1>2. H \subseteq F /\ "WHERE" \notin H /\ head \in Seq(H)
  BY FormWordsAre
<1>3. text = x => extract_where = c
  BY <1>2, WrittenWhere
<1> HIDE DEF F, H
<1>4. head \in Seq(F)
  BY <1>2
<1>5. Appended(F, x, head, Condition(c))
  BY <1>1, <1>4, GlyphJoined
<1>6. Glyph(x, Len(head) + 1) = Glyph(Condition(c), 1)
  BY <1>5 DEF Appended
<1> QED BY <1>1, <1>3, <1>5, <1>6 DEF F

\* A list in parentheses.
EnclosedAt(s, o, items) ==
    /\ Glyph(s, o) = "(" /\ Glyph(s, o + 3 * Len(items) - 1) = ")"
    /\ ListAt(s, o + 1, items)

\* Enclosed writes one.
LEMMA EnclosedIs ==
    ASSUME NEW S, Delimiters \subseteq S, NEW items \in Seq(S), items # <<>>
    PROVE  /\ Enclosed(items) \in Seq(S) /\ Len(Enclosed(items)) = 3 * Len(items)
           /\ EnclosedAt(Enclosed(items), 1, items)
<1> DEFINE e == (<<"(">> \o Listed(items)) \o <<")">>  n == Len(items)
<1>1. e = Enclosed(items)
  BY DEF Enclosed
<1>2. <<"(">> \in Seq(S) /\ <<")">> \in Seq(S)
  BY DEF Delimiters
<1>3. ListBetween(S, e, <<"(">>, items, <<")">>)
  BY <1>2, ListJoined
<1> HIDE DEF e
<1>4. n \in Nat \ {0} /\ Len(<<"(">>) = 1 /\ Len(<<")">>) = 1
      /\ Glyph(<<"(">>, 1) = "(" /\ Glyph(<<")">>, 1) = ")"
  BY EmptySeq, LenProperties DEF Glyph
<1>5. Len(e) = 3 * n /\ Glyph(e, 1) = "(" /\ ListAt(e, 2, items) /\ e \in Seq(S)
  BY <1>3, <1>4 DEF ListBetween
<1>6. Glyph(e, 3 * n) = ")"
  <2>1. 1 + 3 * n - 2 + 1 = 3 * n
    BY <1>4
  <2> QED BY <1>3, <1>4, <2>1 DEF ListBetween
<1>7. 1 + 3 * n - 1 = 3 * n
  BY <1>4
<1> QED BY <1>1, <1>5, <1>6, <1>7 DEF EnclosedAt

\* The same in a longer text.
LEMMA EnclosedMoved ==
    ASSUME NEW items, Len(items) \in Nat \ {0}, NEW s, NEW o \in Nat \ {0}, EnclosedAt(s, o, items),
           NEW x, NEW e \in Nat, e >= o,
           \A p \in o .. o + 3 * Len(items) - 1 : Glyph(x, e - o + p) = Glyph(s, p)
    PROVE  EnclosedAt(x, e, items)
<1> DEFINE n == Len(items)
<1>1. ListAt(s, o + 1, items) /\ Glyph(s, o) = "(" /\ Glyph(s, o + 3 * n - 1) = ")"
  BY DEF EnclosedAt
<1>2. /\ o \in o .. o + 3 * n - 1 /\ o + 3 * n - 1 \in o .. o + 3 * n - 1
      /\ e + 3 * n - 1 = e - o + (o + 3 * n - 1)
      /\ e + 1 >= o + 1 /\ e + 1 - (o + 1) = e - o /\ o + 1 \in Nat \ {0}
      /\ \A p \in o + 1 .. o + 1 + 3 * n - 3 : p \in o .. o + 3 * n - 1
  OBVIOUS
<1>3. ListAt(x, e + 1, items)
  BY <1>1, <1>2, ListMoved
<1> QED BY <1>1, <1>2, <1>3 DEF EnclosedAt

\* What is made of a statement so far.
Made(kind, t, cs, vs, c) ==
    [type |-> kind, table |-> t, columns |-> cs, values |-> vs, where_clause |-> c]

\* The statement itself.
LEMMA WrittenStatements ==
    ASSUME NEW t, NEW cs, NEW vs, NEW c
    PROVE  /\ Written("SELECT", t, cs, vs, c).stmt = Made("SELECT", t, cs, <<>>, c)
           /\ Written("INSERT", t, cs, vs, c).stmt = Made("INSERT", t, cs, vs, NULL)
           /\ Written("UPDATE", t, cs, vs, c).stmt = Made("UPDATE", t, <<>>, vs, c)
           /\ Written("DELETE", t, cs, vs, c).stmt = Made("DELETE", t, <<>>, <<>>, c)
           /\ Written("CREATE", t, cs, vs, c).stmt = Made("CREATE", t, cs, <<>>, NULL)
  BY DEF Written, Made

\* SELECT as it is written: its columns, FROM, and the condition.
SelectText(x, t, cs, c) ==
    /\ Glyph(x, 1) = "SELECT" /\ ListAt(x, 2, cs)
    /\ Glyph(x, 3 * Len(cs)) = "FROM" /\ Glyph(x, 3 * Len(cs) + 1) = t
    /\ text = x => extract_where = c

\* Written writes SELECT so (sql_parser.c:113).
LEMMA SelectWritten ==
    ASSUME NEW t \in Names, NEW cs \in Lists, NEW vs \in Lists, NEW c \in Conditions
    PROVE  LET x == Written("SELECT", t, cs, vs, c).text
           IN  x \in Seq(FormWords(t, cs, vs, c)) /\ SelectText(x, t, cs, c)
<1> DEFINE x == Written("SELECT", t, cs, vs, c).text
           head == (<<"SELECT">> \o Listed(cs)) \o <<"FROM", t>>
           n == Len(cs)  H == HeadWords(t, cs, vs)
<1>1. x = head \o Condition(c)
  BY Zenon DEF Written
<1>2. n \in Nat \ {0} /\ cs # <<>>
  BY ListsAre
<1>3. cs \in Seq(H) /\ Delimiters \subseteq H /\ <<"SELECT">> \in Seq(H) /\ <<"FROM", t>> \in Seq(H)
  <2>1. cs \in Seq(H) /\ t \in H /\ Delimiters \cup Keywords \subseteq H
    BY FormWordsAre
  <2>2. "SELECT" \in H /\ "FROM" \in H
    BY <2>1 DEF Keywords, Kinds
  <2> HIDE DEF H
  <2> QED BY <2>1, <2>2
<1>4. ListBetween(H, head, <<"SELECT">>, cs, <<"FROM", t>>)
  <2> HIDE DEF H
  <2> QED BY <1>2, <1>3, ListJoined
<1> HIDE DEF head, x
<1>5. /\ head \in Seq(H) /\ Len(head) = 3 * n + 1 /\ Glyph(head, 1) = "SELECT"
      /\ ListAt(head, 2, cs)
      /\ Glyph(head, 3 * n) = "FROM" /\ Glyph(head, 3 * n + 1) = t
  <2> HIDE DEF H
  <2>1. /\ Len(<<"SELECT">>) = 1 /\ Len(<<"FROM", t>>) = 2 /\ Glyph(<<"SELECT">>, 1) = "SELECT"
        /\ Glyph(<<"FROM", t>>, 1) = "FROM" /\ Glyph(<<"FROM", t>>, 2) = t
    BY DEF Glyph
  <2>2. 1 + 3 * n - 2 + 1 = 3 * n /\ 1 + 3 * n - 2 + 2 = 3 * n + 1
    BY <1>2
  <2> QED BY <1>2, <1>4, <2>1, <2>2 DEF ListBetween
<1>6. /\ Appended(FormWords(t, cs, vs, c), x, head, Condition(c))
      /\ text = x => extract_where = c
  BY <1>1, <1>5, WithCondition
<1>7. \A p \in 1 .. 3 * n + 1 : Glyph(x, p) = Glyph(head, p)
  BY <1>5, <1>6 DEF Appended
<1>8. ListAt(x, 2, cs)
  <2>1. \A p \in 2 .. 2 + 3 * n - 3 : Glyph(x, 2 - 2 + p) = Glyph(head, p)
    BY <1>2, <1>7
  <2> QED BY <1>2, <1>5, <2>1, ListMoved
<1>9. /\ Glyph(x, 1) = "SELECT"
      /\ Glyph(x, 3 * n) = "FROM" /\ Glyph(x, 3 * n + 1) = t
  BY <1>2, <1>5, <1>7
<1>10. x \in Seq(FormWords(t, cs, vs, c))
  BY <1>6 DEF Appended
<1> QED BY <1>6, <1>8, <1>9, <1>10 DEF SelectText, x

\* UPDATE: the table, the values behind SET, and the condition.
UpdateText(x, t, vs, c) ==
    /\ Glyph(x, 1) = "UPDATE" /\ Glyph(x, 2) = t /\ Glyph(x, 3) = "SET" /\ ListAt(x, 4, vs)
    /\ Glyph(x, 3 * Len(vs) + 2) \in {NUL, "WHERE"}
    /\ text = x => extract_where = c

\* Written writes UPDATE so (sql_parser.c:188).
LEMMA UpdateWritten ==
    ASSUME NEW t \in Names, NEW cs \in Lists, NEW vs \in Lists, NEW c \in Conditions
    PROVE  LET x == Written("UPDATE", t, cs, vs, c).text
           IN  x \in Seq(FormWords(t, cs, vs, c)) /\ UpdateText(x, t, vs, c)
<1> DEFINE x == Written("UPDATE", t, cs, vs, c).text
           first == <<"UPDATE", t, "SET">>
           head == first \o Listed(vs)
           n == Len(vs)  H == HeadWords(t, cs, vs)  F == FormWords(t, cs, vs, c)
<1>1. x = head \o Condition(c)
  BY Zenon DEF Written
<1>2. n \in Nat \ {0} /\ vs # <<>>
  BY ListsAre
<1>3. vs \in Seq(H) /\ Delimiters \subseteq H /\ first \in Seq(H) /\ H \subseteq F
  <2>1. vs \in Seq(H) /\ t \in H /\ Delimiters \cup Keywords \subseteq H /\ H \subseteq F
    BY FormWordsAre
  <2>2. "UPDATE" \in H /\ "SET" \in H
    BY <2>1 DEF Keywords, Kinds
  <2> HIDE DEF H, F
  <2> QED BY <2>1, <2>2
<1>4. head \in Seq(H) /\ Len(head) = 3 * n + 1
  <2>1. Listed(vs) \in Seq(H \cup Delimiters) /\ Len(Listed(vs)) = 3 * n - 2
    BY <1>2, <1>3, ListedIs
  <2>2. H \cup Delimiters = H
    BY <1>3
  <2> HIDE DEF H
  <2>3. Appended(H, head, first, Listed(vs))
    BY <1>3, <2>1, <2>2, GlyphJoined
  <2> HIDE DEF head
  <2>4. Len(first) = 3
    OBVIOUS
  <2> QED BY <1>2, <2>1, <2>3, <2>4 DEF Appended
<1>5. /\ Glyph(x, 3 * n + 2) \in {NUL, "WHERE"}
      /\ text = x => extract_where = c
  <2>1. /\ Glyph(x, Len(head) + 1) \in {NUL, "WHERE"}
        /\ text = x => extract_where = c
    <3> HIDE DEF head, x
    <3> QED BY <1>1, <1>4, WithCondition
  <2>2. Len(head) + 1 = 3 * n + 2
    BY <1>2, <1>4
  <2> HIDE DEF head
  <2> QED BY <2>1, <2>2
<1>6. ListBetween(F, x, first, vs, Condition(c))
  <2>1. Condition(c) \in Seq(F)
    BY ConditionIs
  <2> HIDE DEF F, H
  <2>2. Delimiters \subseteq F /\ first \in Seq(F) /\ vs \in Seq(F)
    BY <1>3
  <2>3. ListBetween(F, (first \o Listed(vs)) \o Condition(c), first, vs, Condition(c))
    BY <1>2, <2>1, <2>2, ListJoined
  <2> HIDE DEF x, first
  <2> QED BY <1>1, <2>3 DEF head
<1> HIDE DEF x, F, H
<1>7. /\ x \in Seq(F) /\ Glyph(x, 1) = "UPDATE" /\ Glyph(x, 2) = t /\ Glyph(x, 3) = "SET"
      /\ ListAt(x, 4, vs)
  <2>1. Len(first) = 3 /\ Glyph(first, 1) = "UPDATE" /\ Glyph(first, 2) = t
        /\ Glyph(first, 3) = "SET"
    BY DEF Glyph
  <2> HIDE DEF first
  <2> QED BY <1>6, <2>1 DEF ListBetween
<1> QED BY <1>5, <1>7 DEF UpdateText, x, F

\* DELETE: the table behind FROM, and the condition.
DeleteText(x, t, c) ==
    /\ Glyph(x, 1) = "DELETE" /\ Glyph(x, 2) = "FROM" /\ Glyph(x, 3) = t
    /\ text = x => extract_where = c

\* Written writes DELETE so (sql_parser.c:214).
LEMMA DeleteWritten ==
    ASSUME NEW t \in Names, NEW cs \in Lists, NEW vs \in Lists, NEW c \in Conditions
    PROVE  LET x == Written("DELETE", t, cs, vs, c).text
           IN  x \in Seq(FormWords(t, cs, vs, c)) /\ DeleteText(x, t, c)
<1> DEFINE x == Written("DELETE", t, cs, vs, c).text
           head == <<"DELETE", "FROM", t>>
           H == HeadWords(t, cs, vs)
<1>1. x = head \o Condition(c)
  BY Zenon DEF Written
<1>2. head \in Seq(H)
  <2>1. t \in H /\ Delimiters \cup Keywords \subseteq H
    BY FormWordsAre
  <2>2. "DELETE" \in H /\ "FROM" \in H
    BY <2>1 DEF Keywords, Kinds
  <2> HIDE DEF H
  <2> QED BY <2>1, <2>2
<1>3. Len(head) = 3 /\ Glyph(head, 1) = "DELETE" /\ Glyph(head, 2) = "FROM" /\ Glyph(head, 3) = t
  BY DEF Glyph
<1> HIDE DEF head, x
<1>4. /\ Appended(FormWords(t, cs, vs, c), x, head, Condition(c))
      /\ text = x => extract_where = c
  BY <1>1, <1>2, WithCondition
<1>5. /\ x \in Seq(FormWords(t, cs, vs, c))
      /\ Glyph(x, 1) = "DELETE" /\ Glyph(x, 2) = "FROM" /\ Glyph(x, 3) = t
  BY <1>3, <1>4 DEF Appended
<1> QED BY <1>4, <1>5 DEF DeleteText, x

\* CREATE: the table, and its columns in parentheses.
CreateText(x, t, cs) ==
    /\ Glyph(x, 1) = "CREATE" /\ Glyph(x, 2) = "TABLE" /\ Glyph(x, 3) = t
    /\ EnclosedAt(x, 4, cs)

\* Written writes CREATE so (sql_parser.c:227).
LEMMA CreateWritten ==
    ASSUME NEW t \in Names, NEW cs \in Lists, NEW vs \in Lists, NEW c \in Conditions
    PROVE  LET x == Written("CREATE", t, cs, vs, c).text
           IN  x \in Seq(FormWords(t, cs, vs, c)) /\ CreateText(x, t, cs)
<1> DEFINE x == Written("CREATE", t, cs, vs, c).text
           head == <<"CREATE", "TABLE", t>>
           n == Len(cs)  F == FormWords(t, cs, vs, c)
<1>1. x = head \o Enclosed(cs)
  BY Zenon DEF Written
<1>2. n \in Nat \ {0} /\ cs # <<>>
  BY ListsAre
<1>3. cs \in Seq(F) /\ Delimiters \subseteq F /\ head \in Seq(F)
  <2> DEFINE H == HeadWords(t, cs, vs)
  <2>1. cs \in Seq(H) /\ t \in H /\ Delimiters \cup Keywords \subseteq H /\ H \subseteq F
    BY FormWordsAre
  <2>2. "CREATE" \in H /\ "TABLE" \in H
    BY <2>1 DEF Keywords, Kinds
  <2> HIDE DEF H, F
  <2> QED BY <2>1, <2>2
<1>4. Enclosed(cs) \in Seq(F) /\ Len(Enclosed(cs)) = 3 * n /\ EnclosedAt(Enclosed(cs), 1, cs)
  BY <1>2, <1>3, EnclosedIs
<1> HIDE DEF F
<1>5. Appended(F, x, head, Enclosed(cs))
  <2> HIDE DEF head
  <2> QED BY <1>1, <1>3, <1>4, GlyphJoined
<1>6. Len(head) = 3 /\ Glyph(head, 1) = "CREATE" /\ Glyph(head, 2) = "TABLE" /\ Glyph(head, 3) = t
  BY DEF Glyph
<1> HIDE DEF head, x
<1>7. EnclosedAt(x, 4, cs)
  <2>1. \A p \in 1 .. 1 + 3 * n - 1 : Glyph(x, 4 - 1 + p) = Glyph(Enclosed(cs), p)
    BY <1>2, <1>5, <1>6 DEF Appended
  <2> QED BY <1>2, <1>4, <2>1, EnclosedMoved
<1>8. x \in Seq(F) /\ Glyph(x, 1) = "CREATE" /\ Glyph(x, 2) = "TABLE" /\ Glyph(x, 3) = t
  BY <1>5, <1>6 DEF Appended
<1> QED BY <1>7, <1>8 DEF CreateText, x, F

\* INSERT: the table, its columns in parentheses, and the values in others.
InsertText(x, t, cs, vs) ==
    /\ Glyph(x, 1) = "INSERT" /\ Glyph(x, 2) = "INTO" /\ Glyph(x, 3) = t
    /\ EnclosedAt(x, 4, cs)
    /\ Glyph(x, 3 * Len(cs) + 4) = "VALUES"
    /\ EnclosedAt(x, 3 * Len(cs) + 5, vs)

\* Written writes INSERT so (sql_parser.c:141).
LEMMA InsertWritten ==
    ASSUME NEW t \in Names, NEW cs \in Lists, NEW vs \in Lists, NEW c \in Conditions
    PROVE  LET x == Written("INSERT", t, cs, vs, c).text
           IN  x \in Seq(FormWords(t, cs, vs, c)) /\ InsertText(x, t, cs, vs)
<1> DEFINE x == Written("INSERT", t, cs, vs, c).text
           head == <<"INSERT", "INTO", t>>
           he == head \o Enclosed(cs)
           hev == he \o <<"VALUES">>
           n == Len(cs)  m == Len(vs)  F == FormWords(t, cs, vs, c)
<1>1. x = hev \o Enclosed(vs)
  BY Zenon DEF Written
<1>2. n \in Nat \ {0} /\ cs # <<>> /\ m \in Nat \ {0} /\ vs # <<>>
  BY ListsAre
<1>3. /\ cs \in Seq(F) /\ vs \in Seq(F) /\ Delimiters \subseteq F
      /\ head \in Seq(F) /\ <<"VALUES">> \in Seq(F)
  <2> DEFINE H == HeadWords(t, cs, vs)
  <2>1. /\ cs \in Seq(H) /\ vs \in Seq(H) /\ t \in H
        /\ Delimiters \cup Keywords \subseteq H /\ H \subseteq F
    BY FormWordsAre
  <2>2. "INSERT" \in H /\ "INTO" \in H /\ "VALUES" \in H
    BY <2>1 DEF Keywords, Kinds
  <2> HIDE DEF H, F
  <2> QED BY <2>1, <2>2
<1>4. /\ Enclosed(cs) \in Seq(F) /\ Len(Enclosed(cs)) = 3 * n /\ EnclosedAt(Enclosed(cs), 1, cs)
      /\ Enclosed(vs) \in Seq(F) /\ Len(Enclosed(vs)) = 3 * m /\ EnclosedAt(Enclosed(vs), 1, vs)
  BY <1>2, <1>3, EnclosedIs
<1> HIDE DEF F
<1>5. Len(head) = 3 /\ Glyph(head, 1) = "INSERT" /\ Glyph(head, 2) = "INTO" /\ Glyph(head, 3) = t
  BY DEF Glyph
<1> HIDE DEF head, x
<1>6. Appended(F, he, head, Enclosed(cs))
  BY <1>3, <1>4, GlyphJoined
<1> HIDE DEF he
<1>7. he \in Seq(F)
  BY <1>6 DEF Appended
<1>8. Appended(F, hev, he, <<"VALUES">>)
  BY <1>3, <1>7, GlyphJoined
<1> HIDE DEF hev
<1>9. hev \in Seq(F)
  BY <1>8 DEF Appended
<1>10. Appended(F, x, hev, Enclosed(vs))
  BY <1>1, <1>4, <1>9, GlyphJoined
<1>11. Len(he) = 3 + 3 * n /\ Len(hev) = 4 + 3 * n
  <2>1. Len(<<"VALUES">>) = 1
    OBVIOUS
  <2> QED BY <1>2, <1>4, <1>5, <1>6, <1>8, <2>1 DEF Appended
<1>12. \A p \in 1 .. 3 + 3 * n : Glyph(x, p) = Glyph(he, p)
  <2>1. \A p \in 1 .. 3 + 3 * n : p \in 1 .. Len(he) /\ p \in 1 .. Len(hev)
    BY <1>2, <1>11
  <2> QED BY <1>8, <1>10, <2>1 DEF Appended
<1>13. Glyph(x, 1) = "INSERT" /\ Glyph(x, 2) = "INTO" /\ Glyph(x, 3) = t
  <2>1. Glyph(he, 1) = "INSERT" /\ Glyph(he, 2) = "INTO" /\ Glyph(he, 3) = t
    BY <1>5, <1>6 DEF Appended
  <2> QED BY <1>2, <1>12, <2>1
<1>14. EnclosedAt(x, 4, cs)
  <2>1. ASSUME NEW p \in 1 .. 1 + 3 * n - 1 PROVE Glyph(x, 4 - 1 + p) = Glyph(Enclosed(cs), p)
    <3>1. 3 + p \in 1 .. 3 + 3 * n /\ p \in Nat \ {0}
      BY <1>2
    <3>2. Glyph(he, 3 + p) = Glyph(Enclosed(cs), p)
      BY <1>5, <1>6, <3>1 DEF Appended
    <3> QED BY <1>12, <3>1, <3>2
  <2> QED BY <1>2, <1>4, <2>1, EnclosedMoved
<1>15. Glyph(x, 3 * n + 4) = "VALUES"
  <2>1. 3 * n + 4 = Len(he) + 1 /\ 3 * n + 4 \in 1 .. Len(hev)
    BY <1>2, <1>11
  <2>2. Glyph(hev, Len(he) + 1) = Glyph(<<"VALUES">>, 1)
    BY <1>8 DEF Appended
  <2>3. Glyph(<<"VALUES">>, 1) = "VALUES"
    BY DEF Glyph
  <2> QED BY <1>10, <2>1, <2>2, <2>3 DEF Appended
<1>16. EnclosedAt(x, 3 * n + 5, vs)
  <2>1. \A p \in 1 .. 1 + 3 * m - 1 : Glyph(x, Len(hev) + p) = Glyph(Enclosed(vs), p)
    BY <1>2, <1>10 DEF Appended
  <2>2. EnclosedAt(x, Len(hev) + 1, vs)
    BY <1>2, <1>4, <1>11, <2>1, EnclosedMoved
  <2>3. Len(hev) + 1 = 3 * n + 5
    BY <1>2, <1>11
  <2> QED BY <2>2, <2>3
<1>17. x \in Seq(F)
  BY <1>10 DEF Appended
<1> QED BY <1>13, <1>14, <1>15, <1>16, <1>17 DEF InsertText, x, F
-----------------------------------------------------------------------------
(* How a statement as it is written is read. *)

SelectRead(t, cs, c) ==
    \/ /\ at = "select"
       /\ \E k \in 0 .. Len(cs) : /\ pos = ItemAt(2, Len(cs), k)
                                  /\ stmt = Made("SELECT", NULL, SubSeq(cs, 1, k), <<>>, NULL)
    \/ at = "done" /\ stmt = Made("SELECT", t, cs, <<>>, c)

InsertRead(t, cs, vs) ==
    \/ at = "INSERT" /\ pos = 2 /\ stmt = Made("INSERT", NULL, <<>>, <<>>, NULL)
    \/ /\ at = "columns"
       /\ \E k \in 0 .. Len(cs) : /\ pos = ItemAt(5, Len(cs), k)
                                  /\ stmt = Made("INSERT", t, SubSeq(cs, 1, k), <<>>, NULL)
    \/ at = "VALUES" /\ pos = 3 * Len(cs) + 4 /\ stmt = Made("INSERT", t, cs, <<>>, NULL)
    \/ /\ at = "values"
       /\ \E k \in 0 .. Len(vs) : /\ pos = ItemAt(3 * Len(cs) + 6, Len(vs), k)
                                  /\ stmt = Made("INSERT", t, cs, SubSeq(vs, 1, k), NULL)
    \/ at = "done" /\ stmt = Made("INSERT", t, cs, vs, NULL)

UpdateRead(t, vs, c) ==
    \/ at = "UPDATE" /\ pos = 2 /\ stmt = Made("UPDATE", NULL, <<>>, <<>>, NULL)
    \/ /\ at = "set"
       /\ \E k \in 0 .. Len(vs) : /\ pos = ItemAt(4, Len(vs), k)
                                  /\ stmt = Made("UPDATE", t, <<>>, SubSeq(vs, 1, k), NULL)
    \/ at = "done" /\ stmt = Made("UPDATE", t, <<>>, vs, c)

DeleteRead(t, c) ==
    \/ at = "DELETE" /\ pos = 2 /\ stmt = Made("DELETE", NULL, <<>>, <<>>, NULL)
    \/ at = "done" /\ stmt = Made("DELETE", t, <<>>, <<>>, c)

CreateRead(t, cs) ==
    \/ at = "CREATE" /\ pos = 2 /\ stmt = Made("CREATE", NULL, <<>>, <<>>, NULL)
    \/ /\ at = "create"
       /\ \E k \in 0 .. Len(cs) : /\ pos = ItemAt(5, Len(cs), k)
                                  /\ stmt = Made("CREATE", t, SubSeq(cs, 1, k), <<>>, NULL)
    \/ at = "done" /\ stmt = Made("CREATE", t, cs, <<>>, NULL)

\* Wherever the text is a form, the parser is at a place of it, with what it has read there.
FormsRead == \A t \in Names, cs \in Lists, vs \in Lists, c \in Conditions :
    /\ text = Written("SELECT", t, cs, vs, c).text => SelectRead(t, cs, c)
    /\ text = Written("INSERT", t, cs, vs, c).text => InsertRead(t, cs, vs)
    /\ text = Written("UPDATE", t, cs, vs, c).text => UpdateRead(t, vs, c)
    /\ text = Written("DELETE", t, cs, vs, c).text => DeleteRead(t, c)
    /\ text = Written("CREATE", t, cs, vs, c).text => CreateRead(t, cs)

\* Which step is taken where.
LEMMA StepsAre ==
    ASSUME ParseStep
    PROVE  \/ at = "INSERT" /\ InsertHead
           \/ at = "VALUES" /\ ValuesHead
           \/ at = "UPDATE" /\ UpdateHead
           \/ at = "DELETE" /\ DeleteHead
           \/ at = "CREATE" /\ CreateHead
           \/ at \in Loops /\ Turn
           \/ at = "select" /\ SelectEnds
           \/ at = "columns" /\ ColumnsEnd
           \/ at \in {"values", "create"} /\ ListEnds
           \/ at = "set" /\ SetEnds
<1>1. InsertHead => at = "INSERT"
  BY DEF InsertHead
<1>2. ValuesHead => at = "VALUES"
  BY DEF ValuesHead
<1>3. UpdateHead => at = "UPDATE"
  BY DEF UpdateHead
<1>4. DeleteHead => at = "DELETE"
  BY DEF DeleteHead
<1>5. CreateHead => at = "CREATE"
  BY DEF CreateHead
<1>6. Turn => at \in Loops
  BY DEF Turn
<1>7. /\ SelectEnds => at = "select"
      /\ ColumnsEnd => at = "columns"
      /\ ListEnds => at \in {"values", "create"}
      /\ SetEnds => at = "set"
  BY DEF SelectEnds, ColumnsEnd, ListEnds, SetEnds
<1> QED BY <1>1, <1>2, <1>3, <1>4, <1>5, <1>6, <1>7, Zenon DEF ParseStep

\* What stops some loop.
LEMMA StopsAmong ==
    ASSUME NEW loop \in Loops
    PROVE  Stops(loop) \subseteq {NUL, "FROM", "WHERE", SEMICOLON, ")"}
<1>1. CASE loop = "select"
  BY <1>1 DEF Stops
<1>2. CASE loop = "set"
  BY <1>2 DEF Stops
<1>3. CASE loop \in {"columns", "values", "create"}
  <2>1. Stops(loop) = {NUL, ")"}
    BY <1>3, StopsAre
  <2> QED BY <2>1
<1> QED BY <1>1, <1>2, <1>3 DEF Loops

\* A loop takes the items of a list as it is written, one in a turn, and ends behind it
\* (sql_parser.c:117, 152, 171, 196, 238).
LEMMA LoopGoesOn ==
    ASSUME ParseInv, ParseStep, at \in Loops, NEW items \in Lists, NEW o \in Nat \ {0},
           ListAt(text, o, items), At(o + 3 * Len(items) - 2) \in Stops(at),
           NEW k \in 0 .. Len(items), pos = ItemAt(o, Len(items), k)
    PROVE  \/ /\ k \in 0 .. Len(items) - 1 /\ k + 1 \in 0 .. Len(items)
              /\ pos' = ItemAt(o, Len(items), k + 1) /\ at' = at /\ text' = text
              /\ Add(SubSeq(items, 1, k), items[k + 1]) = SubSeq(items, 1, k + 1)
              /\ at \in {"values", "set"} =>
                     stmt' = [stmt EXCEPT !.values = Add(@, items[k + 1])]
              /\ at \notin {"values", "set"} =>
                     stmt' = [stmt EXCEPT !.columns = Add(@, items[k + 1])]
           \/ /\ k = Len(items) /\ pos = o + 3 * Len(items) - 2
              /\ SubSeq(items, 1, k) = items
              /\ \/ at = "select" /\ SelectEnds
                 \/ at = "columns" /\ ColumnsEnd
                 \/ at \in {"values", "create"} /\ ListEnds
                 \/ at = "set" /\ SetEnds
<1> DEFINE n == Len(items)
<1>1. text \in Seq(Lexemes) /\ n \in Nat \ {0}
  BY ListsAre DEF ParseInv
<1>2. \/ Turn
      \/ at = "select" /\ SelectEnds
      \/ at = "columns" /\ ColumnsEnd
      \/ at \in {"values", "create"} /\ ListEnds
      \/ at = "set" /\ SetEnds
  BY StepsAre DEF Loops
<1>3. Stops(at) \subseteq {NUL, "FROM", "WHERE", SEMICOLON, ")"}
  BY StopsAmong
<1>4. At(o + 3 * n - 2) \notin {SPACE, COMMA}
  BY <1>3 DEF SPACE, COMMA, NUL, SEMICOLON
<1>5. /\ Turn => At(pos) \notin Stops(at)
      /\ SelectEnds \/ ColumnsEnd \/ ListEnds \/ SetEnds => At(pos) \in Stops(at)
  BY DEF Turn, SelectEnds, ColumnsEnd, ListEnds, SetEnds
<1>6. CASE k # n
  <2>1. k \in 0 .. n - 1 /\ k + 1 \in 0 .. n
    BY <1>1, <1>6
  <2>2. /\ At(pos) \notin {NUL, "FROM", "WHERE", SEMICOLON, ")"}
        /\ extract_token(pos).token = items[k + 1]
        /\ PastComma(Skip(extract_token(pos).next)) = ItemAt(o, n, k + 1)
    BY <1>1, <1>4, <2>1, ItemTaken
  <2>3. Turn
    BY <1>2, <1>3, <1>5, <2>2
  <2>4. /\ pos' = PastComma(Skip(extract_token(pos).next)) /\ at' = at /\ text' = text
        /\ stmt' = IF at \in {"values", "set"}
                   THEN [stmt EXCEPT !.values = Add(@, extract_token(pos).token)]
                   ELSE [stmt EXCEPT !.columns = Add(@, extract_token(pos).token)]
    BY <2>3 DEF Turn
  <2>5. Add(SubSeq(items, 1, k), items[k + 1]) = SubSeq(items, 1, k + 1)
    BY <2>1, OneMore
  <2> QED BY <2>1, <2>2, <2>4, <2>5
<1>7. CASE k = n
  <2>1. pos = o + 3 * n - 2
    BY <1>1, <1>7 DEF ItemAt
  <2>2. ~Turn
    BY <1>5, <2>1
  <2>3. SubSeq(items, 1, k) = items
    BY <1>7, NoneOrAll
  <2> QED BY <1>2, <1>7, <2>1, <2>2, <2>3
<1> QED BY <1>6, <1>7

\* Filling in the table and the condition is one after the other.
LEMMA BothParts ==
    ASSUME NEW s, NEW w, NEW u
    PROVE  [s EXCEPT !.table = w, !.where_clause = u]
             = [[s EXCEPT !.table = w] EXCEPT !.where_clause = u]
  OBVIOUS

\* The name behind a keyword, without a space between them.
LEMMA TableThere ==
    ASSUME text \in Seq(Lexemes), pos \in Nat \ {0}, NEW keyword, keyword # SPACE,
           At(pos) = keyword, At(pos + 1) \notin Reserved
    PROVE  TableAfter(keyword).token = At(pos + 1) /\ TableAfter(keyword).next = pos + 2
<1>1. Skip(pos) = pos
  BY SkipPasses
<1>2. At(pos + 1) # SPACE /\ At(pos + 1) \notin Delimiters \cup {NUL} /\ pos + 1 \in Nat \ {0}
  <2>1. SPACE \in Delimiters /\ Delimiters \cup {NUL} \subseteq Reserved
    BY DEF Reserved, Delimiters
  <2>2. pos + 1 \in Nat \ {0}
    OBVIOUS
  <2> QED BY <2>1, <2>2
<1>3. Skip(pos + 1) = pos + 1
  BY <1>2, SkipPasses
<1>4. TableAfter(keyword) = extract_token(pos + 1)
  BY <1>1, Zenon DEF TableAfter
<1> HIDE DEF TableAfter
<1>5. extract_token(pos + 1).token = At(pos + 1) /\ extract_token(pos + 1).next = pos + 1 + 1
  BY <1>2, <1>3, TokenThere
<1> QED BY <1>4, <1>5

\* The lexemes of the text, as At gives them.
LEMMA AtIs == \A p : At(p) = Glyph(text, p)
  BY DEF At, Glyph

\* SELECT: the columns, then the table and the condition (sql_parser.c:113).
LEMMA SelectGoesOn ==
    ASSUME ParseInv, ParseStep, NEW t \in Names, NEW cs \in Lists, NEW vs \in Lists,
           NEW c \in Conditions, text = Written("SELECT", t, cs, vs, c).text, SelectRead(t, cs, c)
    PROVE  text' = text /\ SelectRead(t, cs, c)'
<1> DEFINE n == Len(cs)
<1>1. text \in Seq(Lexemes) /\ n \in Nat \ {0} /\ t \notin Reserved
  BY ListsAre, FormsAssumption DEF ParseInv
<1>2. ListAt(text, 2, cs) /\ At(3 * n) = "FROM" /\ At(3 * n + 1) = t /\ extract_where = c
  BY SelectWritten, AtIs DEF SelectText
<1>3. at = "select"
  BY StepsAre DEF SelectRead, Loops
<1>4. PICK k \in 0 .. n : /\ pos = ItemAt(2, n, k)
                          /\ stmt = Made("SELECT", NULL, SubSeq(cs, 1, k), <<>>, NULL)
  BY <1>3 DEF SelectRead
<1>5. at \in Loops /\ Stops(at) = {NUL, "FROM"} /\ 2 + 3 * n - 2 = 3 * n
  BY <1>1, <1>3 DEF Loops, Stops
<1>6. \/ /\ k \in 0 .. n - 1 /\ k + 1 \in 0 .. n
         /\ pos' = ItemAt(2, n, k + 1) /\ at' = at /\ text' = text
         /\ Add(SubSeq(cs, 1, k), cs[k + 1]) = SubSeq(cs, 1, k + 1)
         /\ stmt' = [stmt EXCEPT !.columns = Add(@, cs[k + 1])]
      \/ k = n /\ pos = 3 * n /\ SubSeq(cs, 1, k) = cs /\ SelectEnds
  BY <1>2, <1>3, <1>4, <1>5, LoopGoesOn
<1>7. CASE /\ k + 1 \in 0 .. n
           /\ pos' = ItemAt(2, n, k + 1) /\ at' = at /\ text' = text
           /\ Add(SubSeq(cs, 1, k), cs[k + 1]) = SubSeq(cs, 1, k + 1)
           /\ stmt' = [stmt EXCEPT !.columns = Add(@, cs[k + 1])]
  <2>1. stmt' = Made("SELECT", NULL, SubSeq(cs, 1, k + 1), <<>>, NULL)
    BY <1>4, <1>7 DEF Made
  <2> QED BY <1>3, <1>7, <2>1 DEF SelectRead
<1>8. CASE pos = 3 * n /\ SubSeq(cs, 1, k) = cs /\ SelectEnds
  <2>1. extract_token(pos + 1).token = t
    <3>1. pos + 1 = 3 * n + 1 /\ pos + 1 \in Nat \ {0}
      BY <1>1, <1>8
    <3>2. At(pos + 1) = t
      BY <1>2, <3>1
    <3>3. t # SPACE /\ t \notin Delimiters \cup {NUL}
      BY <1>1 DEF Reserved, Delimiters
    <3>4. Skip(pos + 1) = pos + 1
      BY <1>1, <3>1, <3>2, <3>3, SkipPasses
    <3> QED BY <3>2, <3>3, <3>4, TokenThere
  <2>2. At(pos) = "FROM"
    BY <1>2, <1>8
  <2>3. /\ at' = "done" /\ text' = text
        /\ stmt' = [stmt EXCEPT !.table = extract_token(pos + 1).token,
                                !.where_clause = extract_where]
    BY <1>8, <2>2 DEF SelectEnds
  <2>4. stmt' = Made("SELECT", t, cs, <<>>, c)
    <3>1. stmt' = [[stmt EXCEPT !.table = t] EXCEPT !.where_clause = c]
      BY <1>2, <2>1, <2>3, BothParts
    <3> QED BY <1>4, <1>8, <3>1 DEF Made
  <2> QED BY <2>3, <2>4 DEF SelectRead
<1> QED BY <1>6, <1>7, <1>8

\* INSERT: the table, the columns, VALUES, and the values (sql_parser.c:141).
LEMMA InsertGoesOn ==
    ASSUME ParseInv, ParseStep, NEW t \in Names, NEW cs \in Lists, NEW vs \in Lists,
           NEW c \in Conditions, text = Written("INSERT", t, cs, vs, c).text, InsertRead(t, cs, vs)
    PROVE  text' = text /\ InsertRead(t, cs, vs)'
<1> DEFINE n == Len(cs)  m == Len(vs)
<1>1. text \in Seq(Lexemes) /\ n \in Nat \ {0} /\ m \in Nat \ {0} /\ t \notin Reserved
  BY ListsAre, FormsAssumption DEF ParseInv
<1>2. /\ At(2) = "INTO" /\ At(3) = t /\ At(4) = "(" /\ ListAt(text, 5, cs)
      /\ At(3 * n + 3) = ")" /\ At(3 * n + 4) = "VALUES" /\ At(3 * n + 5) = "("
      /\ ListAt(text, 3 * n + 6, vs) /\ At(3 * n + 6 + 3 * m - 2) = ")"
  <2>1. InsertText(text, t, cs, vs)
    BY InsertWritten
  <2>2. /\ 4 + 3 * n - 1 = 3 * n + 3 /\ 3 * n + 5 + 1 = 3 * n + 6 /\ 4 + 1 = 5
        /\ 3 * n + 5 + 3 * m - 1 = 3 * n + 6 + 3 * m - 2
    BY <1>1
  <2> QED BY <2>1, <2>2, AtIs DEF InsertText, EnclosedAt
<1>3. CASE at = "INSERT"
  <2>1. InsertHead /\ pos = 2 /\ stmt = Made("INSERT", NULL, <<>>, <<>>, NULL)
    BY <1>3, StepsAre DEF InsertRead, Loops
  <2>2. TableAfter("INTO").token = t /\ TableAfter("INTO").next = 4
    <3>1. At(pos) = "INTO" /\ At(pos + 1) = t /\ pos \in Nat \ {0} /\ "INTO" # SPACE
      BY <1>2, <2>1 DEF SPACE
    <3>2. TableAfter("INTO").token = t /\ TableAfter("INTO").next = pos + 2
      BY <1>1, <3>1, TableThere
    <3> QED BY <2>1, <3>2
  <2>3. Skip(4) = 4
    BY <1>1, <1>2, SkipPasses DEF SPACE
  <2>4. /\ text' = text /\ at' = "columns" /\ pos' = 5
        /\ stmt' = [stmt EXCEPT !.table = t]
    BY <1>2, <2>1, <2>2, <2>3 DEF InsertHead
  <2>5. stmt' = Made("INSERT", t, SubSeq(cs, 1, 0), <<>>, NULL)
    BY <2>1, <2>4, NoneOrAll DEF Made
  <2>6. pos' = ItemAt(5, n, 0) /\ 0 \in 0 .. n
    BY <1>1, <2>4 DEF ItemAt
  <2> QED BY <2>4, <2>5, <2>6 DEF InsertRead
<1>4. CASE at = "columns"
  <2>1. PICK k \in 0 .. n : /\ pos = ItemAt(5, n, k)
                            /\ stmt = Made("INSERT", t, SubSeq(cs, 1, k), <<>>, NULL)
    BY <1>4 DEF InsertRead
  <2>2. at \in Loops /\ Stops(at) = {NUL, ")"} /\ 5 + 3 * n - 2 = 3 * n + 3
    BY <1>1, <1>4, StopsAre DEF Loops
  <2>3. \/ /\ k \in 0 .. n - 1 /\ k + 1 \in 0 .. n
           /\ pos' = ItemAt(5, n, k + 1) /\ at' = at /\ text' = text
           /\ Add(SubSeq(cs, 1, k), cs[k + 1]) = SubSeq(cs, 1, k + 1)
           /\ stmt' = [stmt EXCEPT !.columns = Add(@, cs[k + 1])]
        \/ pos = 3 * n + 3 /\ SubSeq(cs, 1, k) = cs /\ ColumnsEnd
    BY <1>2, <1>4, <2>1, <2>2, LoopGoesOn, SMTT(30)
  <2>4. CASE /\ k + 1 \in 0 .. n
             /\ pos' = ItemAt(5, n, k + 1) /\ at' = at /\ text' = text
             /\ Add(SubSeq(cs, 1, k), cs[k + 1]) = SubSeq(cs, 1, k + 1)
             /\ stmt' = [stmt EXCEPT !.columns = Add(@, cs[k + 1])]
    <3>1. stmt' = Made("INSERT", t, SubSeq(cs, 1, k + 1), <<>>, NULL)
      BY <2>1, <2>4 DEF Made
    <3> QED BY <1>4, <2>4, <3>1 DEF InsertRead
  <2>5. CASE pos = 3 * n + 3 /\ SubSeq(cs, 1, k) = cs /\ ColumnsEnd
    <3>1. At(pos) # NUL
      BY <1>2, <2>5 DEF NUL
    <3>2. text' = text /\ at' = "VALUES" /\ pos' = pos + 1 /\ stmt' = stmt
      BY <2>5, <3>1 DEF ColumnsEnd
    <3>3. pos' = 3 * n + 4
      BY <1>1, <2>5, <3>2
    <3>4. stmt' = Made("INSERT", t, cs, <<>>, NULL)
      BY <2>1, <2>5, <3>2
    <3> QED BY <3>2, <3>3, <3>4 DEF InsertRead
  <2> QED BY <2>3, <2>4, <2>5
<1>5. CASE at = "VALUES"
  <2>1. ValuesHead /\ pos = 3 * n + 4 /\ stmt = Made("INSERT", t, cs, <<>>, NULL)
    BY <1>5, StepsAre DEF InsertRead, Loops
  <2>2. Skip(pos) = pos /\ pos + 1 = 3 * n + 5 /\ At(pos) = "VALUES"
    BY <1>1, <1>2, <2>1, SkipPasses DEF SPACE
  <2>3. Skip(pos + 1) = pos + 1 /\ At(pos + 1) = "("
    BY <1>1, <1>2, <2>2, SkipPasses DEF SPACE
  <2>4. text' = text /\ stmt' = stmt /\ at' = "values" /\ pos' = pos + 1 + 1
    BY <2>1, <2>2, <2>3 DEF ValuesHead
  <2>5. stmt' = Made("INSERT", t, cs, SubSeq(vs, 1, 0), NULL)
    BY <2>1, <2>4, NoneOrAll
  <2>6. pos' = ItemAt(3 * n + 6, m, 0) /\ 0 \in 0 .. m
    BY <1>1, <2>1, <2>4 DEF ItemAt
  <2> QED BY <2>4, <2>5, <2>6 DEF InsertRead
<1>6. CASE at = "values"
  <2>1. PICK k \in 0 .. m : /\ pos = ItemAt(3 * n + 6, m, k)
                            /\ stmt = Made("INSERT", t, cs, SubSeq(vs, 1, k), NULL)
    BY <1>6 DEF InsertRead
  <2>2. at \in Loops /\ Stops(at) = {NUL, ")"} /\ 3 * n + 6 \in Nat \ {0}
    BY <1>1, <1>6, StopsAre DEF Loops
  <2>3. \/ /\ k \in 0 .. m - 1 /\ k + 1 \in 0 .. m
           /\ pos' = ItemAt(3 * n + 6, m, k + 1) /\ at' = at /\ text' = text
           /\ Add(SubSeq(vs, 1, k), vs[k + 1]) = SubSeq(vs, 1, k + 1)
           /\ stmt' = [stmt EXCEPT !.values = Add(@, vs[k + 1])]
        \/ SubSeq(vs, 1, k) = vs /\ ListEnds
    BY <1>2, <1>6, <2>1, <2>2, LoopGoesOn
  <2>4. CASE /\ k + 1 \in 0 .. m
             /\ pos' = ItemAt(3 * n + 6, m, k + 1) /\ at' = at /\ text' = text
             /\ Add(SubSeq(vs, 1, k), vs[k + 1]) = SubSeq(vs, 1, k + 1)
             /\ stmt' = [stmt EXCEPT !.values = Add(@, vs[k + 1])]
    <3>1. stmt' = Made("INSERT", t, cs, SubSeq(vs, 1, k + 1), NULL)
      BY <2>1, <2>4 DEF Made
    <3> QED BY <1>6, <2>4, <3>1 DEF InsertRead
  <2>5. CASE SubSeq(vs, 1, k) = vs /\ ListEnds
    <3>1. text' = text /\ at' = "done" /\ stmt' = stmt
      BY <2>5 DEF ListEnds
    <3> QED BY <2>1, <2>5, <3>1 DEF InsertRead
  <2> QED BY <2>3, <2>4, <2>5
<1>7. at # "done"
  BY StepsAre DEF Loops
<1> QED BY <1>3, <1>4, <1>5, <1>6, <1>7 DEF InsertRead

\* UPDATE: the table, the values, and the condition (sql_parser.c:188).
LEMMA UpdateGoesOn ==
    ASSUME ParseInv, ParseStep, NEW t \in Names, NEW cs \in Lists, NEW vs \in Lists,
           NEW c \in Conditions, text = Written("UPDATE", t, cs, vs, c).text, UpdateRead(t, vs, c)
    PROVE  text' = text /\ UpdateRead(t, vs, c)'
<1> DEFINE n == Len(vs)
<1>1. text \in Seq(Lexemes) /\ n \in Nat \ {0} /\ t \notin Reserved
  BY ListsAre, FormsAssumption DEF ParseInv
<1>2. /\ At(2) = t /\ At(3) = "SET" /\ ListAt(text, 4, vs)
      /\ At(3 * n + 2) \in {NUL, "WHERE"} /\ extract_where = c
  BY UpdateWritten, AtIs DEF UpdateText
<1>3. CASE at = "UPDATE"
  <2>1. UpdateHead /\ pos = 2 /\ stmt = Made("UPDATE", NULL, <<>>, <<>>, NULL)
    BY <1>3, StepsAre DEF UpdateRead, Loops
  <2>2. t # SPACE /\ t \notin Delimiters \cup {NUL}
    BY <1>1 DEF Reserved, Delimiters
  <2>3. Skip(2) = 2 /\ Skip(3) = 3
    BY <1>1, <1>2, <2>2, SkipPasses DEF SPACE
  <2>4. extract_token(2).token = t /\ extract_token(2).next = 3
    BY <1>2, <2>2, <2>3, TokenThere
  <2>5. Skip(4) = 4
    <3>1. Glyph(text, 4 + 3 * 1 - 3) = vs[1]
      BY <1>1, <1>2 DEF ListAt
    <3>2. vs[1] \notin Reserved
      <4>1. \A i \in 1 .. n : vs[i] \notin Reserved
        BY ListsAre
      <4> QED BY <1>1, <4>1
    <3>3. At(4) # SPACE
      <4>1. SPACE \in Reserved /\ 4 + 3 * 1 - 3 = 4
        BY DEF Reserved, Delimiters
      <4> QED BY <3>1, <3>2, <4>1, AtIs
    <3> QED BY <1>1, <3>3, SkipPasses
  <2>6. /\ text' = text /\ at' = "set" /\ pos' = 4
        /\ stmt' = [stmt EXCEPT !.table = t]
    BY <1>2, <2>1, <2>3, <2>4, <2>5 DEF UpdateHead
  <2>7. stmt' = Made("UPDATE", t, <<>>, SubSeq(vs, 1, 0), NULL)
    BY <2>1, <2>6, NoneOrAll DEF Made
  <2>8. pos' = ItemAt(4, n, 0) /\ 0 \in 0 .. n
    BY <1>1, <2>6 DEF ItemAt
  <2> QED BY <2>6, <2>7, <2>8 DEF UpdateRead
<1>4. CASE at = "set"
  <2>1. PICK k \in 0 .. n : /\ pos = ItemAt(4, n, k)
                            /\ stmt = Made("UPDATE", t, <<>>, SubSeq(vs, 1, k), NULL)
    BY <1>4 DEF UpdateRead
  <2>2. at \in Loops /\ Stops(at) = {NUL, "WHERE", SEMICOLON} /\ 4 + 3 * n - 2 = 3 * n + 2
    BY <1>1, <1>4 DEF Loops, Stops
  <2>3. \/ /\ k \in 0 .. n - 1 /\ k + 1 \in 0 .. n
           /\ pos' = ItemAt(4, n, k + 1) /\ at' = at /\ text' = text
           /\ Add(SubSeq(vs, 1, k), vs[k + 1]) = SubSeq(vs, 1, k + 1)
           /\ stmt' = [stmt EXCEPT !.values = Add(@, vs[k + 1])]
        \/ SubSeq(vs, 1, k) = vs /\ SetEnds
    BY <1>2, <1>4, <2>1, <2>2, LoopGoesOn
  <2>4. CASE /\ k + 1 \in 0 .. n
             /\ pos' = ItemAt(4, n, k + 1) /\ at' = at /\ text' = text
             /\ Add(SubSeq(vs, 1, k), vs[k + 1]) = SubSeq(vs, 1, k + 1)
             /\ stmt' = [stmt EXCEPT !.values = Add(@, vs[k + 1])]
    <3>1. stmt' = Made("UPDATE", t, <<>>, SubSeq(vs, 1, k + 1), NULL)
      BY <2>1, <2>4 DEF Made
    <3> QED BY <1>4, <2>4, <3>1 DEF UpdateRead
  <2>5. CASE SubSeq(vs, 1, k) = vs /\ SetEnds
    <3>1. text' = text /\ at' = "done" /\ stmt' = [stmt EXCEPT !.where_clause = extract_where]
      BY <2>5 DEF SetEnds
    <3>2. stmt' = Made("UPDATE", t, <<>>, vs, c)
      BY <1>2, <2>1, <2>5, <3>1 DEF Made
    <3> QED BY <3>1, <3>2 DEF UpdateRead
  <2> QED BY <2>3, <2>4, <2>5
<1>5. at # "done"
  BY StepsAre DEF Loops
<1> QED BY <1>3, <1>4, <1>5 DEF UpdateRead

\* DELETE: the table and the condition, in one step (sql_parser.c:214).
LEMMA DeleteGoesOn ==
    ASSUME ParseInv, ParseStep, NEW t \in Names, NEW cs \in Lists, NEW vs \in Lists,
           NEW c \in Conditions, text = Written("DELETE", t, cs, vs, c).text, DeleteRead(t, c)
    PROVE  text' = text /\ DeleteRead(t, c)'
<1>1. text \in Seq(Lexemes) /\ t \notin Reserved
  BY FormsAssumption DEF ParseInv
<1>2. At(2) = "FROM" /\ At(3) = t /\ extract_where = c
  BY DeleteWritten, AtIs DEF DeleteText
<1>3. DeleteHead /\ pos = 2 /\ stmt = Made("DELETE", NULL, <<>>, <<>>, NULL)
  BY StepsAre DEF DeleteRead, Loops
<1>4. TableAfter("FROM").token = t
  <2>1. At(pos) = "FROM" /\ At(pos + 1) = t /\ pos \in Nat \ {0} /\ "FROM" # SPACE
    BY <1>2, <1>3 DEF SPACE
  <2> QED BY <1>1, <2>1, TableThere
<1>5. /\ text' = text /\ at' = "done"
      /\ stmt' = [stmt EXCEPT !.table = TableAfter("FROM").token,
                              !.where_clause = extract_where]
  BY <1>3 DEF DeleteHead
<1>6. stmt' = Made("DELETE", t, <<>>, <<>>, c)
  <2>1. stmt' = [[stmt EXCEPT !.table = t] EXCEPT !.where_clause = c]
    BY <1>2, <1>4, <1>5, BothParts
  <2> QED BY <1>3, <2>1 DEF Made
<1> QED BY <1>5, <1>6 DEF DeleteRead

\* CREATE: the table and its columns (sql_parser.c:227).
LEMMA CreateGoesOn ==
    ASSUME ParseInv, ParseStep, NEW t \in Names, NEW cs \in Lists, NEW vs \in Lists,
           NEW c \in Conditions, text = Written("CREATE", t, cs, vs, c).text, CreateRead(t, cs)
    PROVE  text' = text /\ CreateRead(t, cs)'
<1> DEFINE n == Len(cs)
<1>1. text \in Seq(Lexemes) /\ n \in Nat \ {0} /\ t \notin Reserved
  BY ListsAre, FormsAssumption DEF ParseInv
<1>2. /\ At(2) = "TABLE" /\ At(3) = t /\ At(4) = "(" /\ ListAt(text, 5, cs)
      /\ At(3 * n + 3) = ")"
  <2>1. CreateText(text, t, cs)
    BY CreateWritten
  <2>2. 4 + 3 * n - 1 = 3 * n + 3 /\ 4 + 1 = 5
    BY <1>1
  <2> QED BY <2>1, <2>2, AtIs DEF CreateText, EnclosedAt
<1>3. CASE at = "CREATE"
  <2>1. CreateHead /\ pos = 2 /\ stmt = Made("CREATE", NULL, <<>>, <<>>, NULL)
    BY <1>3, StepsAre DEF CreateRead, Loops
  <2>2. TableAfter("TABLE").token = t /\ TableAfter("TABLE").next = 4
    <3>1. At(pos) = "TABLE" /\ At(pos + 1) = t /\ pos \in Nat \ {0} /\ "TABLE" # SPACE
      BY <1>2, <2>1 DEF SPACE
    <3>2. TableAfter("TABLE").token = t /\ TableAfter("TABLE").next = pos + 2
      BY <1>1, <3>1, TableThere
    <3> QED BY <2>1, <3>2
  <2>3. Skip(4) = 4
    BY <1>1, <1>2, SkipPasses DEF SPACE
  <2>4. /\ text' = text /\ at' = "create" /\ pos' = 5
        /\ stmt' = [stmt EXCEPT !.table = t]
    BY <1>2, <2>1, <2>2, <2>3 DEF CreateHead
  <2>5. stmt' = Made("CREATE", t, SubSeq(cs, 1, 0), <<>>, NULL)
    BY <2>1, <2>4, NoneOrAll DEF Made
  <2>6. pos' = ItemAt(5, n, 0) /\ 0 \in 0 .. n
    BY <1>1, <2>4 DEF ItemAt
  <2> QED BY <2>4, <2>5, <2>6 DEF CreateRead
<1>4. CASE at = "create"
  <2>1. PICK k \in 0 .. n : /\ pos = ItemAt(5, n, k)
                            /\ stmt = Made("CREATE", t, SubSeq(cs, 1, k), <<>>, NULL)
    BY <1>4 DEF CreateRead
  <2>2. at \in Loops /\ Stops(at) = {NUL, ")"} /\ 5 + 3 * n - 2 = 3 * n + 3
    BY <1>1, <1>4, StopsAre DEF Loops
  <2>3. \/ /\ k \in 0 .. n - 1 /\ k + 1 \in 0 .. n
           /\ pos' = ItemAt(5, n, k + 1) /\ at' = at /\ text' = text
           /\ Add(SubSeq(cs, 1, k), cs[k + 1]) = SubSeq(cs, 1, k + 1)
           /\ stmt' = [stmt EXCEPT !.columns = Add(@, cs[k + 1])]
        \/ SubSeq(cs, 1, k) = cs /\ ListEnds
    BY <1>2, <1>4, <2>1, <2>2, LoopGoesOn, SMTT(30)
  <2>4. CASE /\ k + 1 \in 0 .. n
             /\ pos' = ItemAt(5, n, k + 1) /\ at' = at /\ text' = text
             /\ Add(SubSeq(cs, 1, k), cs[k + 1]) = SubSeq(cs, 1, k + 1)
             /\ stmt' = [stmt EXCEPT !.columns = Add(@, cs[k + 1])]
    <3>1. stmt' = Made("CREATE", t, SubSeq(cs, 1, k + 1), <<>>, NULL)
      BY <2>1, <2>4 DEF Made
    <3> QED BY <1>4, <2>4, <3>1 DEF CreateRead
  <2>5. CASE SubSeq(cs, 1, k) = cs /\ ListEnds
    <3>1. text' = text /\ at' = "done" /\ stmt' = stmt
      BY <2>5 DEF ListEnds
    <3> QED BY <2>1, <2>5, <3>1 DEF CreateRead
  <2> QED BY <2>3, <2>4, <2>5
<1>5. at # "done"
  BY StepsAre DEF Loops
<1> QED BY <1>3, <1>4, <1>5 DEF CreateRead

\* A parse of a text that begins with a keyword, and no space behind it (sql_parser.c:91).
LEMMA ParseOfKind ==
    ASSUME NEW x \in Texts, sql_parse(x), NEW kind \in Kinds, Glyph(x, 1) = kind,
           Glyph(x, 2) # SPACE
    PROVE  /\ text' = x /\ pos' = 2 /\ stmt' = Made(kind, NULL, <<>>, <<>>, NULL)
           /\ at' = IF kind = "SELECT" THEN "select" ELSE kind
<1>1. x \in Seq(Lexemes) /\ text' = x /\ Len(x) \in Nat
  BY TextsAre DEF sql_parse
<1>2. 1 <= Len(x) /\ x[1] = kind /\ kind # SPACE /\ kind # "UNKNOWN"
  BY <1>1 DEF Glyph, NUL, Kinds, SPACE
<1>3. identify_type(x) = kind
  BY <1>1, <1>2 DEF identify_type
<1> DEFINE Ends(q) == /\ Glyph(text', q) # SPACE
                      /\ \A r \in 2 .. q - 1 : Glyph(text', r) = SPACE
<1>4. pos' = 2
  <2>1. pos' = CHOOSE q \in 2 .. 2 + Len(text') : Ends(q)
    BY Zenon DEF sql_parse, Skip, At, Glyph
  <2>2. 2 \in 2 .. 2 + Len(text') /\ Ends(2)
    BY <1>1
  <2> HIDE DEF Ends
  <2>3. pos' \in 2 .. 2 + Len(text') /\ Ends(pos')
    BY <2>1, <2>2, Zenon
  <2>4. SUFFICES ASSUME pos' # 2 PROVE FALSE
    OBVIOUS
  <2>5. pos' \in 2 .. 2 + Len(x)
    BY <1>1, <2>3
  <2>6. 2 \in 2 .. pos' - 1
    <3> DEFINE p == pos'
    <3>1. p \in 2 .. 2 + Len(x) /\ p # 2 /\ Len(x) \in Nat
      BY <1>1, <2>4, <2>5
    <3> HIDE DEF p
    <3>2. 2 \in 2 .. p - 1
      BY <3>1
    <3> QED BY <3>2 DEF p
  <2>7. Glyph(text', 2) = SPACE
    BY <2>3, <2>6, Zenon DEF Ends
  <2> QED BY <1>1, <2>7
<1>5. at' = IF kind = "SELECT" THEN "select" ELSE kind
  <2>1. at' = CASE kind = "UNKNOWN" -> "done"
                [] kind = "SELECT"  -> "select"
                [] OTHER -> kind
    BY <1>3 DEF sql_parse
  <2> QED BY <1>2, <2>1, Zenon
<1>6. stmt' = Made(kind, NULL, <<>>, <<>>, NULL)
  BY <1>3 DEF sql_parse, NoStatement, Made
<1> QED BY <1>1, <1>4, <1>5, <1>6

\* The first item of a list is no space.
LEMMA FirstItem ==
    ASSUME NEW items \in Lists, NEW x, NEW o \in Nat \ {0}, ListAt(x, o, items)
    PROVE  Glyph(x, o) \notin Reserved
<1>1. Len(items) \in Nat \ {0}
  BY ListsAre
<1>2. items[1] \notin Reserved
  <2>1. \A i \in 1 .. Len(items) : items[i] \notin Reserved
    BY ListsAre
  <2> QED BY <1>1, <2>1
<1>3. Glyph(x, o + 3 * 1 - 3) = items[1]
  BY <1>1 DEF ListAt
<1>4. o + 3 * 1 - 3 = o
  OBVIOUS
<1> QED BY <1>2, <1>3, <1>4

\* A parse of a form is at its beginning.
LEMMA FormBegins ==
    ASSUME NEW x \in Texts, sql_parse(x)
    PROVE  FormsRead'
<1>1. text' = x
  BY DEF sql_parse
<1>2. SUFFICES ASSUME NEW t \in Names, NEW cs \in Lists, NEW vs \in Lists, NEW c \in Conditions
               PROVE  /\ x = Written("SELECT", t, cs, vs, c).text => SelectRead(t, cs, c)'
                      /\ x = Written("INSERT", t, cs, vs, c).text => InsertRead(t, cs, vs)'
                      /\ x = Written("UPDATE", t, cs, vs, c).text => UpdateRead(t, vs, c)'
                      /\ x = Written("DELETE", t, cs, vs, c).text => DeleteRead(t, c)'
                      /\ x = Written("CREATE", t, cs, vs, c).text => CreateRead(t, cs)'
  BY <1>1 DEF FormsRead
<1>3. SPACE \in Reserved /\ t \notin Reserved
  BY FormsAssumption DEF Reserved, Delimiters
<1>4. ASSUME x = Written("SELECT", t, cs, vs, c).text PROVE SelectRead(t, cs, c)'
  <2>1. Glyph(x, 1) = "SELECT" /\ ListAt(x, 2, cs)
    BY <1>4, SelectWritten DEF SelectText
  <2>2. Glyph(x, 2) # SPACE
    BY <1>3, <2>1, FirstItem
  <2>3. at' = "select" /\ pos' = 2 /\ stmt' = Made("SELECT", NULL, <<>>, <<>>, NULL)
    BY <2>1, <2>2, ParseOfKind DEF Kinds
  <2>4. 0 \in 0 .. Len(cs) /\ SubSeq(cs, 1, 0) = <<>> /\ ItemAt(2, Len(cs), 0) = 2
    BY ListsAre, NoneOrAll DEF ItemAt
  <2> QED BY <2>3, <2>4 DEF SelectRead
<1>5. ASSUME x = Written("INSERT", t, cs, vs, c).text PROVE InsertRead(t, cs, vs)'
  <2>1. Glyph(x, 1) = "INSERT" /\ Glyph(x, 2) = "INTO"
    BY <1>5, InsertWritten DEF InsertText
  <2>2. Glyph(x, 2) # SPACE
    BY <2>1 DEF SPACE
  <2>3. at' = "INSERT" /\ pos' = 2 /\ stmt' = Made("INSERT", NULL, <<>>, <<>>, NULL)
    BY <2>1, <2>2, ParseOfKind DEF Kinds
  <2> QED BY <2>3 DEF InsertRead
<1>6. ASSUME x = Written("UPDATE", t, cs, vs, c).text PROVE UpdateRead(t, vs, c)'
  <2>1. Glyph(x, 1) = "UPDATE" /\ Glyph(x, 2) = t
    BY <1>6, UpdateWritten DEF UpdateText
  <2>2. Glyph(x, 2) # SPACE
    BY <1>3, <2>1
  <2>3. at' = "UPDATE" /\ pos' = 2 /\ stmt' = Made("UPDATE", NULL, <<>>, <<>>, NULL)
    BY <2>1, <2>2, ParseOfKind DEF Kinds
  <2> QED BY <2>3 DEF UpdateRead
<1>7. ASSUME x = Written("DELETE", t, cs, vs, c).text PROVE DeleteRead(t, c)'
  <2>1. Glyph(x, 1) = "DELETE" /\ Glyph(x, 2) = "FROM"
    BY <1>7, DeleteWritten DEF DeleteText
  <2>2. Glyph(x, 2) # SPACE
    BY <2>1 DEF SPACE
  <2>3. at' = "DELETE" /\ pos' = 2 /\ stmt' = Made("DELETE", NULL, <<>>, <<>>, NULL)
    BY <2>1, <2>2, ParseOfKind DEF Kinds
  <2> QED BY <2>3 DEF DeleteRead
<1>8. ASSUME x = Written("CREATE", t, cs, vs, c).text PROVE CreateRead(t, cs)'
  <2>1. Glyph(x, 1) = "CREATE" /\ Glyph(x, 2) = "TABLE"
    BY <1>8, CreateWritten DEF CreateText
  <2>2. Glyph(x, 2) # SPACE
    BY <2>1 DEF SPACE
  <2>3. at' = "CREATE" /\ pos' = 2 /\ stmt' = Made("CREATE", NULL, <<>>, <<>>, NULL)
    BY <2>1, <2>2, ParseOfKind DEF Kinds
  <2> QED BY <2>3 DEF CreateRead
<1> QED BY <1>4, <1>5, <1>6, <1>7, <1>8

\* No form is empty, and none holds a terminator.
LEMMA FormsAre ==
    ASSUME NEW kind \in Kinds, NEW t \in Names, NEW cs \in Lists, NEW vs \in Lists,
           NEW c \in Conditions
    PROVE  LET x == Written(kind, t, cs, vs, c).text
           IN  x # <<>> /\ \A n \in 1 .. Len(x) : x[n] # NUL
<1> DEFINE x == Written(kind, t, cs, vs, c).text
           F == FormWords(t, cs, vs, c)
<1>1. x \in Seq(F) /\ Glyph(x, 1) \in Kinds
  <2>1. CASE kind = "SELECT"
    BY <2>1, SelectWritten DEF SelectText, Kinds
  <2>2. CASE kind = "INSERT"
    BY <2>2, InsertWritten DEF InsertText, Kinds
  <2>3. CASE kind = "UPDATE"
    BY <2>3, UpdateWritten DEF UpdateText, Kinds
  <2>4. CASE kind = "DELETE"
    BY <2>4, DeleteWritten DEF DeleteText, Kinds
  <2>5. CASE kind = "CREATE"
    BY <2>5, CreateWritten DEF CreateText, Kinds
  <2> QED BY <2>1, <2>2, <2>3, <2>4, <2>5 DEF Kinds
<1>2. NUL \notin F
  BY FormWordsAre
<1> HIDE DEF x, F
<1>3. x # <<>>
  BY <1>1 DEF Glyph, Kinds, NUL
<1>4. \A n \in 1 .. Len(x) : x[n] # NUL
  BY <1>1, <1>2, ElementOfSeq
<1> QED BY <1>3, <1>4 DEF x

\* A step that leaves the text alone, or passes its terminator, keeps FormsRead.
LEMMA FormsGoOn ==
    ASSUME ParseInv, FormsRead, ParseStep
    PROVE  FormsRead'
<1>1. text' = text \/ \E n \in 1 .. Len(text') : text'[n] = NUL
  <2>1. CASE ColumnsEnd /\ At(pos) = NUL
    <3>1. PICK rest \in Leftovers : text' = Append(text, NUL) \o rest
      BY <2>1 DEF ColumnsEnd
    <3>2. rest \in Seq(Lexemes) /\ text \in Seq(Lexemes) /\ Len(text) \in Nat
      BY TextsAre DEF ParseInv
    <3>3. NUL \in Lexemes
      BY DEF Lexemes
    <3> DEFINE a == Append(text, NUL)
    <3>4. a \in Seq(Lexemes) /\ Len(a) = Len(text) + 1 /\ a[Len(text) + 1] = NUL
      BY <3>2, <3>3
    <3> HIDE DEF a
    <3>5. Appended(Lexemes, a \o rest, a, rest)
      BY <3>2, <3>4, GlyphJoined
    <3>6. text' = a \o rest
      BY <3>1 DEF a
    <3>7. /\ Len(text') = Len(a) + Len(rest) /\ Len(rest) \in Nat
          /\ Glyph(text', Len(text) + 1) = Glyph(a, Len(text) + 1)
      BY <3>2, <3>4, <3>5, <3>6 DEF Appended
    <3>8. Len(text) + 1 \in 1 .. Len(text')
      BY <3>2, <3>4, <3>7
    <3>9. text'[Len(text) + 1] = NUL
      BY <3>2, <3>4, <3>7, <3>8 DEF Glyph
    <3> QED BY <3>8, <3>9
  <2>2. CASE ~(ColumnsEnd /\ At(pos) = NUL)
    <3>1. ColumnsEnd => text' = text
      BY <2>2 DEF ColumnsEnd
    <3>2. SelectEnds => text' = text
      BY DEF SelectEnds
    <3> QED BY <3>1, <3>2, Zenon
            DEF ParseStep, InsertHead, ValuesHead, UpdateHead, DeleteHead, CreateHead, Turn,
                ListEnds, SetEnds
  <2> QED BY <2>1, <2>2
<1>2. CASE text' = text
  <2>1. SUFFICES ASSUME NEW t \in Names, NEW cs \in Lists, NEW vs \in Lists, NEW c \in Conditions
                 PROVE  /\ text = Written("SELECT", t, cs, vs, c).text => SelectRead(t, cs, c)'
                        /\ text = Written("INSERT", t, cs, vs, c).text => InsertRead(t, cs, vs)'
                        /\ text = Written("UPDATE", t, cs, vs, c).text => UpdateRead(t, vs, c)'
                        /\ text = Written("DELETE", t, cs, vs, c).text => DeleteRead(t, c)'
                        /\ text = Written("CREATE", t, cs, vs, c).text => CreateRead(t, cs)'
    BY <1>2 DEF FormsRead
  <2>2. /\ text = Written("SELECT", t, cs, vs, c).text => SelectRead(t, cs, c)
        /\ text = Written("INSERT", t, cs, vs, c).text => InsertRead(t, cs, vs)
        /\ text = Written("UPDATE", t, cs, vs, c).text => UpdateRead(t, vs, c)
        /\ text = Written("DELETE", t, cs, vs, c).text => DeleteRead(t, c)
        /\ text = Written("CREATE", t, cs, vs, c).text => CreateRead(t, cs)
    BY DEF FormsRead
  <2> QED BY <2>2, SelectGoesOn, InsertGoesOn, UpdateGoesOn, DeleteGoesOn, CreateGoesOn
<1>3. CASE \E n \in 1 .. Len(text') : text'[n] = NUL
  <2>1. ASSUME NEW kind \in Kinds, NEW t \in Names, NEW cs \in Lists, NEW vs \in Lists,
               NEW c \in Conditions
        PROVE  text' # Written(kind, t, cs, vs, c).text
    BY <1>3, FormsAre
  <2> QED BY <2>1, SMTT(30) DEF FormsRead, Kinds
<1> QED BY <1>1, <1>2, <1>3

\* Between two parses there is no form.
LEMMA NoFormRead ==
    /\ Init => FormsRead
    /\ sql_statement_free => FormsRead'
<1>1. ASSUME NEW kind \in Kinds, NEW t \in Names, NEW cs \in Lists, NEW vs \in Lists,
             NEW c \in Conditions
      PROVE  <<>> # Written(kind, t, cs, vs, c).text
  BY FormsAre
<1>2. ASSUME Init PROVE FormsRead
  <2>1. text = <<>>
    BY <1>2 DEF Init
  <2> QED BY <1>1, <2>1, SMTT(30) DEF FormsRead, Kinds
<1>3. ASSUME sql_statement_free PROVE FormsRead'
  <2>1. text' = <<>>
    BY <1>3 DEF sql_statement_free
  <2> QED BY <1>1, <2>1, SMTT(30) DEF FormsRead, Kinds
<1> QED BY <1>2, <1>3

\* At the end of a form the statement is what is written there.
LEMMA ReadIsWritten ==
    ASSUME FormsRead
    PROVE  ParsedAsWritten
<1>1. SUFFICES ASSUME at = "done", NEW f \in Forms(Names, Lists, Conditions), text = f.text
               PROVE  stmt = f.stmt
  BY DEF ParsedAsWritten
<1>2. PICK kind \in Kinds, t \in Names, cs \in Lists, vs \in Lists, c \in Conditions :
          f = Written(kind, t, cs, vs, c)
  BY DEF Forms
<1>3. /\ text = Written("SELECT", t, cs, vs, c).text => SelectRead(t, cs, c)
      /\ text = Written("INSERT", t, cs, vs, c).text => InsertRead(t, cs, vs)
      /\ text = Written("UPDATE", t, cs, vs, c).text => UpdateRead(t, vs, c)
      /\ text = Written("DELETE", t, cs, vs, c).text => DeleteRead(t, c)
      /\ text = Written("CREATE", t, cs, vs, c).text => CreateRead(t, cs)
  BY DEF FormsRead
<1>4. /\ SelectRead(t, cs, c) => stmt = Made("SELECT", t, cs, <<>>, c)
      /\ InsertRead(t, cs, vs) => stmt = Made("INSERT", t, cs, vs, NULL)
      /\ UpdateRead(t, vs, c) => stmt = Made("UPDATE", t, <<>>, vs, c)
      /\ DeleteRead(t, c) => stmt = Made("DELETE", t, <<>>, <<>>, c)
      /\ CreateRead(t, cs) => stmt = Made("CREATE", t, cs, <<>>, NULL)
  BY <1>1 DEF SelectRead, InsertRead, UpdateRead, DeleteRead, CreateRead
<1>5. /\ Written("SELECT", t, cs, vs, c).stmt = Made("SELECT", t, cs, <<>>, c)
      /\ Written("INSERT", t, cs, vs, c).stmt = Made("INSERT", t, cs, vs, NULL)
      /\ Written("UPDATE", t, cs, vs, c).stmt = Made("UPDATE", t, <<>>, vs, c)
      /\ Written("DELETE", t, cs, vs, c).stmt = Made("DELETE", t, <<>>, <<>>, c)
      /\ Written("CREATE", t, cs, vs, c).stmt = Made("CREATE", t, cs, <<>>, NULL)
  BY WrittenStatements
<1> QED BY <1>1, <1>2, <1>3, <1>4, <1>5 DEF Kinds

\* A statement in the form of the comments is parsed into what is written there, whatever its
\* names, items and condition are, and however long its lists (sql_parser.c:113, 141, 188,
\* 214, 227).
THEOREM StatementsParsedAsWritten == Spec => []ParsedAsWritten
<1>1. ASSUME ParseInv, FormsRead, [Next]_parser_vars PROVE FormsRead'
  <2>1. CASE UNCHANGED parser_vars
    BY <1>1, <2>1 DEF parser_vars, FormsRead, SelectRead, InsertRead, UpdateRead, DeleteRead,
                      CreateRead
  <2>2. CASE Next
    BY <1>1, <2>2, FormsGoOn, FormBegins, NoFormRead DEF Next
  <2> QED BY <1>1, <2>1, <2>2
<1>2. FormsRead => ParsedAsWritten
  BY ReadIsWritten
<1> QED BY <1>1, <1>2, NoFormRead, ParserAlwaysSound, PTL DEF Spec
-----------------------------------------------------------------------------
(* Rows. *)

\* Where a row is in a sequence of rows.
PlacesOf(s, r) == {i \in DOMAIN s : s[i] = r}

\* table_delete_row takes one row away and puts the last into its place (table.c:127).
LEMMA DeleteRowIs ==
    ASSUME NEW S, NEW s \in Seq(S), NEW i \in 1 .. Len(s)
    PROVE  /\ table_delete_row(s, i) \in Seq(S)
           /\ Len(table_delete_row(s, i)) = Len(s) - 1
           /\ \A j \in 1 .. Len(s) - 1 :
                 table_delete_row(s, i)[j] = IF j = i THEN s[Len(s)] ELSE s[j]
<1> DEFINE n == Len(s)  u == [s EXCEPT ![i] = s[n]]
<1>1. n \in Nat /\ n # 0 /\ s[n] \in S
  OBVIOUS
<1>2. u \in Seq(S) /\ Len(u) = n /\ \A j \in 1 .. n : u[j] = IF j = i THEN s[n] ELSE s[j]
  BY <1>1, ExceptSeq
<1>3. table_delete_row(s, i) = SubSeq(u, 1, n - 1)
  BY DEF table_delete_row
<1> HIDE DEF u
<1>4. n - 1 \in Nat /\ n - 1 <= Len(u)
  BY <1>1, <1>2
<1> HIDE DEF n
<1>5. /\ SubSeq(u, 1, n - 1) \in Seq(S) /\ Len(SubSeq(u, 1, n - 1)) = n - 1
      /\ \A j \in 1 .. n - 1 : SubSeq(u, 1, n - 1)[j] = u[j]
  BY <1>2, <1>4, Beginning
<1>6. \A j \in 1 .. n - 1 : j \in 1 .. n
  BY <1>1
<1> QED BY <1>2, <1>3, <1>5, <1>6 DEF n

\* Every other row is in it as often as before.
LEMMA DeleteRowCounts ==
    ASSUME NEW S, NEW s \in Seq(S), NEW i \in 1 .. Len(s), NEW r, r # s[i]
    PROVE  Cardinality(PlacesOf(table_delete_row(s, i), r)) = Cardinality(PlacesOf(s, r))
<1> DEFINE n == Len(s)  d == table_delete_row(s, i)  A == PlacesOf(s, r)  B == PlacesOf(d, r)
<1>1. n \in Nat /\ n # 0 /\ i \in 1 .. n
  OBVIOUS
<1>2. /\ d \in Seq(S) /\ Len(d) = n - 1
      /\ \A j \in 1 .. n - 1 : d[j] = IF j = i THEN s[n] ELSE s[j]
  BY DeleteRowIs
<1> HIDE DEF d
<1>3. A = {j \in 1 .. n : s[j] = r} /\ B = {j \in 1 .. n - 1 : d[j] = r}
  BY <1>2 DEF PlacesOf
<1> HIDE DEF A, B, n
<1>4. IsFiniteSet(A) /\ IsFiniteSet(A \ {n})
  <2>1. IsFiniteSet(1 .. n)
    BY <1>1, FS_Interval
  <2> QED BY <1>3, <2>1, FS_Subset
<1>5. i \notin A
  BY <1>3
<1>6. CASE s[n] = r
  <2>1. i # n /\ n \in A
    BY <1>1, <1>3, <1>6
  <2>2. B = (A \ {n}) \cup {i}
    <3>1. ASSUME NEW j \in B PROVE j \in (A \ {n}) \cup {i}
      BY <1>1, <1>2, <1>3, <3>1
    <3>2. ASSUME NEW j \in (A \ {n}) \cup {i} PROVE j \in B
      BY <1>1, <1>2, <1>3, <1>5, <1>6, <2>1, <3>2
    <3> QED BY <3>1, <3>2
  <2>3. Cardinality(A \ {n}) = Cardinality(A) - 1
    BY <1>4, <2>1, FS_RemoveElement
  <2>4. Cardinality(B) = Cardinality(A \ {n}) + 1
    BY <1>4, <1>5, <2>2, FS_AddElement
  <2>5. Cardinality(A) \in Nat
    BY <1>4, FS_CardinalityType
  <2> QED BY <2>3, <2>4, <2>5 DEF A, B, d
<1>7. CASE s[n] # r
  <2>1. A = B
    <3>1. ASSUME NEW j \in B PROVE j \in A
      BY <1>1, <1>2, <1>3, <1>7, <3>1
    <3>2. ASSUME NEW j \in A PROVE j \in B
      BY <1>1, <1>2, <1>3, <1>5, <1>7, <3>2
    <3> QED BY <3>1, <3>2
  <2> QED BY <2>1 DEF A, B, d
<1> QED BY <1>6, <1>7

\* The scan of AfterDelete: left goes from the row behind the last to the first.
Scanned(tb, left) ==
    left = [i \in 0 .. Len(tb.rows) |->
              IF i = Len(tb.rows) THEN tb.rows
              ELSE LET rows == left[i + 1]
                   IN  IF matches_where(tb, rows[i + 1])
                       THEN table_delete_row(rows, i + 1) ELSE rows]

\* What is left of the rows when those behind the i-th have been looked at.
LeftAt(tb, l, i) ==
    /\ l \in Seq(Range(tb.rows)) /\ i <= Len(l) /\ Len(l) <= Len(tb.rows)
    /\ \A j \in 1 .. i : l[j] = tb.rows[j]
    /\ \A j \in i + 1 .. Len(l) : ~matches_where(tb, l[j])
    /\ \A r : ~matches_where(tb, r) =>
          Cardinality(PlacesOf(l, r)) = Cardinality(PlacesOf(tb.rows, r))
    /\ Len(tb.rows) - Len(l)
         = Cardinality({j \in i + 1 .. Len(tb.rows) : matches_where(tb, tb.rows[j])})

\* One turn of the scan (sql_executor.c:394).
LEMMA ScanTurn ==
    ASSUME NEW S, NEW tb, tb.rows \in Seq(S), NEW i \in 0 .. Len(tb.rows) - 1,
           NEW l, LeftAt(tb, l, i + 1)
    PROVE  LeftAt(tb, IF matches_where(tb, l[i + 1]) THEN table_delete_row(l, i + 1) ELSE l, i)
<1> DEFINE n == Len(tb.rows)  rows == tb.rows  M(r) == matches_where(tb, r)  m == Len(l)
           T == Range(tb.rows)
           Hit(k) == {j \in k .. n : M(rows[j])}
<1>1. /\ n \in Nat /\ i \in Nat /\ i + 1 \in 1 .. n /\ i + 1 \in Nat
  OBVIOUS
<1>2. /\ l \in Seq(T) /\ i + 1 <= m /\ m <= n /\ m \in Nat
      /\ \A j \in 1 .. i + 1 : l[j] = rows[j]
      /\ \A j \in i + 2 .. m : ~M(l[j])
      /\ \A r : ~M(r) => Cardinality(PlacesOf(l, r)) = Cardinality(PlacesOf(rows, r))
      /\ n - m = Cardinality(Hit(i + 2))
  <2> DEFINE k == i + 1 + 1
  <2>1. k = i + 2
    BY <1>1
  <2>2. /\ l \in Seq(T) /\ i + 1 <= m /\ m <= n
        /\ \A j \in 1 .. i + 1 : l[j] = rows[j]
        /\ \A j \in k .. m : ~M(l[j])
        /\ \A r : ~M(r) => Cardinality(PlacesOf(l, r)) = Cardinality(PlacesOf(rows, r))
        /\ n - m = Cardinality(Hit(k))
    BY DEF LeftAt
  <2>3. m \in Nat
    BY <2>2
  <2> HIDE DEF k, M, Hit, m, n, rows, T
  <2> QED BY <2>1, <2>2, <2>3
<1>3. l[i + 1] = rows[i + 1]
  BY <1>1, <1>2
<1> HIDE DEF n, M, m, T, Hit, rows
<1>4. IsFiniteSet(Hit(i + 2)) /\ i + 1 \notin Hit(i + 2)
  <2>1. IsFiniteSet(i + 2 .. n)
    BY <1>1, FS_Interval
  <2>2. Hit(i + 2) \subseteq i + 2 .. n
    BY DEF Hit
  <2> QED BY <1>1, <2>1, <2>2, FS_Subset
<1>5. CASE M(l[i + 1])
  <2> DEFINE d == table_delete_row(l, i + 1)
  <2>1. i + 1 \in 1 .. m
    BY <1>1, <1>2
  <2>2. /\ d \in Seq(T) /\ Len(d) = m - 1
        /\ \A j \in 1 .. m - 1 : d[j] = IF j = i + 1 THEN l[m] ELSE l[j]
    BY <1>2, <2>1, DeleteRowIs DEF m
  <2>3. \A r : ~M(r) => Cardinality(PlacesOf(d, r)) = Cardinality(PlacesOf(l, r))
    <3>1. SUFFICES ASSUME NEW r, ~M(r)
                   PROVE  Cardinality(PlacesOf(d, r)) = Cardinality(PlacesOf(l, r))
      OBVIOUS
    <3>2. r # l[i + 1]
      BY <1>5, <3>1
    <3> QED BY <1>2, <2>1, <3>2, DeleteRowCounts DEF m
  <2> HIDE DEF d
  <2>4. i <= Len(d) /\ Len(d) <= n
    BY <1>1, <1>2, <2>2
  <2>5. \A j \in 1 .. i : d[j] = rows[j]
    <3>1. SUFFICES ASSUME NEW j \in 1 .. i PROVE d[j] = rows[j]
      OBVIOUS
    <3>2. j \in 1 .. m - 1 /\ j # i + 1 /\ j \in 1 .. i + 1
      BY <1>1, <1>2
    <3>3. d[j] = l[j]
      BY <2>2, <3>2
    <3>4. l[j] = rows[j]
      BY <1>2, <3>2
    <3> QED BY <3>3, <3>4
  <2>6. \A j \in i + 1 .. Len(d) : ~M(d[j])
    <3>1. SUFFICES ASSUME NEW j \in i + 1 .. Len(d) PROVE ~M(d[j])
      OBVIOUS
    <3>2. j \in 1 .. m - 1
      BY <1>1, <1>2, <2>2
    <3>3. CASE j = i + 1
      <4>1. m \in i + 2 .. m
        BY <1>1, <1>2, <3>2, <3>3
      <4> QED BY <1>2, <2>2, <3>2, <3>3, <4>1
    <3>4. CASE j # i + 1
      <4>1. j \in i + 2 .. m
        BY <1>1, <1>2, <3>2, <3>4
      <4> QED BY <1>2, <2>2, <3>2, <3>4, <4>1
    <3> QED BY <3>3, <3>4
  <2>7. n - Len(d) = Cardinality(Hit(i + 1))
    <3>1. Hit(i + 1) = Hit(i + 2) \cup {i + 1}
      <4>1. i + 1 .. n = (i + 2 .. n) \cup {i + 1}
        BY <1>1
      <4>2. M(rows[i + 1])
        BY <1>3, <1>5
      <4> QED BY <4>1, <4>2 DEF Hit
    <3>2. Cardinality(Hit(i + 1)) = Cardinality(Hit(i + 2)) + 1
      BY <1>4, <3>1, FS_AddElement
    <3> QED BY <1>1, <1>2, <2>2, <3>2
  <2>8. LeftAt(tb, d, i)
    BY <1>2, <2>2, <2>3, <2>4, <2>5, <2>6, <2>7 DEF LeftAt, M, n, rows, T, Hit
  <2> QED BY <1>5, <2>8 DEF d, M
<1>6. CASE ~M(l[i + 1])
  <2>1. i <= m
    BY <1>1, <1>2
  <2>2. \A j \in 1 .. i : l[j] = rows[j]
    BY <1>1, <1>2
  <2>3. \A j \in i + 1 .. m : ~M(l[j])
    <3>1. SUFFICES ASSUME NEW j \in i + 1 .. m PROVE ~M(l[j])
      OBVIOUS
    <3>2. j = i + 1 \/ j \in i + 2 .. m
      BY <1>1, <1>2
    <3> QED BY <1>2, <1>6, <3>2
  <2>4. Hit(i + 1) = Hit(i + 2)
    <3>1. i + 1 .. n = (i + 2 .. n) \cup {i + 1}
      BY <1>1
    <3>2. ~M(rows[i + 1])
      BY <1>3, <1>6
    <3> QED BY <3>1, <3>2 DEF Hit
  <2>5. LeftAt(tb, l, i)
    BY <1>2, <2>1, <2>2, <2>3, <2>4 DEF LeftAt, M, n, rows, T, Hit, m
  <2> QED BY <1>6, <2>5 DEF M
<1> QED BY <1>5, <1>6

\* The scan exists.
LEMMA ScanExists ==
    ASSUME NEW S, NEW tb, tb.rows \in Seq(S)
    PROVE  \E left : Scanned(tb, left)
<1> DEFINE n == Len(tb.rows)  T == Seq(S)
           turn(s, i) == IF matches_where(tb, s[i]) THEN table_delete_row(s, i) ELSE s
           step == [k \in Nat |-> [s \in T |-> turn(s, n - k + 1)]]
<1>1. n \in Nat
  OBVIOUS
<1>2. ASSUME NEW s \in T, NEW i \in Int PROVE turn(s, i) \in T
  <2>1. table_delete_row(s, i) \in T
    <3>1. CASE i \in 1 .. Len(s)
      BY <3>1, DeleteRowIs
    <3>2. CASE i \notin 1 .. Len(s)
      <4>1. [s EXCEPT ![i] = s[Len(s)]] = s
        BY <3>2
      <4>2. table_delete_row(s, i) = SubSeq(s, 1, Len(s) - 1)
        BY <4>1 DEF table_delete_row
      <4>3. CASE Len(s) = 0
        <5>1. s = <<>>
          BY <4>3, EmptySeq
        <5>2. SubSeq(s, 1, Len(s) - 1) = <<>>
          BY <4>3, <5>1
        <5> QED BY <4>2, <5>1, <5>2
      <4>4. CASE Len(s) # 0
        <5>1. Len(s) - 1 \in Nat /\ Len(s) - 1 <= Len(s)
          BY <4>4
        <5> QED BY <4>2, <5>1, Beginning
      <4> QED BY <4>3, <4>4
    <3> QED BY <3>1, <3>2
  <2> QED BY <2>1
<1> HIDE DEF turn, n
<1>3. step \in [Nat -> [T -> T]]
  <2>1. ASSUME NEW k \in Nat PROVE [s \in T |-> turn(s, n - k + 1)] \in [T -> T]
    <3>1. n - k + 1 \in Int
      BY <1>1
    <3> QED BY <1>2, <3>1
  <2> QED BY <2>1
<1>4. \A k \in 1 .. n : \A s \in T : step[k][s] = turn(s, n - k + 1)
  BY <1>1
<1> HIDE DEF step
<1>5. tb.rows \in T
  OBVIOUS
<1> HIDE DEF T
<1>6. PICK f \in [0 .. n -> T] : Goes(f, tb.rows, step, n)
  BY <1>1, <1>3, <1>5, Iterated, Zenon
<1> DEFINE left == [i \in 0 .. n |-> f[n - i]]
<1>7. left = [i \in 0 .. n |-> IF i = n THEN tb.rows ELSE turn(left[i + 1], i + 1)]
  <2>1. ASSUME NEW i \in 0 .. n
        PROVE  f[n - i] = IF i = n THEN tb.rows ELSE turn(left[i + 1], i + 1)
    <3>1. CASE i = n
      BY <1>1, <1>6, <3>1 DEF Goes
    <3>2. CASE i # n
      <4>1. n - i \in 1 .. n /\ n - i - 1 \in 0 .. n /\ i + 1 \in 0 .. n
            /\ n - (n - i) + 1 = i + 1 /\ n - (i + 1) = n - i - 1
        BY <1>1, <3>2
      <4>2. f[n - i] = step[n - i][f[n - i - 1]]
        BY <1>6, <4>1 DEF Goes
      <4>3. f[n - i - 1] \in T
        BY <1>6, <4>1
      <4>4. step[n - i][f[n - i - 1]] = turn(f[n - i - 1], n - (n - i) + 1)
        BY <1>4, <4>1, <4>3
      <4>5. left[i + 1] = f[n - i - 1]
        BY <4>1
      <4> QED BY <3>2, <4>1, <4>2, <4>4, <4>5
    <3> QED BY <3>1, <3>2
  <2> QED BY <2>1
<1>8. Scanned(tb, left)
  <2> HIDE DEF left
  <2> QED BY <1>7, Zenon DEF Scanned, turn, n
<1> QED BY <1>8

\* The whole scan: the rows left are those the condition does not hold of, each as often
\* as before (sql_executor.c:394).
LEMMA AfterDeleteIs ==
    ASSUME NEW S, NEW tb, tb.rows \in Seq(S)
    PROVE  LeftAt(tb, AfterDelete(tb), 0)
<1> DEFINE n == Len(tb.rows)  left == CHOOSE f : Scanned(tb, f)
<1>1. Scanned(tb, left)
  BY ScanExists, Zenon
<1>2. AfterDelete(tb) = left[0]
  BY Zenon DEF AfterDelete, Scanned
<1> HIDE DEF left
<1>3. n \in Nat
  OBVIOUS
<1>4. left[n] = tb.rows
  BY <1>1, <1>3 DEF Scanned
<1>5. ASSUME NEW i \in 0 .. n - 1
      PROVE  left[i] = IF matches_where(tb, left[i + 1][i + 1])
                       THEN table_delete_row(left[i + 1], i + 1) ELSE left[i + 1]
  <2>1. i \in 0 .. n /\ i # n
    BY <1>3
  <2> QED BY <1>1, <2>1 DEF Scanned
<1> DEFINE Bad == {k \in 0 .. n : ~LeftAt(tb, left[n - k], n - k)}
<1>6. SUFFICES ASSUME Bad # {} PROVE FALSE
  <2>1. n \in 0 .. n /\ n - n = 0
    BY <1>3
  <2>2. n \notin Bad => LeftAt(tb, left[n - n], n - n)
    BY <2>1
  <2> HIDE DEF Bad, n
  <2> QED BY <1>2, <2>1, <2>2
<1>7. Bad \subseteq Nat
  BY <1>3
<1>8. PICK k \in Bad : \A j \in Bad : k <= j
  BY <1>6, <1>7, HasLeast
<1>9. LeftAt(tb, tb.rows, n)
  <2>1. tb.rows \in Seq(Range(tb.rows))
    BY DEF Range
  <2>2. {j \in n + 1 .. n : matches_where(tb, tb.rows[j])} = {} /\ n + 1 .. Len(tb.rows) = {}
    BY <1>3
  <2>3. n - n = 0
    BY <1>3
  <2>4. Cardinality({}) = 0
    BY FS_EmptySet
  <2>5. /\ n <= Len(tb.rows) /\ Len(tb.rows) <= Len(tb.rows)
        /\ \A j \in n + 1 .. Len(tb.rows) : ~matches_where(tb, tb.rows[j])
    BY <1>3
  <2>6. Len(tb.rows) - Len(tb.rows)
          = Cardinality({j \in n + 1 .. Len(tb.rows) : matches_where(tb, tb.rows[j])})
    BY <2>2, <2>3, <2>4
  <2> QED BY <2>1, <2>5, <2>6, Zenon DEF LeftAt
<1>10. k # 0
  <2>1. k = 0 => n - k = n
    BY <1>3
  <2> QED BY <1>4, <1>8, <1>9, <2>1
<1>11. /\ k - 1 \in 0 .. n /\ ~(k <= k - 1) /\ n - k \in 0 .. n - 1
       /\ n - (k - 1) = n - k + 1
  BY <1>3, <1>8, <1>10
<1>12. k - 1 \notin Bad
  <2> HIDE DEF Bad
  <2> QED BY <1>8, <1>11
<1>13. LeftAt(tb, left[n - k + 1], n - k + 1)
  BY <1>11, <1>12
<1> DEFINE i == n - k  l == left[i + 1]
<1>14. LeftAt(tb, IF matches_where(tb, l[i + 1]) THEN table_delete_row(l, i + 1) ELSE l, i)
  <2>1. i \in 0 .. Len(tb.rows) - 1 /\ LeftAt(tb, l, i + 1)
    BY <1>11, <1>13
  <2> HIDE DEF i, l, n
  <2> QED BY <2>1, ScanTurn
<1>15. LeftAt(tb, left[i], i)
  BY <1>5, <1>11, <1>14
<1> QED BY <1>8, <1>15
-----------------------------------------------------------------------------
(* The engine. *)

Row(cs) == [DOMAIN cs -> Words]

Table == UNION {[name : Words \cup {""}, columns : {cs}, rows : Seq(Row(cs))] : cs \in Seq(Words)}

Counts == Nat \cup {NULL, Unset}
Answers == [status : {200, 201, 400, 404, 409, 500},
            affected_rows : Counts, result_rows : Counts]

\* No name twice, and no column twice in a table while statements are plain.
NamesApart ==
    /\ \A i, j \in 1 .. Len(tables) : tables[i].name = tables[j].name => i = j
    /\ plain => \A i \in 1 .. Len(tables) : IsInjective(tables[i].columns)

EngineInv ==
    /\ ParseInv
    /\ tables \in Seq(Table)
    /\ NamesApart
    /\ response \in Answers \cup {NULL}
    /\ plain \in BOOLEAN

\* What a table is made of.
LEMMA TableIs ==
    ASSUME NEW tb \in Table
    PROVE  /\ tb.name \in Words \cup {""} /\ tb.columns \in Seq(Words)
           /\ tb.rows \in Seq(Row(tb.columns))
           /\ \A rows \in Seq(Row(tb.columns)) :
                 /\ [tb EXCEPT !.rows = rows] \in Table
                 /\ [tb EXCEPT !.rows = rows].name = tb.name
                 /\ [tb EXCEPT !.rows = rows].columns = tb.columns
                 /\ [tb EXCEPT !.rows = rows].rows = rows
<1>1. PICK cs \in Seq(Words) :
         tb \in [name : Words \cup {""}, columns : {cs}, rows : Seq(Row(cs))]
  BY DEF Table
<1>2. tb.columns = cs /\ tb.name \in Words \cup {""} /\ tb.rows \in Seq(Row(cs))
  BY <1>1
<1>3. ASSUME NEW rows \in Seq(Row(cs))
      PROVE  /\ [tb EXCEPT !.rows = rows] \in Table
             /\ [tb EXCEPT !.rows = rows].name = tb.name
             /\ [tb EXCEPT !.rows = rows].columns = tb.columns
             /\ [tb EXCEPT !.rows = rows].rows = rows
  <2>1. [tb EXCEPT !.rows = rows]
            \in [name : Words \cup {""}, columns : {cs}, rows : Seq(Row(cs))]
    BY <1>1
  <2>2. [tb EXCEPT !.rows = rows] \in Table
    BY <2>1, Zenon DEF Table
  <2>3. /\ [tb EXCEPT !.rows = rows].name = tb.name
        /\ [tb EXCEPT !.rows = rows].columns = tb.columns
        /\ [tb EXCEPT !.rows = rows].rows = rows
    BY <1>1
  <2> QED BY <2>2, <2>3
<1> QED BY <1>2, <1>3

\* The first table of a name, if there is one.
PlaceOfName(ts, n) == SelectInSeq(ts, LAMBDA tb : tb.name = n)

\* Where PlaceOfName finds it.
LEMMA PlaceOfNameIs ==
    ASSUME NEW S, NEW ts \in Seq(S), NEW n
    PROVE  /\ PlaceOfName(ts, n) \in 0 .. Len(ts)
           /\ PlaceOfName(ts, n) = 0 => \A i \in 1 .. Len(ts) : ts[i].name # n
           /\ PlaceOfName(ts, n) # 0 => ts[PlaceOfName(ts, n)].name = n
<1> DEFINE w == PlaceOfName(ts, n)
           I == {i \in 1 .. Len(ts) : ts[i].name = n}
<1>1. w = IF I # {} THEN Min(I) ELSE 0
  BY Zenon DEF PlaceOfName, SelectInSeq
<1> HIDE DEF w
<1>2. CASE I = {}
  BY <1>1, <1>2 DEF w
<1>3. CASE I # {}
  <2>1. I \subseteq Nat
    OBVIOUS
  <2>2. \E i \in I : \A j \in I : i <= j
    BY <1>3, <2>1, HasLeast
  <2>3. Min(I) \in I
    BY <2>2 DEF Min
  <2> QED BY <1>1, <1>3, <2>3 DEF w
<1> QED BY <1>2, <1>3

\* TableNamed finds the first table of the name, if there is one (sql_manager.c:66).
LEMMA TableNamedIs ==
    ASSUME tables \in Seq(Table), NEW n
    PROVE  /\ TableNamed(n) \in 0 .. Len(tables)
           /\ TableNamed(n) = 0 => \A i \in 1 .. Len(tables) : tables[i].name # n
           /\ TableNamed(n) # 0 => tables[TableNamed(n)].name = n
<1>1. TableNamed(n) = PlaceOfName(tables, n)
  BY Zenon DEF TableNamed, PlaceOfName
<1> QED BY <1>1, PlaceOfNameIs

\* The table of a statement.
LEMMA TargetIs ==
    ASSUME tables \in Seq(Table), Found
    PROVE  /\ TableNamed(stmt.table) \in 1 .. Len(tables)
           /\ Target = tables[TableNamed(stmt.table)] /\ Target \in Table
           /\ Target.name = stmt.table
<1>1. TableNamed(stmt.table) \in 0 .. Len(tables) /\ TableNamed(stmt.table) # 0
      /\ tables[TableNamed(stmt.table)].name = stmt.table
  BY TableNamedIs DEF Found
<1> QED BY <1>1 DEF Target

\* Replacing the rows of the target changes nothing else.
LEMMA ReplaceIs ==
    ASSUME EngineInv, Found, NEW rows \in Seq(Row(Target.columns)), Replace(rows)
    PROVE  /\ tables' \in Seq(Table) /\ Len(tables') = Len(tables)
           /\ \A i \in 1 .. Len(tables) :
                 /\ tables'[i].name = tables[i].name
                 /\ tables'[i].columns = tables[i].columns
                 /\ tables'[i].rows = IF i = TableNamed(stmt.table) THEN rows
                                      ELSE tables[i].rows
                 /\ tables'[i] = IF i = TableNamed(stmt.table) THEN [Target EXCEPT !.rows = rows]
                                 ELSE tables[i]
<1> DEFINE w == TableNamed(stmt.table)
<1>1. w \in 1 .. Len(tables) /\ Target = tables[w] /\ Target \in Table
  BY TargetIs DEF EngineInv
<1>2. tables' = [tables EXCEPT ![w] = [Target EXCEPT !.rows = rows]]
  BY <1>1 DEF Replace
<1>3. /\ [Target EXCEPT !.rows = rows] \in Table
      /\ [Target EXCEPT !.rows = rows].name = Target.name
      /\ [Target EXCEPT !.rows = rows].columns = Target.columns
      /\ [Target EXCEPT !.rows = rows].rows = rows
  BY <1>1, TableIs
<1> DEFINE new == [Target EXCEPT !.rows = rows]
<1> HIDE DEF w, new
<1>4. /\ tables' \in Seq(Table) /\ Len(tables') = Len(tables)
      /\ \A i \in 1 .. Len(tables) : tables'[i] = IF i = w THEN new ELSE tables[i]
  <2>1. new \in Table /\ tables' = [tables EXCEPT ![w] = new] /\ tables \in Seq(Table)
    BY <1>2, <1>3 DEF new, EngineInv
  <2> QED BY <1>1, <2>1, ExceptSeq
<1> QED BY <1>1, <1>3, <1>4 DEF w, new

\* The columns of a new table: those of the statement that fit, in their order
\* (sql_api.c:153).
LEMMA FittingIs ==
    ASSUME stmt.columns \in Seq(Words)
    PROVE  /\ FittingColumns \in Seq(Words)
           /\ (\A i \in DOMAIN stmt.columns : Fits(stmt.columns[i]))
                  => FittingColumns = stmt.columns
<1> DEFINE cs == stmt.columns  n == Len(cs)  S == Seq(Words)
           next(i, s) == IF Fits(cs[i]) THEN Append(s, cs[i]) ELSE s
           All(f) == f = [i \in 0 .. n |-> IF i = 0 THEN <<>> ELSE next(i, f[i - 1])]
           step == [i \in Nat |-> [s \in S |-> IF i \in 1 .. n THEN next(i, s) ELSE s]]
<1>1. n \in Nat /\ cs \in S /\ <<>> \in S /\ DOMAIN cs = 1 .. n
  OBVIOUS
<1>2. ASSUME NEW i \in 1 .. n, NEW s \in S PROVE next(i, s) \in S
  <2>1. cs[i] \in Words
    BY <1>1
  <2>2. Append(s, cs[i]) \in S
    BY <2>1, AppendProperties
  <2> QED BY <2>2
<1> HIDE DEF next, cs, n
<1>3. step \in [Nat -> [S -> S]]
  BY <1>2
<1>4. \A i \in 1 .. n : \A s \in S : step[i][s] = next(i, s)
  BY <1>1
<1> HIDE DEF step, S
<1>5. PICK f \in [0 .. n -> S] : Goes(f, <<>>, step, n)
  BY <1>1, <1>3, Iterated, Zenon
<1>6. f = [i \in 0 .. n |-> IF i = 0 THEN <<>> ELSE next(i, f[i - 1])]
  <2>1. ASSUME NEW i \in 0 .. n
        PROVE  f[i] = IF i = 0 THEN <<>> ELSE next(i, f[i - 1])
    <3>1. CASE i = 0
      BY <1>5, <3>1 DEF Goes
    <3>2. CASE i # 0
      <4>1. i \in 1 .. n /\ i - 1 \in 0 .. n
        BY <1>1, <3>2
      <4>2. f[i] = step[i][f[i - 1]] /\ f[i - 1] \in S
        BY <1>5, <4>1 DEF Goes
      <4> QED BY <1>4, <3>2, <4>1, <4>2
    <3> QED BY <3>1, <3>2
  <2> QED BY <2>1
<1> DEFINE g == CHOOSE h : All(h)
<1>7. All(g)
  <2>1. All(f)
    BY <1>6
  <2> HIDE DEF All
  <2> QED BY <2>1, Zenon
<1>8. FittingColumns = g[n]
  BY Zenon DEF FittingColumns, next, cs, n
<1> HIDE DEF g
<1>9. g[0] = <<>> /\ \A i \in 1 .. n : g[i] = next(i, g[i - 1])
  <2>1. g = [i \in 0 .. n |-> IF i = 0 THEN <<>> ELSE next(i, g[i - 1])]
    BY <1>7
  <2>2. \A i \in 1 .. n : i \in 0 .. n /\ i # 0
    BY <1>1
  <2>3. 0 \in 0 .. n
    BY <1>1
  <2> HIDE DEF All
  <2>4. g[0] = <<>>
    BY <2>1, <2>3
  <2>5. \A i \in 1 .. n : g[i] = next(i, g[i - 1])
    BY <2>1, <2>2
  <2> QED BY <2>4, <2>5
<1> DEFINE Fit(i) == \A j \in 1 .. i : Fits(cs[j])
           Good(i) == /\ g[i] \in S
                      /\ Fit(i) => Len(g[i]) = i /\ \A j \in 1 .. i : g[i][j] = cs[j]
           Bad == {i \in 0 .. n : ~Good(i)}
<1>10. Good(0)
  BY <1>1, <1>9
<1>11. ASSUME NEW i \in 1 .. n, Good(i - 1) PROVE Good(i)
  <2>1. g[i] = next(i, g[i - 1]) /\ g[i - 1] \in S /\ i \in Nat /\ i - 1 \in Nat
    BY <1>1, <1>9, <1>11
  <2>2. g[i] \in S
    BY <1>2, <2>1
  <2>3. ASSUME Fit(i) PROVE Len(g[i]) = i /\ \A j \in 1 .. i : g[i][j] = cs[j]
    <3>1. Fit(i - 1) /\ Fits(cs[i])
      BY <1>1, <2>1, <2>3
    <3>2. Len(g[i - 1]) = i - 1 /\ \A j \in 1 .. i - 1 : g[i - 1][j] = cs[j]
      BY <1>11, <3>1
    <3>3. g[i] = Append(g[i - 1], cs[i])
      BY <2>1, <3>1 DEF next
    <3>4. cs[i] \in Words /\ g[i - 1] \in Seq(Words)
      BY <1>1, <2>1 DEF S
    <3>5. /\ Len(g[i]) = Len(g[i - 1]) + 1 /\ g[i][Len(g[i - 1]) + 1] = cs[i]
          /\ \A j \in 1 .. Len(g[i - 1]) : g[i][j] = g[i - 1][j]
      BY <3>3, <3>4, AppendProperties
    <3>6. i = Len(g[i - 1]) + 1 /\ Len(g[i]) = i
      BY <2>1, <3>2, <3>5
    <3>7. ASSUME NEW j \in 1 .. i PROVE g[i][j] = cs[j]
      <4>1. CASE j = i
        BY <3>5, <3>6, <4>1
      <4>2. CASE j # i
        <5>1. j \in 1 .. i - 1
          BY <2>1, <4>2
        <5>2. g[i][j] = g[i - 1][j]
          BY <3>2, <3>5, <5>1
        <5> QED BY <3>2, <5>1, <5>2
      <4> QED BY <4>1, <4>2
    <3> QED BY <3>6, <3>7
  <2> QED BY <2>2, <2>3
<1> HIDE DEF Good
<1>12. Bad = {}
  <2>1. SUFFICES ASSUME Bad # {} PROVE FALSE
    OBVIOUS
  <2>2. Bad \subseteq Nat
    BY <1>1
  <2>3. PICK i \in Bad : \A j \in Bad : i <= j
    BY <2>1, <2>2, HasLeast
  <2>4. i # 0
    BY <1>10, <2>3
  <2>5. i \in 1 .. n /\ i - 1 \in 0 .. n /\ ~(i <= i - 1)
    BY <1>1, <2>3, <2>4
  <2>6. Good(i - 1)
    BY <2>3, <2>5
  <2> QED BY <1>11, <2>3, <2>5, <2>6
<1>13. Good(n)
  BY <1>1, <1>12
<1>14. g[n] \in Seq(Words) /\ cs \in Seq(Words) /\ Len(cs) = n
  BY <1>1, <1>13 DEF Good, S, n, cs
<1>15. ASSUME \A i \in DOMAIN cs : Fits(cs[i]) PROVE g[n] = cs
  <2>1. Fit(n)
    BY <1>1, <1>15
  <2>2. Len(g[n]) = Len(cs) /\ \A j \in 1 .. Len(g[n]) : g[n][j] = cs[j]
    BY <1>13, <1>14, <2>1 DEF Good
  <2> QED BY <1>14, <2>2, SeqEqual
<1> QED BY <1>8, <1>14, <1>15 DEF cs
\* No count but these is answered.
LEMMA CountsAre == NULL \in Counts /\ Unset \in Counts /\ Nat \subseteq Counts
  BY DEF Counts

\* An answer frees the statement, and nothing is parsed then (sql_api.c:211).
LEMMA AnswerKeeps ==
    ASSUME NEW s \in {200, 201, 400, 404, 409, 500}, NEW a \in Counts, NEW r \in Counts,
           Answer(s, a, r)
    PROVE  ParseInv' /\ response' \in Answers \cup {NULL}
<1>1. sql_statement_free /\ response' = [status |-> s, affected_rows |-> a, result_rows |-> r]
  BY DEF Answer
<1>2. [status |-> s, affected_rows |-> a, result_rows |-> r] \in Answers
  BY DEF Answers, Counts
<1> QED BY <1>1, <1>2, NoTextParsed

\* How many rows a condition holds of.
LEMMA MatchesCounted ==
    ASSUME NEW S, NEW tb, tb.rows \in Seq(S)
    PROVE  MatchCount(tb) \in Nat
<1>1. IsFiniteSet(1 .. Len(tb.rows)) /\ DOMAIN tb.rows = 1 .. Len(tb.rows)
  BY FS_Interval
<1>2. {i \in DOMAIN tb.rows : matches_where(tb, tb.rows[i])} \subseteq 1 .. Len(tb.rows)
  BY <1>1
<1>3. IsFiniteSet({i \in DOMAIN tb.rows : matches_where(tb, tb.rows[i])})
  BY <1>1, <1>2, FS_Subset
<1> QED BY <1>3, FS_CardinalityType DEF MatchCount

\* Other rows in one of the tables leave the tables sound.
LEMMA ReplaceKeeps ==
    ASSUME EngineInv, Found, NEW rows \in Seq(Row(Target.columns)), Replace(rows),
           plain' => plain
    PROVE  tables' \in Seq(Table) /\ NamesApart'
<1>1. /\ tables' \in Seq(Table) /\ Len(tables') = Len(tables)
      /\ \A i \in 1 .. Len(tables) :
            tables'[i].name = tables[i].name /\ tables'[i].columns = tables[i].columns
  BY ReplaceIs
<1>2. \A i, j \in 1 .. Len(tables') : tables'[i].name = tables'[j].name => i = j
  BY <1>1 DEF EngineInv, NamesApart
<1>3. plain' => \A i \in 1 .. Len(tables') : IsInjective(tables'[i].columns)
  <2>1. plain => \A i \in 1 .. Len(tables) : IsInjective(tables[i].columns)
    BY DEF EngineInv, NamesApart
  <2>2. ASSUME NEW i \in 1 .. Len(tables'), plain' PROVE IsInjective(tables'[i].columns)
    <3>1. i \in 1 .. Len(tables) /\ tables'[i].columns = tables[i].columns
      BY <1>1
    <3>2. IsInjective(tables[i].columns)
      BY <2>1, <2>2, <3>1
    <3> QED BY <3>1, <3>2
  <2> QED BY <2>2
<1> QED BY <1>1, <1>2, <1>3 DEF NamesApart

\* CREATE adds a table of its own name.
LEMMA CreateKeeps ==
    ASSUME EngineInv, Create
    PROVE  EngineInv'
<1> DEFINE new == [name |-> stmt.table, columns |-> FittingColumns, rows |-> <<>>]
<1>1. /\ stmt.table # NULL /\ ~Found /\ tables' = Append(tables, new)
      /\ plain' = (plain /\ IsInjective(stmt.columns)
                         /\ \A i \in DOMAIN stmt.columns : Fits(stmt.columns[i]))
      /\ Answer(201, NULL, NULL)
  BY DEF Create, Creatable
<1>2. /\ stmt.table \in Words \cup {""} /\ stmt.columns \in Seq(Words)
      /\ NamesApart /\ plain \in BOOLEAN
  BY <1>1 DEF EngineInv, ParseInv, Statement
<1>14. tables \in Seq(Table)
  BY DEF EngineInv
<1>3. /\ FittingColumns \in Seq(Words)
      /\ (\A i \in DOMAIN stmt.columns : Fits(stmt.columns[i])) => FittingColumns = stmt.columns
  BY <1>2, FittingIs
<1>4. new \in Table
  <2>1. <<>> \in Seq(Row(FittingColumns))
    OBVIOUS
  <2>2. new \in [name : Words \cup {""}, columns : {FittingColumns},
                 rows : Seq(Row(FittingColumns))]
    BY <1>2, <2>1
  <2> QED BY <1>3, <2>2, Zenon DEF Table
<1>5. /\ new.name = stmt.table /\ new.columns = FittingColumns
  OBVIOUS
<1> HIDE DEF new
<1>6. /\ tables' \in Seq(Table) /\ Len(tables') = Len(tables) + 1
      /\ tables'[Len(tables) + 1] = new
      /\ \A i \in 1 .. Len(tables) : tables'[i] = tables[i]
  BY <1>1, <1>4, <1>14, AppendProperties
<1>7. \A i \in 1 .. Len(tables) : tables[i].name # stmt.table
  BY <1>1, <1>2, <1>14, TableNamedIs DEF Found
<1>8. Len(tables) \in Nat
  BY <1>14
<1>9. \A i \in 1 .. Len(tables') : i \in 1 .. Len(tables) \/ i = Len(tables) + 1
  BY <1>6, <1>8
<1>10. \A i, j \in 1 .. Len(tables') : tables'[i].name = tables'[j].name => i = j
  BY <1>2, <1>5, <1>6, <1>7, <1>9 DEF NamesApart
<1>11. ASSUME plain', NEW i \in 1 .. Len(tables') PROVE IsInjective(tables'[i].columns)
  <2>1. CASE i \in 1 .. Len(tables)
    BY <1>1, <1>2, <1>6, <1>11, <2>1 DEF NamesApart
  <2>2. CASE i = Len(tables) + 1
    <3>1. FittingColumns = stmt.columns /\ IsInjective(stmt.columns)
      BY <1>1, <1>3, <1>11
    <3>2. tables'[i].columns = FittingColumns
      BY <1>5, <1>6, <2>2
    <3> QED BY <3>1, <3>2
  <2> QED BY <1>9, <2>1, <2>2
<1>12. ParseInv' /\ response' \in Answers \cup {NULL}
  BY <1>1, AnswerKeeps, CountsAre
<1>13. plain' \in BOOLEAN
  BY <1>1, <1>2, Zenon
<1> QED BY <1>6, <1>10, <1>11, <1>12, <1>13 DEF EngineInv, NamesApart

\* The rows of the target.
LEMMA RowsOfTarget ==
    ASSUME EngineInv, Found
    PROVE  /\ Target.columns \in Seq(Words)
           /\ Target.rows \in Seq(Row(Target.columns))
<1>1. Target \in Table
  BY TargetIs DEF EngineInv
<1> QED BY <1>1, TableIs

\* A row is added.
LEMMA RowAdded ==
    ASSUME EngineInv, Found, Insertable(Target)
    PROVE  /\ stmt.values \in Row(Target.columns)
           /\ Append(Target.rows, stmt.values) \in Seq(Row(Target.columns))
<1>1. stmt.values \in Seq(Words)
  BY DEF EngineInv, ParseInv, Statement
<1>2. Target.columns \in Seq(Words) /\ Target.rows \in Seq(Row(Target.columns))
  BY RowsOfTarget
<1>3. Len(stmt.values) = Len(Target.columns)
  BY DEF Insertable
<1>4. DOMAIN stmt.values = DOMAIN Target.columns
  BY <1>1, <1>2, <1>3
<1>5. stmt.values \in Row(Target.columns)
  BY <1>1, <1>4 DEF Row
<1> QED BY <1>2, <1>5, AppendProperties

\* A row that is updated stays a row.
LEMMA RowsUpdated ==
    ASSUME EngineInv, Found
    PROVE  /\ AfterUpdate(Target) \in Seq(Row(Target.columns))
           /\ Len(AfterUpdate(Target)) = Len(Target.rows)
           /\ \A i \in 1 .. Len(Target.rows) : AfterUpdate(Target)[i] =
                 IF Updates(Target) /\ matches_where(Target, Target.rows[i])
                 THEN [Target.rows[i] EXCEPT ![1] = stmt.values[1]] ELSE Target.rows[i]
<1> DEFINE rows == Target.rows  R0 == Row(Target.columns)  n == Len(rows)  u == AfterUpdate(Target)
<1>1. rows \in Seq(R0) /\ n \in Nat /\ DOMAIN rows = 1 .. n
  BY RowsOfTarget
<1>2. stmt.values \in Seq(Words)
  BY DEF EngineInv, ParseInv, Statement
<1>3. /\ DOMAIN u = 1 .. n
      /\ \A i \in 1 .. n : u[i] = IF Updates(Target) /\ matches_where(Target, rows[i])
                                  THEN [rows[i] EXCEPT ![1] = stmt.values[1]] ELSE rows[i]
  BY <1>1, Zenon DEF AfterUpdate
<1>4. ASSUME NEW i \in 1 .. n PROVE u[i] \in R0
  <2>1. rows[i] \in R0
    BY <1>1
  <2>2. CASE Updates(Target)
    <3>1. stmt.values[1] \in Words
      BY <1>2, <2>2 DEF Updates
    <3>2. [rows[i] EXCEPT ![1] = stmt.values[1]] \in R0
      BY <2>1, <3>1 DEF Row
    <3> QED BY <1>3, <2>1, <3>2
  <2>3. CASE ~Updates(Target)
    BY <1>3, <2>1, <2>3
  <2> QED BY <2>2, <2>3
<1>5. u \in [1 .. n -> R0]
  <2>1. u = [i \in 1 .. n |-> u[i]]
    BY <1>1, Zenon DEF AfterUpdate
  <2> HIDE DEF u, R0, n
  <2> QED BY <2>1, <1>4
<1> HIDE DEF u, R0, n
<1>6. u \in Seq(R0) /\ Len(u) = n
  BY <1>1, <1>5
<1> QED BY <1>3, <1>6 DEF u, R0, n

\* What is left after a DELETE are rows of the table.
LEMMA RowsLeft ==
    ASSUME EngineInv, Found
    PROVE  /\ AfterDelete(Target) \in Seq(Row(Target.columns))
           /\ LeftAt(Target, AfterDelete(Target), 0)
           /\ Len(Target.rows) - Len(AfterDelete(Target)) \in Nat
<1> DEFINE rows == Target.rows  R0 == Row(Target.columns)  d == AfterDelete(Target)
<1>1. rows \in Seq(R0)
  BY RowsOfTarget
<1>2. LeftAt(Target, d, 0)
  BY <1>1, AfterDeleteIs
<1>3. d \in Seq(Range(rows)) /\ Len(d) <= Len(rows)
  BY <1>2 DEF LeftAt
<1>4. Range(rows) \subseteq R0
  BY <1>1 DEF Range
<1>5. d \in Seq(R0)
  BY <1>3, <1>4
<1>6. Len(d) \in Nat /\ Len(rows) \in Nat
  BY <1>1, <1>3
<1> HIDE DEF d, rows, R0
<1>7. Len(rows) - Len(d) \in Nat
  BY <1>3, <1>6
<1> QED BY <1>2, <1>5, <1>7 DEF d, rows, R0

\* Each statement keeps the invariant.
LEMMA ExecuteKeeps ==
    ASSUME EngineInv, Execute
    PROVE  EngineInv'
<1>1. CASE Create
  BY <1>1, CreateKeeps
<1>2. ASSUME UNCHANGED <<tables, plain>>, ParseInv', response' \in Answers \cup {NULL}
      PROVE  EngineInv'
  BY <1>2 DEF EngineInv, NamesApart
<1>3. CASE CreateRefused
  <2> DEFINE e == IF stmt.table = NULL THEN 400 ELSE IF Fits(stmt.table) THEN 409 ELSE 500
  <2>1. Answer(e, NULL, NULL) /\ UNCHANGED <<tables, plain>>
    BY <1>3 DEF CreateRefused
  <2>2. e \in {400, 409, 500}
    OBVIOUS
  <2> HIDE DEF e
  <2>3. ParseInv' /\ response' \in Answers \cup {NULL}
    BY <2>1, <2>2, AnswerKeeps, CountsAre
  <2> QED BY <1>2, <2>1, <2>3
<1>4. CASE NoTable
  <2> DEFINE e == IF stmt.table = NULL THEN 400 ELSE 404
  <2>1. Answer(e, NULL, NULL) /\ e \in {400, 404} /\ UNCHANGED <<tables, plain>>
    BY <1>4 DEF NoTable
  <2> HIDE DEF e
  <2>2. ParseInv' /\ response' \in Answers \cup {NULL}
    BY <2>1, AnswerKeeps, CountsAre
  <2> QED BY <1>2, <2>1, <2>2
<1>5. Found => MatchCount(Target) \in Nat
  BY RowsOfTarget, MatchesCounted
<1>6. CASE Select
  <2>1. Answer(200, 0, MatchCount(Target)) /\ UNCHANGED <<tables, plain>> /\ Found
    BY <1>6 DEF Select
  <2>2. ParseInv' /\ response' \in Answers \cup {NULL}
    BY <1>5, <2>1, AnswerKeeps, CountsAre
  <2> QED BY <1>2, <2>1, <2>2
<1>7. CASE Insert
  <2>1. /\ Found /\ Insertable(Target) /\ Replace(Append(Target.rows, stmt.values))
        /\ plain' = (plain /\ stmt.columns = Target.columns) /\ Answer(200, 1, 0)
    BY <1>7 DEF Insert
  <2>2. Append(Target.rows, stmt.values) \in Seq(Row(Target.columns))
    BY <2>1, RowAdded
  <2>3. tables' \in Seq(Table) /\ NamesApart'
    BY <2>1, <2>2, ReplaceKeeps
  <2>4. ParseInv' /\ response' \in Answers \cup {NULL}
    BY <2>1, AnswerKeeps, CountsAre
  <2>5. plain' \in BOOLEAN
    BY <2>1, Zenon DEF EngineInv
  <2> QED BY <2>3, <2>4, <2>5 DEF EngineInv
<1>8. CASE InsertFails
  <2>1. Answer(400, Unset, Unset) /\ UNCHANGED <<tables, plain>>
    BY <1>8 DEF InsertFails
  <2>2. ParseInv' /\ response' \in Answers \cup {NULL}
    BY <2>1, AnswerKeeps, CountsAre
  <2> QED BY <1>2, <2>1, <2>2
<1>9. CASE Update
  <2>1. /\ Found /\ Replace(AfterUpdate(Target)) /\ plain' = FALSE
        /\ Answer(200, IF Updates(Target) THEN MatchCount(Target) ELSE 0, 0)
    BY <1>9 DEF Update
  <2>2. tables' \in Seq(Table) /\ NamesApart'
    BY <2>1, RowsUpdated, ReplaceKeeps
  <2> DEFINE e == IF Updates(Target) THEN MatchCount(Target) ELSE 0
  <2>3. e \in Nat /\ Answer(200, e, 0)
    BY <1>5, <2>1
  <2> HIDE DEF e
  <2>4. ParseInv' /\ response' \in Answers \cup {NULL}
    BY <2>3, AnswerKeeps, CountsAre
  <2> QED BY <2>1, <2>2, <2>4 DEF EngineInv
<1>10. CASE Delete
  <2>1. /\ Found /\ Replace(AfterDelete(Target)) /\ plain' = plain
        /\ Answer(200, Len(Target.rows) - Len(AfterDelete(Target)), 0)
    BY <1>10 DEF Delete
  <2>2. tables' \in Seq(Table) /\ NamesApart'
    BY <2>1, RowsLeft, ReplaceKeeps
  <2>3. ParseInv' /\ response' \in Answers \cup {NULL}
    BY <2>1, RowsLeft, AnswerKeeps, CountsAre
  <2> QED BY <2>1, <2>2, <2>3 DEF EngineInv
<1> QED BY <1>1, <1>3, <1>4, <1>6, <1>7, <1>8, <1>9, <1>10 DEF Execute

\* The endpoint and its tables are sound in every reachable state: the parser's
\* invariant, no two tables of a name, rows as wide as their table (sql_api.c:120).
THEOREM EngineAlwaysSound == EngineSpec => []EngineInv
<1>1. EngineInit => EngineInv
  <2>1. ASSUME EngineInit PROVE EngineInv
    <3>1. tables = <<>> /\ response = NULL /\ plain = TRUE /\ Init
      BY <2>1 DEF EngineInit
    <3>2. tables \in Seq(Table) /\ Len(tables) = 0
      BY <3>1
    <3> QED BY <3>1, <3>2, NoTextParsed DEF EngineInv, NamesApart
  <2> QED BY <2>1
<1>2. ASSUME EngineInv, [EngineNext]_vars PROVE EngineInv'
  <2>1. CASE UNCHANGED vars
    BY <1>2, <2>1 DEF vars, EngineInv, NamesApart, ParseInv, OpenFrom
  <2>2. CASE Parse
    <3>1. ParseInv' /\ UNCHANGED <<tables, response, plain>>
      BY <1>2, <2>2, ParseKeeps DEF Parse, EngineInv
    <3> QED BY <1>2, <3>1 DEF EngineInv, NamesApart
  <2>3. CASE Execute
    BY <1>2, <2>3, ExecuteKeeps
  <2>4. ASSUME NEW t \in Texts, Request(t) PROVE EngineInv'
    <3>1. sql_parse(t) /\ response' = NULL /\ UNCHANGED <<tables, plain>>
      BY <2>4 DEF Request
    <3>2. ParseInv'
      BY <1>2, <3>1, ParseBegins DEF EngineInv
    <3> QED BY <1>2, <3>1, <3>2 DEF EngineInv, NamesApart
  <2> QED BY <1>2, <2>1, <2>2, <2>3, <2>4 DEF EngineNext
<1> QED BY <1>1, <1>2, PTL DEF EngineSpec

\* The types of the endpoint: a table's rows give every column a word, an answer's counts
\* are numbers, nothing, or never written (table.c:104, sql_api.c:199).
THEOREM EngineTypes == EngineSpec => []EngineTypeOK
<1>1. ASSUME EngineInv PROVE EngineTypeOK
  <2>1. TypeOK
    BY <1>1, ParseInvTypes DEF EngineInv
  <2>2. ASSUME NEW i \in DOMAIN tables
        PROVE  /\ tables[i].name \in Words \cup {""}
               /\ tables[i].columns \in Seq(Words)
               /\ tables[i].rows \in Seq([DOMAIN tables[i].columns -> Words])
    <3>1. tables[i] \in Table
      BY <1>1 DEF EngineInv
    <3> QED BY <3>1, TableIs DEF Row
  <2>3. response \in Answers \cup {NULL} /\ plain \in BOOLEAN
    BY <1>1 DEF EngineInv
  <2> QED BY <2>1, <2>2, <2>3 DEF EngineTypeOK, Answers, Counts
<1> QED BY <1>1, EngineAlwaysSound, PTL
-----------------------------------------------------------------------------
(* DELETE and UPDATE. *)

\* Where a row is not, it is nowhere, and where it is, it is somewhere.
LEMMA PlacesFinite ==
    ASSUME NEW S, NEW s \in Seq(S), NEW r
    PROVE  /\ Cardinality(PlacesOf(s, r)) \in Nat
           /\ Cardinality(PlacesOf(s, r)) = 0 <=> r \notin Range(s)
<1>1. IsFiniteSet(1 .. Len(s)) /\ DOMAIN s = 1 .. Len(s)
  BY FS_Interval
<1>2. PlacesOf(s, r) \subseteq 1 .. Len(s)
  BY <1>1 DEF PlacesOf
<1>3. IsFiniteSet(PlacesOf(s, r))
  BY <1>1, <1>2, FS_Subset
<1>4. PlacesOf(s, r) = {} <=> r \notin Range(s)
  BY DEF PlacesOf, Range
<1> QED BY <1>3, <1>4, FS_EmptySet, FS_CardinalityType

\* A DELETE leaves every other row as often as it was, and takes as many rows as its
\* condition holds of (sql_executor.c:394).
LEMMA DeleteLeavesOthers ==
    ASSUME EngineInv, Found
    PROVE  /\ BagOfRows(AfterDelete(Target)) = Others(Target)
           /\ Len(Target.rows) - Len(AfterDelete(Target)) = MatchCount(Target)
<1> DEFINE tb == Target  rows == tb.rows  d == AfterDelete(tb)  M(r) == matches_where(tb, r)
           C(s, r) == Cardinality(PlacesOf(s, r))  n == Len(rows)
<1>1. PICK S : S = Row(tb.columns)
  OBVIOUS
<1>2. rows \in Seq(S) /\ d \in Seq(S) /\ LeftAt(tb, d, 0)
  BY <1>1, RowsOfTarget, RowsLeft
<1>3. n \in Nat /\ DOMAIN rows = 1 .. n
  BY <1>2
<1>4. /\ d \in Seq(Range(rows))
      /\ \A j \in 0 + 1 .. Len(d) : ~M(d[j])
      /\ \A r : ~M(r) => C(d, r) = C(rows, r)
      /\ n - Len(d) = Cardinality({j \in 0 + 1 .. n : M(rows[j])})
  BY <1>2 DEF LeftAt
<1>5. n - Len(d) = MatchCount(tb)
  BY <1>3, <1>4 DEF MatchCount
<1>6. BagOfRows(d) = [r \in Range(d) |-> C(d, r)]
  BY Zenon DEF BagOfRows, PlacesOf
<1>7. \A r \in Range(rows) : BagOfRows(rows)[r] = C(rows, r)
  BY DEF BagOfRows, PlacesOf
<1>8. Others(tb) = [r \in {x \in Range(rows) : ~M(x)} |-> BagOfRows(rows)[r]]
  BY Zenon DEF Others
<1>9. \A r \in Range(d) : ~M(r)
  <2>1. ASSUME NEW r \in Range(d) PROVE ~M(r)
    <3>1. PICK j \in 1 .. Len(d) : d[j] = r
      BY <1>2 DEF Range
    <3>2. j \in 0 + 1 .. Len(d)
      BY <1>2
    <3> HIDE DEF M, d
    <3> QED BY <1>4, <3>1, <3>2
  <2> QED BY <2>1
<1> HIDE DEF M, d, rows, tb
<1>10. Range(d) = {x \in Range(rows) : ~M(x)}
  <2>1. ASSUME NEW r \in Range(d) PROVE r \in Range(rows)
    BY <1>4, <2>1 DEF Range
  <2>2. ASSUME NEW r \in Range(rows), ~M(r) PROVE r \in Range(d)
    <3>1. C(rows, r) # 0
      BY <1>2, <2>2, PlacesFinite
    <3>2. C(d, r) # 0
      BY <1>4, <2>2, <3>1
    <3> QED BY <1>2, <3>2, PlacesFinite
  <2> QED BY <1>9, <2>1, <2>2
<1> HIDE DEF C
<1>11. BagOfRows(d) = Others(tb)
  <2>1. \A r \in Range(d) : C(d, r) = BagOfRows(rows)[r]
    BY <1>4, <1>7, <1>10
  <2> QED BY <1>6, <1>8, <1>10, <2>1
<1> QED BY <1>5, <1>11 DEF n, d, rows, tb

\* An UPDATE changes no more rows than its condition holds of (sql_executor.c:333).
LEMMA UpdateChangesFew ==
    ASSUME EngineInv, Found
    PROVE  Cardinality({i \in DOMAIN Target.rows : AfterUpdate(Target)[i] # Target.rows[i]})
               <= IF Updates(Target) THEN MatchCount(Target) ELSE 0
<1> DEFINE tb == Target  rows == tb.rows  u == AfterUpdate(tb)
           Changed == {i \in DOMAIN rows : u[i] # rows[i]}
           Hits == {i \in DOMAIN rows : matches_where(tb, rows[i])}
<1>1. DOMAIN rows = 1 .. Len(rows)
  BY RowsOfTarget
<1>2. \A i \in 1 .. Len(rows) :
         u[i] # rows[i] => Updates(tb) /\ matches_where(tb, rows[i])
  BY RowsUpdated
<1>3. CASE Updates(tb)
  <2>1. Changed \subseteq Hits
    BY <1>1, <1>2
  <2>2. IsFiniteSet(1 .. Len(rows)) /\ Hits \subseteq 1 .. Len(rows)
    BY <1>1, FS_Interval
  <2>3. IsFiniteSet(Hits)
    BY <2>2, FS_Subset
  <2>4. Cardinality(Changed) <= Cardinality(Hits)
    BY <2>1, <2>3, FS_Subset
  <2> QED BY <1>3, <2>4 DEF MatchCount
<1>4. CASE ~Updates(tb)
  <2>1. Changed = {}
    BY <1>1, <1>2, <1>4
  <2>2. Cardinality(Changed) = 0
    BY <2>1, FS_EmptySet
  <2> QED BY <1>4, <2>2
<1> QED BY <1>3, <1>4

\* A DELETE removes every row its condition holds of and no other, an UPDATE changes no
\* other, and both report how many these were (sql_executor.c:333, 394).
THEOREM OthersStay == EngineSpec => OnlyMatchingRowsChange
<1>1. ASSUME EngineInv, Delete
      PROVE  LET rows == tables'[TableNamed(stmt.table)].rows IN
             /\ BagOfRows(rows) = Others(Target)
             /\ response'.affected_rows = MatchCount(Target)
  <2>1. /\ Found /\ Replace(AfterDelete(Target))
        /\ Answer(200, Len(Target.rows) - Len(AfterDelete(Target)), 0)
    BY <1>1 DEF Delete
  <2>2. AfterDelete(Target) \in Seq(Row(Target.columns))
    BY <1>1, <2>1, RowsLeft
  <2>3. TableNamed(stmt.table) \in 1 .. Len(tables)
    BY <1>1, <2>1, TargetIs DEF EngineInv
  <2>4. tables'[TableNamed(stmt.table)].rows = AfterDelete(Target)
    BY <1>1, <2>1, <2>2, <2>3, ReplaceIs
  <2>5. response'.affected_rows = Len(Target.rows) - Len(AfterDelete(Target))
    BY <2>1 DEF Answer
  <2> QED BY <1>1, <2>1, <2>4, <2>5, DeleteLeavesOthers
<1>2. ASSUME EngineInv, Update
      PROVE  LET rows == tables'[TableNamed(stmt.table)].rows IN
             /\ Len(rows) = Len(Target.rows)
             /\ Cardinality({i \in DOMAIN rows : rows[i] # Target.rows[i]})
                    <= response'.affected_rows
             /\ \A i \in DOMAIN rows :
                    ~matches_where(Target, Target.rows[i]) => rows[i] = Target.rows[i]
  <2> DEFINE u == AfterUpdate(Target)  e == IF Updates(Target) THEN MatchCount(Target) ELSE 0
  <2>1. Found /\ Replace(u) /\ Answer(200, e, 0)
    BY <1>2 DEF Update
  <2>2. /\ u \in Seq(Row(Target.columns)) /\ Len(u) = Len(Target.rows)
        /\ \A i \in 1 .. Len(Target.rows) :
              ~matches_where(Target, Target.rows[i]) => u[i] = Target.rows[i]
    BY <1>2, <2>1, RowsUpdated
  <2>3. TableNamed(stmt.table) \in 1 .. Len(tables)
    BY <1>2, <2>1, TargetIs DEF EngineInv
  <2>4. tables'[TableNamed(stmt.table)].rows = u
    BY <1>2, <2>1, <2>2, <2>3, ReplaceIs
  <2>5. response'.affected_rows = e
    BY <2>1 DEF Answer
  <2>6. Cardinality({i \in DOMAIN Target.rows : u[i] # Target.rows[i]}) <= e
    BY <1>2, <2>1, UpdateChangesFew
  <2>7. DOMAIN u = DOMAIN Target.rows /\ DOMAIN u = 1 .. Len(Target.rows)
    BY <1>2, <2>1, <2>2, RowsOfTarget
  <2> HIDE DEF u, e
  <2> QED BY <2>2, <2>4, <2>5, <2>6, <2>7
<1> QED BY <1>1, <1>2, EngineAlwaysSound, PTL DEF EngineSpec, OnlyMatchingRowsChange
-----------------------------------------------------------------------------
(* The tables as relations. *)

\* A row by the names of its columns, and the bag of a table's rows.
RowNamed(tb, r) == [c \in Range(tb.columns) |-> r[ColumnNamed(tb, c)]]
Bagged(tb)      == BagOfRows([i \in DOMAIN tb.rows |-> RowNamed(tb, tb.rows[i])])

\* Contents, of any tables.
Contained(ts) ==
    [n \in {ts[i].name : i \in DOMAIN ts} |-> Bagged(ts[PlaceOfName(ts, n)])]

\* What the tables contain is told by their names.
LEMMA ContainedIs ==
    ASSUME NEW ts \in Seq(Table),
           \A i, j \in 1 .. Len(ts) : ts[i].name = ts[j].name => i = j
    PROVE  /\ DOMAIN Contained(ts) = {ts[i].name : i \in 1 .. Len(ts)}
           /\ \A i \in 1 .. Len(ts) : Contained(ts)[ts[i].name] = Bagged(ts[i])
<1>1. DOMAIN ts = 1 .. Len(ts)
  OBVIOUS
<1>2. /\ DOMAIN Contained(ts) = {ts[i].name : i \in DOMAIN ts}
      /\ \A n \in {ts[i].name : i \in DOMAIN ts} :
            Contained(ts)[n] = Bagged(ts[PlaceOfName(ts, n)])
  BY Zenon DEF Contained
<1>3. ASSUME NEW i \in 1 .. Len(ts)
      PROVE  Contained(ts)[ts[i].name] = Bagged(ts[i])
  <2> DEFINE n == ts[i].name  w == PlaceOfName(ts, n)
  <2>1. /\ w \in 0 .. Len(ts)
        /\ w = 0 => \A j \in 1 .. Len(ts) : ts[j].name # n
        /\ w # 0 => ts[w].name = n
    BY PlaceOfNameIs
  <2>2. w \in 1 .. Len(ts) /\ ts[w].name = n
    BY <2>1
  <2>3. w = i
    BY <2>2
  <2>4. n \in {ts[j].name : j \in DOMAIN ts}
    BY <1>1
  <2>5. Contained(ts)[n] = Bagged(ts[w])
    BY <1>2, <2>4
  <2> QED BY <2>3, <2>5
<1> QED BY <1>1, <1>2, <1>3

\* Contents, now and after a step.
LEMMA ContentsNow == Contents = Contained(tables)
  BY Zenon DEF Contents, Contained, Bagged, RowNamed, TableNamed, PlaceOfName

\* The same of the contents a step leaves.
LEMMA ContentsThen == Contents' = Contained(tables')
<1>1. (Contents = Contained(tables))'
  BY ContentsNow, PTL
<1> QED BY <1>1

\* The bag of a sequence is that of its beginning and of its last element.
LEMMA BagAdds ==
    ASSUME NEW S, NEW s \in Seq(S), NEW x \in S
    PROVE  BagOfRows(Append(s, x)) = BagOfRows(s) (+) SetToBag({x})
<1> DEFINE t == Append(s, x)  n == Len(s)  C(u, r) == Cardinality(PlacesOf(u, r))
           B == BagOfRows(s)
<1>1. /\ t \in Seq(S) /\ Len(t) = n + 1 /\ t[n + 1] = x
      /\ \A i \in 1 .. n : t[i] = s[i]
  BY AppendProperties
<1>2. n \in Nat /\ DOMAIN s = 1 .. n
  OBVIOUS
<1>3. DOMAIN t = 1 .. n + 1
  BY <1>1
<1> HIDE DEF t, n
<1>4. ASSUME NEW r
      PROVE  C(t, r) = IF r = x THEN C(s, r) + 1 ELSE C(s, r)
  <2>1. PlacesOf(s, r) = {i \in 1 .. n : s[i] = r}
    BY <1>2 DEF PlacesOf
  <2>2. PlacesOf(t, r) = {i \in 1 .. n + 1 : t[i] = r}
    BY <1>3 DEF PlacesOf
  <2>3. IsFiniteSet(PlacesOf(s, r)) /\ n + 1 \notin PlacesOf(s, r)
    <3>1. IsFiniteSet(1 .. n)
      BY <1>2, FS_Interval
    <3>2. PlacesOf(s, r) \subseteq 1 .. n
      BY <2>1
    <3> QED BY <1>2, <3>1, <3>2, FS_Subset
  <2>4. CASE r = x
    <3>1. PlacesOf(t, r) = PlacesOf(s, r) \cup {n + 1}
      BY <1>1, <1>2, <2>1, <2>2, <2>4
    <3> QED BY <2>3, <2>4, <3>1, FS_AddElement
  <2>5. CASE r # x
    <3>1. PlacesOf(t, r) = PlacesOf(s, r)
      BY <1>1, <1>2, <2>1, <2>2, <2>5
    <3> QED BY <2>5, <3>1
  <2> QED BY <2>4, <2>5
<1>5. Range(t) = Range(s) \cup {x}
  <2>1. ASSUME NEW r \in Range(t) PROVE r \in Range(s) \cup {x}
    BY <1>1, <1>2, <1>3 DEF Range
  <2>2. ASSUME NEW r \in Range(s) \cup {x} PROVE r \in Range(t)
    BY <1>1, <1>2, <1>3 DEF Range
  <2> QED BY <2>1, <2>2
<1>6. BagOfRows(t) = [r \in Range(t) |-> C(t, r)] /\ B = [r \in Range(s) |-> C(s, r)]
  BY Zenon DEF BagOfRows, PlacesOf
<1>7. \A r : C(s, r) \in Nat /\ (r \notin Range(s) => C(s, r) = 0)
  BY PlacesFinite
<1> HIDE DEF C, B
<1>8. B (+) SetToBag({x}) = [r \in Range(s) \cup {x} |->
          (IF r \in Range(s) THEN C(s, r) ELSE 0) + (IF r = x THEN 1 ELSE 0)]
  BY <1>6 DEF (+), SetToBag
<1>9. ASSUME NEW r \in Range(t)
      PROVE  C(t, r) = (IF r \in Range(s) THEN C(s, r) ELSE 0) + (IF r = x THEN 1 ELSE 0)
  BY <1>4, <1>7
<1> QED BY <1>5, <1>6, <1>8, <1>9 DEF t, B

\* A column is where it is, once.
LEMMA ColumnIs ==
    ASSUME NEW tb, tb.columns \in Seq(Words), NEW c
    PROVE  /\ ColumnNamed(tb, c) # 0 <=> c \in Range(tb.columns)
           /\ ColumnNamed(tb, c) # 0 => /\ ColumnNamed(tb, c) \in 1 .. Len(tb.columns)
                                        /\ tb.columns[ColumnNamed(tb, c)] = c
<1>1. ColumnNamed(tb, c) = PlaceOf(tb.columns, c)
  BY Zenon DEF ColumnNamed, PlaceOf
<1> DEFINE w == PlaceOf(tb.columns, c)
<1>2. /\ w \in 0 .. Len(tb.columns)
      /\ w = 0 => \A i \in 1 .. Len(tb.columns) : tb.columns[i] # c
      /\ w # 0 => tb.columns[w] = c
  BY PlaceOfIs
<1> HIDE DEF w
<1>3. w # 0 => w \in 1 .. Len(tb.columns)
  BY <1>2
<1>4. w # 0 <=> c \in Range(tb.columns)
  BY <1>2, <1>3 DEF Range
<1> QED BY <1>1, <1>2, <1>3, <1>4 DEF w

\* Rows that are told apart by their words are told apart by their named words.
LEMMA NamedApart ==
    ASSUME NEW tb, tb.columns \in Seq(Words), IsInjective(tb.columns),
           NEW r \in Row(tb.columns), NEW s \in Row(tb.columns),
           RowNamed(tb, r) = RowNamed(tb, s)
    PROVE  r = s
<1>1. ASSUME NEW i \in DOMAIN tb.columns PROVE r[i] = s[i]
  <2> DEFINE c == tb.columns[i]
  <2>1. c \in Range(tb.columns)
    BY DEF Range
  <2>2. ColumnNamed(tb, c) \in 1 .. Len(tb.columns) /\ tb.columns[ColumnNamed(tb, c)] = c
    BY <2>1, ColumnIs
  <2>3. ColumnNamed(tb, c) = i
    BY <2>2 DEF IsInjective
  <2>4. RowNamed(tb, r)[c] = r[i] /\ RowNamed(tb, s)[c] = s[i]
    BY <2>1, <2>3 DEF RowNamed
  <2> QED BY <2>4
<1> QED BY <1>1 DEF Row
\* A row is named by the columns alone.
LEMMA RowNamedBy ==
    ASSUME NEW tb, NEW r
    PROVE  RowNamed(tb, r) = [c \in Range(tb.columns) |-> r[PlaceOf(tb.columns, c)]]
  BY Zenon DEF RowNamed, ColumnNamed, PlaceOf

\* Tables of the same columns name a row alike.
LEMMA SameNames ==
    ASSUME NEW tb, NEW ub, tb.columns = ub.columns
    PROVE  \A r : RowNamed(ub, r) = RowNamed(tb, r)
  BY RowNamedBy

\* The row an INSERT describes is the one its values become.
LEMMA DescribedIs ==
    ASSUME stmt.columns = Target.columns
    PROVE  NamedRow = RowNamed(Target, stmt.values)
<1>1. NamedRow = [c \in Range(stmt.columns) |-> stmt.values[PlaceOf(stmt.columns, c)]]
  BY Zenon DEF NamedRow, PlaceOf
<1> QED BY <1>1, RowNamedBy

\* The rows of a table, by names, and the bag of them.
LEMMA BaggedIs ==
    ASSUME NEW tb, tb.columns \in Seq(Words), IsInjective(tb.columns),
           tb.rows \in Seq(Row(tb.columns))
    PROVE  /\ DOMAIN Bagged(tb) = {RowNamed(tb, r) : r \in Range(tb.rows)}
           /\ \A r \in Range(tb.rows) :
                 Bagged(tb)[RowNamed(tb, r)] = Cardinality(PlacesOf(tb.rows, r))
           /\ Bagged(tb) = [x \in DOMAIN Bagged(tb) |-> Bagged(tb)[x]]
<1> DEFINE rows == tb.rows  H(r) == RowNamed(tb, r)
           s == [i \in DOMAIN rows |-> H(rows[i])]
<1>1. Bagged(tb) = [x \in Range(s) |-> Cardinality(PlacesOf(s, x))]
  BY Zenon DEF Bagged, BagOfRows, PlacesOf
<1>2. DOMAIN rows = 1 .. Len(rows) /\ \A i \in DOMAIN rows : rows[i] \in Row(tb.columns)
  OBVIOUS
<1>3. \A q, r \in Row(tb.columns) : H(q) = H(r) => q = r
  BY NamedApart
<1> HIDE DEF H
<1>4. Range(s) = {H(r) : r \in Range(rows)}
  <2>1. ASSUME NEW x \in Range(s) PROVE x \in {H(r) : r \in Range(rows)}
    BY <2>1 DEF Range
  <2>2. ASSUME NEW r \in Range(rows) PROVE H(r) \in Range(s)
    <3>1. PICK i \in DOMAIN rows : rows[i] = r
      BY <2>2 DEF Range
    <3>2. i \in DOMAIN s /\ s[i] = H(r)
      BY <3>1
    <3> HIDE DEF s
    <3> QED BY <3>2 DEF Range
  <2> QED BY <2>1, <2>2
<1>5. ASSUME NEW r \in Range(rows) PROVE PlacesOf(s, H(r)) = PlacesOf(rows, r)
  <2>1. r \in Row(tb.columns)
    BY <1>2, <1>5 DEF Range
  <2>2. \A i \in DOMAIN rows : s[i] = H(r) <=> rows[i] = r
    BY <1>2, <1>3, <2>1
  <2>3. DOMAIN s = DOMAIN rows
    OBVIOUS
  <2> HIDE DEF s
  <2> QED BY <2>2, <2>3 DEF PlacesOf
<1> HIDE DEF s
<1>6. /\ DOMAIN Bagged(tb) = Range(s)
      /\ \A x \in Range(s) : Bagged(tb)[x] = Cardinality(PlacesOf(s, x))
  BY <1>1
<1>7. \A r \in Range(rows) : Bagged(tb)[H(r)] = Cardinality(PlacesOf(rows, r))
  BY <1>4, <1>5, <1>6
<1>8. Bagged(tb) = [x \in DOMAIN Bagged(tb) |-> Bagged(tb)[x]]
  BY <1>1
<1> QED BY <1>4, <1>6, <1>7, <1>8 DEF H

\* A condition says the same of a row and of its named form (sql_executor.c:127).
LEMMA ConditionNamed ==
    ASSUME NEW tb, tb.columns \in Seq(Words), NEW r \in Row(tb.columns)
    PROVE  matches_where(tb, r) <=>
              \/ stmt.where_clause = NULL
              \/ /\ WhereCondition.column \in DOMAIN RowNamed(tb, r)
                 /\ RowNamed(tb, r)[WhereCondition.column] = WhereCondition.value
<1> DEFINE c == WhereCondition.column  v == WhereCondition.value
<1>1. matches_where(tb, r) <=>
         stmt.where_clause = NULL \/ (ColumnNamed(tb, c) # 0 /\ r[ColumnNamed(tb, c)] = v)
  BY Zenon DEF matches_where
<1>2. ColumnNamed(tb, c) # 0 <=> c \in Range(tb.columns)
  BY ColumnIs
<1>3. DOMAIN RowNamed(tb, r) = Range(tb.columns)
      /\ (c \in Range(tb.columns) => RowNamed(tb, r)[c] = r[ColumnNamed(tb, c)])
  BY DEF RowNamed
<1> HIDE DEF c, v
<1> QED BY <1>1, <1>2, <1>3 DEF c, v

\* Other rows in the target are other contents of it, and of no other table.
LEMMA ContentsReplaced ==
    ASSUME EngineInv, Found, NEW rows \in Seq(Row(Target.columns)), Replace(rows), plain' => plain
    PROVE  /\ stmt.table \in DOMAIN Contents /\ Contents[stmt.table] = Bagged(Target)
           /\ Contents' = [Contents EXCEPT ![stmt.table] = Bagged([Target EXCEPT !.rows = rows])]
<1> DEFINE w == TableNamed(stmt.table)  ub == [Target EXCEPT !.rows = rows]  n == Len(tables)
           C == Contained(tables)  D == Contained(tables')
<1>1. /\ w \in 1 .. n /\ Target = tables[w] /\ Target.name = stmt.table
  BY TargetIs DEF EngineInv
<1>2. /\ tables' \in Seq(Table) /\ Len(tables') = n
      /\ \A i \in 1 .. n : /\ tables'[i].name = tables[i].name
                           /\ tables'[i] = IF i = w THEN ub ELSE tables[i]
  BY ReplaceIs
<1>3. NamesApart /\ NamesApart' /\ tables \in Seq(Table)
  BY ReplaceKeeps DEF EngineInv
<1> HIDE DEF w, ub, n
<1>4. /\ DOMAIN C = {tables[i].name : i \in 1 .. n}
      /\ \A i \in 1 .. n : C[tables[i].name] = Bagged(tables[i])
  <2>1. \A i, j \in 1 .. Len(tables) : tables[i].name = tables[j].name => i = j
    BY <1>3 DEF NamesApart
  <2> QED BY <1>3, <2>1, ContainedIs DEF n
<1>5. /\ DOMAIN D = {tables'[i].name : i \in 1 .. n}
      /\ \A i \in 1 .. n : D[tables'[i].name] = Bagged(tables'[i])
  <2>1. \A i, j \in 1 .. Len(tables') : tables'[i].name = tables'[j].name => i = j
    BY <1>3 DEF NamesApart
  <2> QED BY <1>2, <2>1, ContainedIs
<1>6. C = [m \in DOMAIN C |-> C[m]] /\ D = [m \in DOMAIN D |-> D[m]]
  BY DEF Contained
<1> HIDE DEF C, D
<1>7. DOMAIN D = DOMAIN C
  BY <1>2, <1>4, <1>5
<1>8. stmt.table \in DOMAIN C /\ C[stmt.table] = Bagged(Target)
  BY <1>1, <1>4
<1>9. ASSUME NEW m \in DOMAIN C
      PROVE  D[m] = IF m = stmt.table THEN Bagged(ub) ELSE C[m]
  <2>1. PICK i \in 1 .. n : tables[i].name = m
    BY <1>4, <1>9
  <2>2. D[m] = Bagged(tables'[i]) /\ C[m] = Bagged(tables[i])
    BY <1>2, <1>4, <1>5, <2>1
  <2>3. m = stmt.table <=> i = w
    BY <1>1, <1>3, <2>1 DEF NamesApart, n
  <2> QED BY <1>2, <2>2, <2>3
<1>10. D = [C EXCEPT ![stmt.table] = Bagged(ub)]
  BY <1>6, <1>7, <1>8, <1>9
<1> QED BY <1>8, <1>10, ContentsNow, ContentsThen DEF C, D, ub

\* CREATE makes a relation that was not there, without rows.
LEMMA CreateRelates ==
    ASSUME EngineInv, Create
    PROVE  R!Create(stmt.table)
<1> DEFINE new == [name |-> stmt.table, columns |-> FittingColumns, rows |-> <<>>]
           t == stmt.table  n == Len(tables)  C == Contained(tables)  D == Contained(tables')
<1>1. t # NULL /\ ~Found /\ tables' = Append(tables, new)
  BY DEF Create, Creatable
<1>2. tables \in Seq(Table) /\ n \in Nat /\ NamesApart /\ EngineInv'
  BY CreateKeeps DEF EngineInv
<1>3. tables' \in Seq(Table) /\ NamesApart'
  BY <1>2 DEF EngineInv
<1>4. /\ \A i \in 1 .. n : tables'[i] = tables[i]
      /\ tables'[n + 1] = new /\ Len(tables') = n + 1
  BY <1>1, <1>2
<1>5. \A i \in 1 .. n : tables[i].name # t
  BY <1>1, <1>2, TableNamedIs DEF Found
<1>6. new.name = t /\ Bagged(new) = EmptyBag
  <2>1. Bagged(new) = BagOfRows([i \in {} |-> RowNamed(new, new.rows[i])])
    BY DEF Bagged
  <2>2. BagOfRows([i \in {} |-> RowNamed(new, new.rows[i])]) = EmptyBag
    BY DEF BagOfRows, Range, EmptyBag, SetToBag
  <2> QED BY <2>1, <2>2
<1> HIDE DEF new, n, t
<1>7. /\ DOMAIN C = {tables[i].name : i \in 1 .. n}
      /\ \A i \in 1 .. n : C[tables[i].name] = Bagged(tables[i])
  <2>1. \A i, j \in 1 .. Len(tables) : tables[i].name = tables[j].name => i = j
    BY <1>2 DEF NamesApart
  <2> QED BY <1>2, <2>1, ContainedIs DEF n
<1>8. /\ DOMAIN D = {tables'[i].name : i \in 1 .. n + 1}
      /\ \A i \in 1 .. n + 1 : D[tables'[i].name] = Bagged(tables'[i])
  <2>1. \A i, j \in 1 .. Len(tables') : tables'[i].name = tables'[j].name => i = j
    BY <1>3 DEF NamesApart
  <2> QED BY <1>3, <1>4, <2>1, ContainedIs
<1>9. D = [m \in DOMAIN D |-> D[m]]
  BY DEF Contained
<1> HIDE DEF C, D
<1>10. t \notin DOMAIN C
  BY <1>5, <1>7
<1>11. DOMAIN D = DOMAIN C \cup {t}
  <2>1. \A i \in 1 .. n + 1 : i \in 1 .. n \/ i = n + 1
    BY <1>2
  <2>2. \A i \in 1 .. n : i \in 1 .. n + 1
    BY <1>2
  <2>3. n + 1 \in 1 .. n + 1
    BY <1>2
  <2>4. ASSUME NEW m \in DOMAIN D PROVE m \in DOMAIN C \cup {t}
    BY <1>4, <1>6, <1>7, <1>8, <2>1, <2>4
  <2>5. ASSUME NEW m \in DOMAIN C \cup {t} PROVE m \in DOMAIN D
    BY <1>4, <1>6, <1>7, <1>8, <2>2, <2>3, <2>5
  <2> QED BY <2>4, <2>5
<1>12. D[t] = EmptyBag
  <2>1. n + 1 \in 1 .. n + 1
    BY <1>2
  <2> QED BY <1>4, <1>6, <1>8, <2>1
<1>13. ASSUME NEW m \in DOMAIN C PROVE D[m] = C[m]
  <2>1. PICK i \in 1 .. n : tables[i].name = m
    BY <1>7, <1>13
  <2>2. i \in 1 .. n + 1
    BY <1>2
  <2> QED BY <1>4, <1>7, <1>8, <2>1, <2>2
<1>14. D = [u \in DOMAIN C \cup {t} |-> IF u = t THEN EmptyBag ELSE C[u]]
  BY <1>9, <1>10, <1>11, <1>12, <1>13
<1> QED BY <1>10, <1>14, ContentsNow, ContentsThen
        DEF C, D, t, R!Create, R!EmptyBag, EmptyBag, R!SetToBag, SetToBag

\* INSERT adds the row it describes.
LEMMA InsertRelates ==
    ASSUME EngineInv, Insert, plain'
    PROVE  R!Insert(stmt.table, NamedRow)
<1> DEFINE tb == Target  v == stmt.values  rows == tb.rows  more == Append(rows, v)
           ub == [tb EXCEPT !.rows = more]  cs == tb.columns  S == {RowNamed(tb, r) : r \in Row(cs)}
           s == [i \in DOMAIN rows |-> RowNamed(tb, rows[i])]
           u == [i \in DOMAIN more |-> RowNamed(ub, more[i])]
<1>1. /\ Found /\ Insertable(tb) /\ Replace(more) /\ plain /\ stmt.columns = cs
  BY Zenon DEF Insert
<1>2. v \in Row(cs) /\ more \in Seq(Row(cs)) /\ rows \in Seq(Row(cs))
  BY <1>1, RowAdded, RowsOfTarget
<1>3. ub.columns = cs /\ ub.rows = more
  BY <1>1, <1>2, TableIs, TargetIs DEF EngineInv
<1>4. NamedRow = RowNamed(tb, v)
  BY <1>1, DescribedIs
<1>5. \A r : RowNamed(ub, r) = RowNamed(tb, r)
  <2> HIDE DEF ub, tb, more
  <2> QED BY <1>3, SameNames DEF cs
<1>6. Bagged(tb) = BagOfRows(s) /\ Bagged(ub) = BagOfRows(u)
  <2> HIDE DEF ub, tb, more
  <2> QED BY <1>3, Zenon DEF Bagged, rows
<1>7. /\ stmt.table \in DOMAIN Contents /\ Contents[stmt.table] = Bagged(tb)
      /\ Contents' = [Contents EXCEPT ![stmt.table] = Bagged(ub)]
  BY <1>1, <1>2, ContentsReplaced
<1> HIDE DEF tb, ub, v, more, rows, cs
<1>8. s \in Seq(S) /\ RowNamed(tb, v) \in S /\ Len(s) = Len(rows) /\ Len(rows) \in Nat
  <2>1. DOMAIN rows = 1 .. Len(rows) /\ Len(rows) \in Nat
    BY <1>2
  <2>2. ASSUME NEW i \in 1 .. Len(rows) PROVE RowNamed(tb, rows[i]) \in S
    BY <1>2
  <2> HIDE DEF S
  <2>3. s \in [1 .. Len(rows) -> S]
    BY <2>1, <2>2
  <2>4. RowNamed(tb, v) \in S
    BY <1>2 DEF S
  <2> HIDE DEF s
  <2> QED BY <2>1, <2>3, <2>4
<1>9. /\ DOMAIN more = 1 .. Len(rows) + 1 /\ more[Len(rows) + 1] = v
      /\ \A i \in 1 .. Len(rows) : more[i] = rows[i]
  BY <1>2, AppendProperties DEF more
<1>10. u = Append(s, RowNamed(tb, v))
  <2>1. Append(s, RowNamed(tb, v)) \in Seq(S)
        /\ Len(Append(s, RowNamed(tb, v))) = Len(rows) + 1
        /\ Append(s, RowNamed(tb, v))[Len(rows) + 1] = RowNamed(tb, v)
        /\ \A i \in 1 .. Len(rows) : Append(s, RowNamed(tb, v))[i] = s[i]
    <3> HIDE DEF s, S
    <3> QED BY <1>8, AppendProperties
  <2> DEFINE a == Append(s, RowNamed(tb, v))
  <2>2. \A i \in 1 .. Len(rows) : s[i] = RowNamed(tb, rows[i])
    BY <1>2
  <2>3. /\ DOMAIN u = 1 .. Len(rows) + 1
        /\ \A i \in 1 .. Len(rows) + 1 : u[i] = RowNamed(tb, more[i])
    BY <1>5, <1>9
  <2>4. DOMAIN a = 1 .. Len(rows) + 1 /\ a = [i \in DOMAIN a |-> a[i]]
    BY <2>1
  <2>5. u = [i \in DOMAIN u |-> u[i]]
    OBVIOUS
  <2> HIDE DEF a, u, s, S
  <2>6. \A i \in 1 .. Len(rows) + 1 : a[i] = u[i]
    <3>1. \A i \in 1 .. Len(rows) + 1 : i \in 1 .. Len(rows) \/ i = Len(rows) + 1
      BY <1>8
    <3> QED BY <1>8, <1>9, <2>1, <2>2, <2>3, <3>1 DEF a
  <2> QED BY <2>3, <2>4, <2>5, <2>6 DEF a
<1> HIDE DEF s, u, S
<1>11. Bagged(ub) = Bagged(tb) (+) SetToBag({NamedRow})
  BY <1>4, <1>6, <1>8, <1>10, BagAdds
<1> QED BY <1>7, <1>11 DEF R!Insert, R!SetToBag, SetToBag, R!(+), (+)

\* DELETE removes the rows its condition holds of.
LEMMA DeleteRelates ==
    ASSUME EngineInv, Delete, plain'
    PROVE  LET c == WhereCondition IN
           R!Delete(stmt.table, LAMBDA r : \/ stmt.where_clause = NULL
                                           \/ c.column \in DOMAIN r /\ r[c.column] = c.value)
<1> DEFINE tb == Target  rows == tb.rows  d == AfterDelete(tb)  cs == tb.columns
           ub == [tb EXCEPT !.rows = d]
           Holds(r) == \/ stmt.where_clause = NULL
                       \/ /\ WhereCondition.column \in DOMAIN r
                          /\ r[WhereCondition.column] = WhereCondition.value
           M(r) == matches_where(tb, r)
<1>1. Found /\ Replace(d) /\ plain' = plain
  BY DEF Delete
<1>2. d \in Seq(Row(cs)) /\ rows \in Seq(Row(cs)) /\ cs \in Seq(Words)
  BY <1>1, RowsLeft, RowsOfTarget
<1>3. IsInjective(cs)
  <2>1. TableNamed(stmt.table) \in 1 .. Len(tables) /\ tb = tables[TableNamed(stmt.table)]
    BY <1>1, TargetIs DEF EngineInv
  <2> QED BY <1>1, <2>1 DEF EngineInv, NamesApart
<1>4. ub.columns = cs /\ ub.rows = d
  BY <1>1, <1>2, TableIs, TargetIs DEF EngineInv
<1>5. \A r : RowNamed(ub, r) = RowNamed(tb, r)
  <2> HIDE DEF ub, tb, d
  <2> QED BY <1>4, SameNames DEF cs
<1>6. /\ stmt.table \in DOMAIN Contents /\ Contents[stmt.table] = Bagged(tb)
      /\ Contents' = [Contents EXCEPT ![stmt.table] = Bagged(ub)]
  BY <1>1, <1>2, ContentsReplaced
<1>7. /\ Range(d) = {r \in Range(rows) : ~M(r)}
      /\ \A r \in Range(d) : Cardinality(PlacesOf(d, r)) = Cardinality(PlacesOf(rows, r))
  <2>1. BagOfRows(d) = Others(tb)
    BY <1>1, DeleteLeavesOthers
  <2>2. BagOfRows(d) = [r \in Range(d) |-> Cardinality(PlacesOf(d, r))]
        /\ BagOfRows(rows) = [r \in Range(rows) |-> Cardinality(PlacesOf(rows, r))]
    BY Zenon DEF BagOfRows, PlacesOf
  <2>3. Others(tb) = [r \in {x \in Range(rows) : ~M(x)} |-> BagOfRows(rows)[r]]
    BY Zenon DEF Others
  <2> HIDE DEF d, rows, tb, M
  <2> QED BY <2>1, <2>2, <2>3
<1>8. \A r \in Row(cs) : M(r) <=> Holds(RowNamed(tb, r))
  BY <1>2, ConditionNamed
<1>9. /\ DOMAIN Bagged(tb) = {RowNamed(tb, r) : r \in Range(rows)}
      /\ \A r \in Range(rows) : Bagged(tb)[RowNamed(tb, r)] = Cardinality(PlacesOf(rows, r))
  BY <1>2, <1>3, BaggedIs
<1>10. /\ DOMAIN Bagged(ub) = {RowNamed(ub, r) : r \in Range(d)}
       /\ \A r \in Range(d) : Bagged(ub)[RowNamed(ub, r)] = Cardinality(PlacesOf(d, r))
       /\ Bagged(ub) = [x \in DOMAIN Bagged(ub) |-> Bagged(ub)[x]]
  BY <1>2, <1>3, <1>4, BaggedIs
<1>11. Range(rows) \subseteq Row(cs)
  BY <1>2 DEF Range
<1> HIDE DEF tb, rows, d, cs, ub, Holds, M
<1>12. DOMAIN Bagged(ub) = {x \in DOMAIN Bagged(tb) : ~Holds(x)}
  BY <1>5, <1>7, <1>8, <1>9, <1>10, <1>11
<1>13. ASSUME NEW x \in DOMAIN Bagged(ub) PROVE Bagged(ub)[x] = Bagged(tb)[x]
  BY <1>5, <1>7, <1>9, <1>10, <1>13
<1>14. Bagged(ub) = [x \in {y \in DOMAIN Contents[stmt.table] : ~Holds(y)}
                        |-> Contents[stmt.table][x]]
  BY <1>6, <1>10, <1>12, <1>13
<1>15. Contents' = [Contents EXCEPT ![stmt.table] =
                       [x \in {y \in DOMAIN Contents[stmt.table] : ~Holds(y)}
                           |-> Contents[stmt.table][x]]]
  BY <1>6, <1>14
<1> QED BY <1>6, <1>15, Zenon DEF Holds, R!Delete

\* While statements are plain, the tables are relations: what a statement does to them is
\* what a database promises of it, and nothing else changes them (sql_executor.c, table.c).
THEOREM TablesAreRelations == EngineSpec => RelationsWhilePlain
<1>1. ASSUME UNCHANGED tables PROVE UNCHANGED Contents
  BY <1>1, ContentsNow, ContentsThen
<1>2. ASSUME EngineInv, [EngineNext]_vars, plain'
      PROVE  UNCHANGED vars \/ Create \/ Insert \/ Delete \/ UNCHANGED tables
  <2>1. ~Update
    BY <1>2 DEF Update
  <2>2. CASE Parse
    BY <2>2 DEF Parse
  <2>3. CASE Execute
    BY <2>1, <2>3 DEF Execute, CreateRefused, NoTable, Select, InsertFails
  <2>4. CASE \E t \in Texts : Request(t)
    BY <2>4 DEF Request
  <2> QED BY <1>2, <2>2, <2>3, <2>4 DEF EngineNext
<1>3. ASSUME EngineInv, [EngineNext]_vars, plain'
      PROVE  UNCHANGED vars \/ Create \/ Insert \/ Delete \/ UNCHANGED Contents
  BY <1>1, <1>2, <1>3
<1> DEFINE Erased ==
             LET c == WhereCondition IN
             R!Delete(stmt.table, LAMBDA r : \/ stmt.where_clause = NULL
                                             \/ c.column \in DOMAIN r /\ r[c.column] = c.value)
<1>4. ASSUME EngineInv, plain', Delete PROVE Erased
  BY <1>4, DeleteRelates
<1>5. RelationsWhilePlain <=>
        [][plain' => /\ Create => R!Create(stmt.table)
                     /\ Insert => R!Insert(stmt.table, NamedRow)
                     /\ Delete => Erased
                     /\ Create \/ Insert \/ Delete \/ UNCHANGED Contents]_vars
  BY DEF RelationsWhilePlain
<1> HIDE DEF Erased
<1>6. ASSUME EngineInv, [EngineNext]_vars
      PROVE  [plain' => /\ Create => R!Create(stmt.table)
                        /\ Insert => R!Insert(stmt.table, NamedRow)
                        /\ Delete => Erased
                        /\ Create \/ Insert \/ Delete \/ UNCHANGED Contents]_vars
  BY <1>3, <1>4, <1>6, CreateRelates, InsertRelates
<1> QED BY <1>5, <1>6, EngineAlwaysSound, PTL DEF EngineSpec
=============================================================================

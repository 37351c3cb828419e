----------------------------- MODULE SqlParser -----------------------------
(***************************************************************************)
(* The SQL parser (c-server/include/sql_parser.c): a cursor that moves     *)
(* through the text, token by token, with one loop for each kind of list.  *)
(*                                                                         *)
(*  - A text is a sequence of lexemes: words, and the delimiters COMMA     *)
(*    "(" ")" and SPACE.  Words are apart without saying so; SPACE is      *)
(*    written where it makes a difference, after a comma and before the    *)
(*    first word.  A SEMICOLON apart from the word before it is a word of  *)
(*    its own, as it is for extract_token.  No keyword is a part of        *)
(*    another word.                                                        *)
(*  - NUL ends the text.  What lies behind it is whatever the buffer held  *)
(*    before: one of Leftovers.                                            *)
(*  - Every turn of a loop is a step.  A turn that moves nothing is a step *)
(*    that changes nothing: the parser then turns for ever.                *)
(***************************************************************************)
EXTENDS Integers, SequencesExt

CONSTANTS Texts,      \* the queries: sequences of lexemes
          Leftovers,  \* what can follow the terminator in memory
          NULL,
          Names, Lists, Conditions  \* the statements checked in their written form

NUL       == "NUL"
SPACE     == "SPACE"
COMMA     == "COMMA"
SEMICOLON == "SEMICOLON"

Kinds == {"SELECT", "INSERT", "UPDATE", "DELETE", "CREATE"}

ASSUME TextsAssumption ==
    \A t \in Texts \cup Leftovers : t \in Seq(Range(t)) /\ NUL \notin Range(t)

VARIABLES text, pos,  \* the text and the cursor
          at,         \* where in sql_parse: idle, a head, a loop, done
          stmt        \* the statement built so far

parser_vars == <<text, pos, at, stmt>>

Heads == {"INSERT", "VALUES", "UPDATE", "DELETE", "CREATE"}
Loops == {"select", "columns", "values", "set", "create"}
NoStatement == [type |-> NULL, table |-> NULL, columns |-> <<>>,
                values |-> <<>>, where_clause |-> NULL]
-----------------------------------------------------------------------------
(* Tokens. *)

Delimiters == {COMMA, "(", ")", SPACE}

At(p) == IF p <= Len(text) THEN text[p] ELSE NUL

\* skip_spaces
Skip(p) == CHOOSE q \in p .. p + Len(text) :
               At(q) # SPACE /\ \A r \in p .. q - 1 : At(r) = SPACE

\* The next token and the cursor behind it: NULL at the end of the text, and an
\* empty token, with the cursor where it was, at a comma or a parenthesis.
extract_token(p) ==
    LET q == Skip(p) IN
    [token |-> CASE At(q) = NUL -> NULL
                 [] At(q) \in Delimiters -> ""
                 [] OTHER -> At(q),
     next  |-> IF At(q) \in Delimiters \cup {NUL} THEN q ELSE q + 1]

\* What follows the first WHERE of the text, up to a semicolon.
extract_where ==
    LET w    == SelectInSeq(text, LAMBDA l : l = "WHERE")
        rest == SubSeq(text, w + 1, Len(text))
        end  == SelectInSeq(rest, LAMBDA l : l = SEMICOLON)
    IN  IF w = 0 THEN NULL
        ELSE IF end = 0 THEN rest ELSE SubSeq(rest, 1, end - 1)

\* identify_type, which skips leading spaces.
identify_type(t) ==
    LET first == IF t # <<>> /\ t[1] = SPACE THEN 2 ELSE 1
    IN  IF first <= Len(t) /\ t[first] \in Kinds THEN t[first] ELSE "UNKNOWN"
-----------------------------------------------------------------------------
Init ==
    /\ text = <<>>
    /\ pos = 1
    /\ at = "idle"
    /\ stmt = NoStatement

\* sql_parse begins.  The cursor moves by the six letters of the keyword from
\* the start of the text, and over the spaces there: a leading space leaves it
\* on the rest of the keyword.
sql_parse(t) ==
    /\ at = "idle"
    /\ text' = t
    /\ pos' = Skip(2)'
    /\ at' = CASE identify_type(t) = "UNKNOWN" -> "done"
               [] identify_type(t) = "SELECT"  -> "select"
               [] OTHER -> identify_type(t)
    /\ stmt' = [NoStatement EXCEPT !.type = identify_type(t)]

\* A token behind the keyword, if the keyword is there: the table's name.
TableAfter(keyword) ==
    IF At(Skip(pos)) = keyword
    THEN extract_token(Skip(pos) + 1)
    ELSE [token |-> NULL, next |-> Skip(pos)]

InsertHead ==
    LET t == TableAfter("INTO")
        p == Skip(t.next)
    IN  /\ at = "INSERT"
        /\ stmt' = [stmt EXCEPT !.table = t.token]
        /\ IF At(p) = "(" THEN at' = "columns" /\ pos' = p + 1
                          ELSE at' = "VALUES" /\ pos' = p
        /\ UNCHANGED text

ValuesHead ==
    LET p == Skip(Skip(pos) + 1)
    IN  /\ at = "VALUES"
        /\ IF At(Skip(pos)) = "VALUES" /\ At(p) = "("
           THEN at' = "values" /\ pos' = p + 1
           ELSE at' = "done" /\ UNCHANGED pos
        /\ UNCHANGED <<text, stmt>>

UpdateHead ==
    LET t == extract_token(Skip(pos))
        p == Skip(t.next)
    IN  /\ at = "UPDATE"
        /\ IF At(p) = "SET"
           THEN /\ at' = "set"
                /\ pos' = Skip(p + 1)
                /\ stmt' = [stmt EXCEPT !.table = t.token]
           ELSE /\ at' = "done"
                /\ pos' = p
                /\ stmt' = [stmt EXCEPT !.table = t.token, !.where_clause = extract_where]
        /\ UNCHANGED text

DeleteHead ==
    /\ at = "DELETE"
    /\ at' = "done"
    /\ pos' = TableAfter("FROM").next
    /\ stmt' = [stmt EXCEPT !.table = TableAfter("FROM").token,
                            !.where_clause = extract_where]
    /\ UNCHANGED text

CreateHead ==
    LET t == TableAfter("TABLE")
        p == Skip(t.next)
    IN  /\ at = "CREATE"
        /\ stmt' = [stmt EXCEPT !.table = t.token]
        /\ IF At(p) = "(" THEN at' = "create" /\ pos' = p + 1
                          ELSE at' = "done" /\ pos' = p
        /\ UNCHANGED text
-----------------------------------------------------------------------------
(* The loops. *)

\* Variant of Stops: the values of UPDATE go on behind WHERE.
StopsBehindWhere(loop) == IF loop = "select" THEN {NUL, "FROM"} ELSE {NUL, ")", SEMICOLON}

\* Where each loop ends.
Stops(loop) == CASE loop = "select" -> {NUL, "FROM"}
                 [] loop = "set"    -> {NUL, "WHERE", SEMICOLON}
                 [] OTHER           -> {NUL, ")"}

\* Variant of PastComma: the comma between two items is not passed.
StayAtComma(p) == p

PastComma(p) == IF At(p) = COMMA THEN p + 1 ELSE p

\* Variant of Add: an empty token is an item, too.
AddEmpty(list, token) == IF token = NULL THEN list ELSE Append(list, token)

Add(list, token) == IF token \in {NULL, ""} THEN list ELSE Append(list, token)

\* One turn: a token is taken, if there is one, and the comma behind it passed.
Turn ==
    LET t == extract_token(pos)
    IN  /\ at \in Loops
        /\ At(pos) \notin Stops(at)
        /\ pos' = PastComma(Skip(t.next))
        /\ stmt' = IF at \in {"values", "set"}
                   THEN [stmt EXCEPT !.values = Add(@, t.token)]
                   ELSE [stmt EXCEPT !.columns = Add(@, t.token)]
        /\ UNCHANGED <<text, at>>

SelectEnds ==
    /\ at = "select"
    /\ At(pos) \in Stops(at)
    /\ at' = "done"
    /\ IF At(pos) = "FROM"
       THEN LET t == extract_token(pos + 1)
            IN  /\ pos' = t.next
                /\ stmt' = [stmt EXCEPT !.table = t.token, !.where_clause = extract_where]
       ELSE /\ stmt' = [stmt EXCEPT !.where_clause = extract_where]
            /\ UNCHANGED pos
    /\ UNCHANGED text

\* The closing parenthesis is passed whether it is there or not: where it is
\* not, the cursor passes the terminator.
ColumnsEnd ==
    /\ at = "columns"
    /\ At(pos) \in Stops(at)
    /\ at' = "VALUES"
    /\ pos' = pos + 1
    /\ IF At(pos) = NUL
       THEN \E rest \in Leftovers : text' = Append(text, NUL) \o rest
       ELSE UNCHANGED text
    /\ UNCHANGED stmt

\* Variant of ListEnds: every closing parenthesis is passed unseen.
ListEndsUnseen ==
    /\ at \in {"values", "create"}
    /\ At(pos) \in Stops(at)
    /\ at' = "done"
    /\ pos' = pos + 1
    /\ IF At(pos) = NUL
       THEN \E rest \in Leftovers : text' = Append(text, NUL) \o rest
       ELSE UNCHANGED text
    /\ UNCHANGED stmt

ListEnds ==
    /\ at \in {"values", "create"}
    /\ At(pos) \in Stops(at)
    /\ at' = "done"
    /\ UNCHANGED <<text, pos, stmt>>

SetEnds ==
    /\ at = "set"
    /\ At(pos) \in Stops(at)
    /\ at' = "done"
    /\ stmt' = [stmt EXCEPT !.where_clause = extract_where]
    /\ UNCHANGED <<text, pos>>

\* The next step of a parse that has begun.
ParseStep ==
    \/ InsertHead
    \/ ValuesHead
    \/ UpdateHead
    \/ DeleteHead
    \/ CreateHead
    \/ Turn
    \/ SelectEnds
    \/ ColumnsEnd
    \/ ListEnds
    \/ SetEnds

\* The caller is done with the statement.
sql_statement_free ==
    /\ at = "done"
    /\ text' = <<>>
    /\ pos' = 1
    /\ at' = "idle"
    /\ stmt' = NoStatement

Next == ParseStep \/ sql_statement_free \/ \E t \in Texts : sql_parse(t)

\* sql_parse is a loop of one thread: it goes on as long as it can move.
Spec == Init /\ [][Next]_parser_vars /\ WF_parser_vars(ParseStep)
-----------------------------------------------------------------------------
(* Correctness *)

Words == (UNION {Range(t) : t \in Texts \cup Leftovers}) \ Delimiters

TypeOK ==
    /\ \A i \in DOMAIN text : text[i] \in Words \cup Delimiters \cup {NUL}
    /\ pos \in 1 .. Len(text) + 2
    /\ at \in {"idle", "done"} \cup Heads \cup Loops
    /\ stmt.type \in Kinds \cup {"UNKNOWN", NULL}
    /\ stmt.table \in Words \cup {"", NULL}
    /\ stmt.columns \in Seq(Words)
    /\ stmt.values \in Seq(Words)
    /\ stmt.where_clause = NULL \/ stmt.where_clause \in Seq(Words \cup Delimiters)

\* What no name and no item is: a delimiter, a terminator, a word that ends a list, and the
\* tokens that are not kept.
Reserved == Delimiters \cup {NUL, SEMICOLON, "FROM", "WHERE", "", NULL}

ASSUME FormsAssumption ==
    /\ Names \cap Reserved = {}
    /\ \A l \in Lists : l # <<>> /\ l \in Seq(Range(l) \ Reserved)
    /\ \A c \in Conditions : c = NULL \/ c \in Seq(Range(c) \ {NUL, SEMICOLON})

\* A list as it is written: its items with a comma and a space between them.
Listed(items) ==
    [i \in 1 .. 3 * Len(items) - 2 |->
        CASE i % 3 = 1 -> items[(i + 2) \div 3] [] i % 3 = 2 -> COMMA [] OTHER -> SPACE]

Enclosed(items)   == <<"(">> \o Listed(items) \o <<")">>
Condition(c)      == IF c = NULL THEN <<>> ELSE <<"WHERE">> \o c
Written(kind, t, cs, vs, c) ==
    [text |-> CASE kind = "SELECT" -> <<kind>> \o Listed(cs) \o <<"FROM", t>> \o Condition(c)
                [] kind = "INSERT" -> <<kind, "INTO", t>> \o Enclosed(cs) \o <<"VALUES">> \o Enclosed(vs)
                [] kind = "UPDATE" -> <<kind, t, "SET">> \o Listed(vs) \o Condition(c)
                [] kind = "DELETE" -> <<kind, "FROM", t>> \o Condition(c)
                [] kind = "CREATE" -> <<kind, "TABLE", t>> \o Enclosed(cs),
     stmt |-> [type |-> kind, table |-> t,
               columns |-> IF kind \in {"SELECT", "INSERT", "CREATE"} THEN cs ELSE <<>>,
               values  |-> IF kind \in {"INSERT", "UPDATE"} THEN vs ELSE <<>>,
               where_clause |-> IF kind \in {"SELECT", "UPDATE", "DELETE"} THEN c ELSE NULL]]

\* The statements of the subset over the given names, lists and conditions.
Forms(names, lists, conditions) ==
    {Written(kind, t, cs, vs, c) :
        kind \in Kinds, t \in names, cs \in lists, vs \in lists, c \in conditions}

\* A statement in the written form of the comments (113, 141, 188, 214, 227, the
\* columns of CREATE without types) is parsed into what is written there.
ParsedAsWritten ==
    at = "done" => \A f \in Forms(Names, Lists, Conditions) : text = f.text => stmt = f.stmt

\* Only an INSERT whose column list is not closed is read behind its end
\* (162: the closing parenthesis is passed unseen).
ReadsBehindUnclosedOnly ==
    /\ TypeOK
    /\ \A n \in DOMAIN text :
          text[n] = NUL => /\ stmt.type = "INSERT"
                           /\ \E i \in 1 .. n - 1 : /\ text[i] = "("
                                                    /\ \A j \in i .. n - 1 : text[j] # ")"

\* Whatever the text, sql_parse returns, unless it comes to a parenthesis where
\* a list has none: there extract_token never moves (48-50, 117, 152, 196, 238).
ReturnsUnlessParenthesis ==
    \/ []<>(at \in {"idle", "done"})
    \/ <>[](at \in Loops /\ At(Skip(pos)) \in {"(", ")"})
-----------------------------------------------------------------------------
(* A statement of sql_parser.h that the code refutes *)

\* sql_parser.h:40: sql_parse returns the statement parsed, or NULL.
SqlParseReturns == []<>(at \in {"idle", "done"})
=============================================================================

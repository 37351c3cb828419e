---------------------------- MODULE MCSqlParser ----------------------------
(***************************************************************************)
(* SqlParser for TLC: every short text after each keyword, and the written *)
(* form of every statement over two words.                                 *)
(***************************************************************************)
EXTENDS SqlParser

UpTo(n, S) == UNION {[1 .. m -> S] : m \in 0 .. n}
After(head, n, S) == {head \o tail : tail \in UpTo(n, S)}

WordLists  == UNION {[1 .. m -> {"a", "b"}] : m \in 1 .. 2}
Equalities == {NULL, <<"a", "=", "b">>}
AllForms   == {f.text : f \in Forms({"a"}, WordLists, Equalities)}

ShortTexts ==
    UNION { After(<<"SELECT">>, 4, {"a", "FROM", "WHERE", "(", COMMA, SPACE}),
            After(<<"INSERT", "INTO", "a">>, 5, {"a", "VALUES", "(", ")", COMMA}),
            After(<<"INSERT">>, 2, {"a", "INTO", "("}),
            After(<<"UPDATE", "a", "SET">>, 4, {"a", "WHERE", SEMICOLON, "(", COMMA, SPACE}),
            After(<<"UPDATE">>, 2, {"a", "SET", ")"}),
            After(<<"DELETE">>, 4, {"a", "FROM", "WHERE", SEMICOLON}),
            After(<<"CREATE", "TABLE">>, 4, {"a", "(", ")", COMMA, SPACE}),
            {<<>>, <<SPACE>>, <<"a">>} }

MCTexts == ShortTexts \cup AllForms \cup {<<SPACE>> \o t : t \in AllForms}

\* Zeros, the end of an earlier query, or one with an open parenthesis.
MCLeftovers == {<<>>, <<"VALUES", "(", "b", ")">>, <<"VALUES", "(", "(">>}
=============================================================================

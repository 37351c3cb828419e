---------------------------- MODULE MCSqlEngine ----------------------------
(***************************************************************************)
(* SqlEngine for TLC: two tables, two columns, two values, and statements  *)
(* of every kind, the well-formed and the others.                          *)
(***************************************************************************)
EXTENDS SqlEngine

Where(c, v) == <<"WHERE", c, "=", v>>

Creates == { <<"CREATE", "TABLE", "t">> \o Enclosed(<<"a", "b">>),
             <<"CREATE", "TABLE", "t", "(", "a", "INT", ")">>,
             <<"CREATE", "TABLE", "u">> \o Enclosed(<<"long", "a">>),
             <<"CREATE", "TABLE", "long">>, <<"CREATE">> }

InsertInto(t, cs, vs) == <<"INSERT", "INTO", t>> \o Enclosed(cs) \o <<"VALUES">> \o Enclosed(vs)
Inserts == {InsertInto("t", <<"a", "b">>, <<v, w>>) : v, w \in {"1", "2"}}
           \cup { InsertInto("t", <<"b", "a">>, <<"1", "2">>),
                  InsertInto("u", <<"a">>, <<"1">>),
                  InsertInto("u", <<"long", "a">>, <<"1", "2">>) }

Rest == { <<"SELECT", "a", "FROM", "t">> \o Where("a", "1"),
             <<"SELECT", "COUNT", "(", "a", ")", "FROM", "t">>,
             <<"UPDATE", "t", "SET", "b=2">> \o Where("a", "1"),
             <<"UPDATE", "t", "SET", "b", "=", "2">>,
             <<"DELETE", "FROM", "t">> \o Where("a", "1"),
             <<"DELETE", "FROM", "t", "WHERE", "b=2">>,
             <<"DELETE", "FROM", "t">>, <<"DELETE", "FROM", "u">>,
             <<"DROP", "t">> }

MCTexts == Creates \cup Inserts \cup Rest

MCEqualities == [e \in {"b=2"} |-> [column |-> "b", value |-> "2"]]
=============================================================================

----------------------------- MODULE SqlEngine -----------------------------
(***************************************************************************)
(* The SQL endpoint of the server (c-server/src/sql_api.c) with the parser *)
(* it calls, the tables of sql_manager.c and table.c, and the statements   *)
(* of sql_executor.c.  A request is parsed step by step (SqlParser), then  *)
(* executed and answered in one; the server does nothing else meanwhile.   *)
(*                                                                         *)
(*  - The endpoint makes every column TEXT: a row is a sequence of words.  *)
(*    Words fit their columns (255 bytes); a name in TooLong does not fit  *)
(*    where a name is kept.                                                *)
(*  - A condition is compared as a column, an equals sign and a value,     *)
(*    which may be one word ("a=1", one of Equalities); what follows is    *)
(*    not looked at.                                                       *)
(*  - Unset is a count of a result that was never written.                 *)
(*  - Allocations succeed.                                                 *)
(*  - plain is a ghost: so far the columns of a CREATE were distinct names *)
(*    that fit, an INSERT named all columns in the order of the table, and *)
(*    there was no UPDATE.                                                 *)
(***************************************************************************)
EXTENDS SqlParser

CONSTANTS TooLong,     \* names too long for a column (31 bytes) and a table (63)
          Equalities,  \* words "c=v", each with its column and value
          Unset,
          MaxRows      \* bound: no INSERT is sent to a table with so many rows

VARIABLES tables,      \* SQLManager.tables
          response,    \* the answer to the last request, NULL before it is given
          plain

vars == <<text, pos, at, stmt, tables, response, plain>>

\* The table of this name: its index, or 0 (sql_manager_get_table).
TableNamed(n) == SelectInSeq(tables, LAMBDA tb : tb.name = n)
Found         == stmt.table # NULL /\ TableNamed(stmt.table) # 0
Target        == tables[TableNamed(stmt.table)]
-----------------------------------------------------------------------------
(* Conditions, and the rows that satisfy them. *)

\* parse_where_condition: the column and the value, or nothing to compare.
WhereCondition ==
    LET w == stmt.where_clause IN
    IF w # <<>> /\ w[1] \in DOMAIN Equalities THEN Equalities[w[1]]
    ELSE IF Len(w) >= 3 /\ w[2] = "=" THEN [column |-> w[1], value |-> w[3]]
    ELSE [column |-> NULL, value |-> NULL]

ColumnNamed(tb, c) == SelectInSeq(tb.columns, LAMBDA d : d = c)

matches_where(tb, row) ==
    \/ stmt.where_clause = NULL
    \/ LET c == ColumnNamed(tb, WhereCondition.column)
       IN  c # 0 /\ row[c] = WhereCondition.value

MatchCount(tb) == Cardinality({i \in DOMAIN tb.rows : matches_where(tb, tb.rows[i])})
-----------------------------------------------------------------------------
(* The rows a statement leaves in its table. *)

\* The last row takes the place of the deleted one.
table_delete_row(rows, i) ==
    SubSeq([rows EXCEPT ![i] = rows[Len(rows)]], 1, Len(rows) - 1)

\* Variant of AfterDelete: the scan goes from the first row to the last.
AfterDeleteForward(tb) ==
    LET left[i \in 0 .. Len(tb.rows)] ==
          IF i = 0 THEN tb.rows
          ELSE LET rows == left[i - 1]
               IN  IF i <= Len(rows) /\ matches_where(tb, rows[i])
                   THEN table_delete_row(rows, i) ELSE rows
    IN  left[Len(tb.rows)]

\* The scan goes from the last row to the first; left[i] is what is left when
\* the rows behind the i-th have been looked at.
AfterDelete(tb) ==
    LET left[i \in 0 .. Len(tb.rows)] ==
          IF i = Len(tb.rows) THEN tb.rows
          ELSE LET rows == left[i + 1]
               IN  IF matches_where(tb, rows[i + 1])
                   THEN table_delete_row(rows, i + 1) ELSE rows
    IN  left[0]

\* The first of the values goes into the first column, whatever SET names.
Updates(tb) == stmt.values # <<>> /\ tb.columns # <<>>
AfterUpdate(tb) ==
    [i \in DOMAIN tb.rows |->
        IF Updates(tb) /\ matches_where(tb, tb.rows[i])
        THEN [tb.rows[i] EXCEPT ![1] = stmt.values[1]] ELSE tb.rows[i]]

\* Variant of Insertable: the columns of the table are not counted.
InsertableAnyWidth(tb) == Len(stmt.columns) = Len(stmt.values) /\ tb.columns # <<>>

\* The values become a row if there is one for every column of the table, the
\* first for the first, whatever names the statement lists.
Insertable(tb) ==
    /\ Len(stmt.columns) = Len(stmt.values)
    /\ Len(stmt.columns) = Len(tb.columns)
    /\ tb.columns # <<>>
-----------------------------------------------------------------------------
EngineInit ==
    /\ Init
    /\ tables = <<>>
    /\ response = NULL
    /\ plain = TRUE

\* A request comes in and its query is handed to the parser.
Request(t) ==
    /\ identify_type(t) = "INSERT" =>
           \A i \in DOMAIN tables : Len(tables[i].rows) < MaxRows
    /\ sql_parse(t)
    /\ response' = NULL
    /\ UNCHANGED <<tables, plain>>

Parse == ParseStep /\ UNCHANGED <<tables, response, plain>>

\* The end of handle_sql_execute: the answer is sent, the statement freed.
Answer(status, affected, selected) ==
    /\ sql_statement_free
    /\ response' = [status |-> status, affected_rows |-> affected, result_rows |-> selected]

Fits(c) == c \notin TooLong

\* Variant of Creatable: an existing table is not looked for.
CreatableAgain == stmt.table # NULL /\ Fits(stmt.table)

Creatable == stmt.table # NULL /\ Fits(stmt.table) /\ ~Found

\* Names that do not fit are left out of the columns without a word.
FittingColumns ==
    LET kept[i \in 0 .. Len(stmt.columns)] ==
          IF i = 0 THEN <<>>
          ELSE IF Fits(stmt.columns[i]) THEN Append(kept[i - 1], stmt.columns[i])
          ELSE kept[i - 1]
    IN  kept[Len(stmt.columns)]

Create ==
    /\ stmt.type = "CREATE"
    /\ Creatable
    /\ tables' = Append(tables, [name |-> stmt.table,
                                 columns |-> FittingColumns,
                                 rows |-> <<>>])
    /\ plain' = (plain /\ IsInjective(stmt.columns)
                       /\ \A i \in DOMAIN stmt.columns : Fits(stmt.columns[i]))
    /\ Answer(201, NULL, NULL)

CreateRefused ==
    /\ stmt.type = "CREATE"
    /\ ~Creatable
    /\ Answer(IF stmt.table = NULL THEN 400 ELSE IF Fits(stmt.table) THEN 409 ELSE 500,
              NULL, NULL)
    /\ UNCHANGED <<tables, plain>>

NoTable ==
    /\ stmt.type # "CREATE"
    /\ ~Found
    /\ Answer(IF stmt.table = NULL THEN 400 ELSE 404, NULL, NULL)
    /\ UNCHANGED <<tables, plain>>

Select ==
    /\ stmt.type = "SELECT"
    /\ Found
    /\ Answer(200, 0, MatchCount(Target))
    /\ UNCHANGED <<tables, plain>>

\* The rows of the table the statement names are replaced.
Replace(rows) == tables' = [tables EXCEPT ![TableNamed(stmt.table)].rows = rows]

Insert ==
    /\ stmt.type = "INSERT"
    /\ Found
    /\ Insertable(Target)
    /\ Replace(Append(Target.rows, stmt.values))
    /\ plain' = (plain /\ stmt.columns = Target.columns)
    /\ Answer(200, 1, 0)

\* The error leaves before the counts of the result are written.
InsertFails ==
    /\ stmt.type = "INSERT"
    /\ Found
    /\ ~Insertable(Target)
    /\ Answer(400, Unset, Unset)
    /\ UNCHANGED <<tables, plain>>

Update ==
    /\ stmt.type = "UPDATE"
    /\ Found
    /\ Replace(AfterUpdate(Target))
    /\ plain' = FALSE
    /\ Answer(200, IF Updates(Target) THEN MatchCount(Target) ELSE 0, 0)

Delete ==
    /\ stmt.type = "DELETE"
    /\ Found
    /\ Replace(AfterDelete(Target))
    /\ UNCHANGED plain
    /\ Answer(200, Len(Target.rows) - Len(AfterDelete(Target)), 0)

Execute ==
    \/ Create \/ CreateRefused \/ NoTable
    \/ Select \/ Insert \/ InsertFails \/ Update \/ Delete

EngineNext == Parse \/ Execute \/ \E t \in Texts : Request(t)

\* The server goes on with a request it has taken as long as it can move.
EngineSpec == EngineInit /\ [][EngineNext]_vars /\ WF_vars(Parse \/ Execute)
-----------------------------------------------------------------------------
(* Correctness *)

EngineTypeOK ==
    /\ TypeOK
    /\ \A i \in DOMAIN tables :
         LET tb == tables[i]
         IN  /\ tb.name \in Words \cup {""}
             /\ tb.columns \in Seq(Words)
             /\ tb.rows \in Seq([DOMAIN tb.columns -> Words])
    /\ response \in [status : {200, 201, 400, 404, 409, 500},
                     affected_rows : Nat \cup {NULL, Unset},
                     result_rows : Nat \cup {NULL, Unset}] \cup {NULL}
    /\ plain \in BOOLEAN

\* How often each row is in the table.
BagOfRows(rows) ==
    [r \in Range(rows) |-> Cardinality({i \in DOMAIN rows : rows[i] = r})]
Others(tb) ==
    [r \in {r \in Range(tb.rows) : ~matches_where(tb, r)} |-> BagOfRows(tb.rows)[r]]

\* A DELETE removes every row its condition holds of and no other, although each
\* removal moves the last row into the hole while the scan is under way; an
\* UPDATE changes no other row; and both report how many rows these were
\* (sql_executor.c 333-364, 390-401; table.c 127-135).
OnlyMatchingRowsChange ==
    [][ /\ Delete =>
             LET rows == tables'[TableNamed(stmt.table)].rows IN
             /\ BagOfRows(rows) = Others(Target)
             /\ response'.affected_rows = MatchCount(Target)
        /\ Update =>
             LET rows == tables'[TableNamed(stmt.table)].rows IN
             /\ Len(rows) = Len(Target.rows)
             /\ Cardinality({i \in DOMAIN rows : rows[i] # Target.rows[i]})
                    <= response'.affected_rows
             /\ \A i \in DOMAIN rows :
                    ~matches_where(Target, Target.rows[i]) => rows[i] = Target.rows[i]
      ]_vars

\* The database a client sees: rows with a value for each column name.
Contents ==
    [n \in {tables[i].name : i \in DOMAIN tables} |->
        LET tb   == tables[TableNamed(n)]
            Row(r) == [c \in Range(tb.columns) |-> r[ColumnNamed(tb, c)]]
            rows == [i \in DOMAIN tb.rows |-> Row(tb.rows[i])]
        IN  BagOfRows(rows)]

\* The row an INSERT describes, by the names of its columns.
NamedRow == [c \in Range(stmt.columns) |->
                stmt.values[SelectInSeq(stmt.columns, LAMBDA d : d = c)]]

\* For a client that writes plain statements the tables are relations: a CREATE
\* makes one that was not there, an INSERT adds the row it describes, a DELETE
\* removes the rows its condition holds of, and nothing else, no failed
\* statement and no step of the parser, changes anything.
R == INSTANCE Relations WITH db <- Contents
RelationsWhilePlain ==
    [][plain' =>
         /\ Create => R!Create(stmt.table)
         /\ Insert => R!Insert(stmt.table, NamedRow)
         /\ Delete => LET c == WhereCondition IN
                      R!Delete(stmt.table,
                               LAMBDA r : \/ stmt.where_clause = NULL
                                          \/ c.column \in DOMAIN r /\ r[c.column] = c.value)
         /\ Create \/ Insert \/ Delete \/ UNCHANGED Contents]_vars

\* Every request is answered, unless the parser has come to a parenthesis where
\* a list has none: then it is the last request the server ever takes.
AnsweredUnlessParenthesis ==
    \/ []<>(at = "idle")
    \/ <>[](at \in Loops /\ At(Skip(pos)) \in {"(", ")"})
-----------------------------------------------------------------------------
(* A comment that the code refutes *)

\* sql_parser.c:188: UPDATE table SET col1=val1: the column that is named gets
\* the value, in every row the condition holds of.
UpdateSetsNamedColumn ==
    [][Update /\ Len(stmt.values) = 1 /\ stmt.values[1] \in DOMAIN Equalities =>
         LET e    == Equalities[stmt.values[1]]
             c    == ColumnNamed(Target, e.column)
             rows == tables'[TableNamed(stmt.table)].rows
         IN  c # 0 => \A i \in DOMAIN rows :
                          matches_where(Target, Target.rows[i]) => rows[i][c] = e.value]_vars
=============================================================================

----------------------------- MODULE Relations -----------------------------
(***************************************************************************)
(* What a database promises: named tables, each a bag of rows; a row gives *)
(* every column of its table a value.                                      *)
(***************************************************************************)
EXTENDS Naturals, Bags

VARIABLE db      \* table name -> bag of rows; row: column name -> value

Init == db = [t \in {} |-> EmptyBag]

Create(t) ==
    /\ t \notin DOMAIN db
    /\ db' = [u \in DOMAIN db \cup {t} |-> IF u = t THEN EmptyBag ELSE db[u]]

Insert(t, row) == t \in DOMAIN db /\ db' = [db EXCEPT ![t] = @ (+) SetToBag({row})]

\* The rows of table t that satisfy the condition go, all of them.
Delete(t, Condition(_)) ==
    /\ t \in DOMAIN db
    /\ db' = [db EXCEPT ![t] =
                 [row \in {r \in DOMAIN @ : ~Condition(r)} |-> @[row]]]
=============================================================================

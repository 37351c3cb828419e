------------------------------ MODULE MCServer ------------------------------
(***************************************************************************)
(* Server for TLC: signatures that differ in their first byte, and a set   *)
(* of requests that leaves out what no handler tells apart.                *)
(***************************************************************************)
EXTENDS Server

CONSTANTS admin, ann, p1, p2, c1, c2

MCSignature == [n \in Names |-> [i \in 1 .. 32 |-> IF n = admin THEN i ELSE i + 32]]

MCAdmin == [name |-> admin, password |-> p1]
=============================================================================

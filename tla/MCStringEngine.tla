--------------------------- MODULE MCStringEngine ---------------------------
(***************************************************************************)
(* StringEngine for TLC: a small letter, its capital and a blank.          *)
(***************************************************************************)
EXTENDS StringEngine

CONSTANTS a, A, sp

Upper == (a :> A) @@ (A :> A) @@ (sp :> sp)
Lower == (a :> a) @@ (A :> a) @@ (sp :> sp)
=============================================================================

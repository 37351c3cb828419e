------------------------------ MODULE MCVector ------------------------------
(***************************************************************************)
(* Vector for TLC: two elements that can be swapped for each other.        *)
(***************************************************************************)
EXTENDS Vector

CONSTANTS x, y

Symmetry == Permutations(Elems)
=============================================================================

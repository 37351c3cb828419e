---------------------------- MODULE MCLinkedList ----------------------------
(***************************************************************************)
(* LinkedList for TLC: two lists that can be swapped for each other.       *)
(***************************************************************************)
EXTENDS LinkedList

CONSTANTS a, b, x, y

Symmetry == Permutations({a, b}) \cup Permutations({x, y})
=============================================================================

----------------------------- MODULE MCSnapshot -----------------------------
(***************************************************************************)
(* Snapshot for TLC: an object of every kind, one of them a string with a  *)
(* zero byte in it.                                                        *)
(***************************************************************************)
EXTENDS Snapshot

CONSTANTS x, y, ruined

MCRuined == [kind |-> "string", elems |-> <<ruined>>]

MCObjects == {[kind |-> "vector", elems |-> <<x, y>>],
              [kind |-> "list", elems |-> <<y, x>>],
              [kind |-> "string", elems |-> <<x, NUL>>],
              [kind |-> "map", elems |-> <<x>>]}
=============================================================================

------------------------------ MODULE MCRouting ------------------------------
(* An instance for TLC. *)
EXTENDS Routing, TLC

CONSTANTS a1, a2, c1, c2, c3

Alike == Permutations({a1, a2}) \cup Permutations({c1, c2, c3})
=============================================================================

----------------------------- MODULE MCPresence -----------------------------
(* Instances for TLC: a user with one or two tabs. *)
EXTENDS Presence
CONSTANTS u1, k1, k2
OneUser == [k \in Sockets |-> u1]
=============================================================================

---------------------------- MODULE MCAssignment ----------------------------
(* Instances of Assignment for TLC: two servers, one task slot on each unless said. *)
EXTENDS Assignment, TLC

CONSTANTS a1, a2, c1, c2, p1, p2, s1, s2

TwoServers == p1 :> s1 @@ p2 :> s2
OneServer == p1 :> s1 @@ p2 :> s1
Symmetric == Permutations({a1, a2}) \cup Permutations({c1, c2})
=============================================================================

----------------------------- MODULE MCMessages -----------------------------
(* An instance of Messages for TLC: a customer and two agents, each with one socket. *)
EXTENDS Messages, TLC

CONSTANTS m1, m2, cust, ann, bob, p1, p2

OneEach == m1 :> cust @@ m2 :> ann
TeamSides == cust :> "customer" @@ ann :> "staff" @@ bob :> "staff"
=============================================================================

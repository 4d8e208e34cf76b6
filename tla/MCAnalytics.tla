----------------------------- MODULE MCAnalytics -----------------------------
(* An instance for TLC: a day of 16 units is 8 slots, an hour one of them. *)
EXTENDS Analytics

AnyChange == {-2, 0, 2}
=============================================================================

----------------------------- MODULE MCPushQueue -----------------------------
(* An instance for TLC: one browser each; r3 is what the browser of r2 gets when  *)
(* it subscribes again.                                                           *)
EXTENDS PushQueue
CONSTANTS u1, u2, r1, r2, r3
Browser == [r \in Rows |-> IF r = r3 THEN r2 ELSE r]
\* r1 is a steady device whose push service works; the others do what they like.
Working == [r \in Rows |-> IF r = r1 THEN {"sent"} ELSE Outcomes]
Both == [r \in Rows |-> IF r = r3 THEN None ELSE u1]
=============================================================================

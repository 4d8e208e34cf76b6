------------------------------ MODULE MCTyping ------------------------------
(* An instance for TLC: one user has two tabs, another one. *)
EXTENDS Typing

CONSTANTS tab1, tab2, phone, u1, u2, v1

UserOf(s) == IF s = phone THEN u2 ELSE u1
=============================================================================

------------------------------- MODULE Receipts -------------------------------
(***************************************************************************)
(* What a conversation promises about its messages, without how: a message *)
(* is saved once, goes forward from sent to delivered to read, and is      *)
(* announced to the room once, after it was saved.  Messages implements    *)
(* this (Messages!KeepsReceipts).                                          *)
(***************************************************************************)
EXTENDS Integers

CONSTANT Msgs

VARIABLES
  status,   \* "none", "sent", "delivered" or "read"
  announced \* how often each message was announced

vars == <<status, announced>>

Init == status = [m \in Msgs |-> "none"] /\ announced = [m \in Msgs |-> 0]

Move(ms, st) == status' = [m \in Msgs |-> IF m \in ms THEN st ELSE status[m]] /\ UNCHANGED announced

Save(m) == status[m] = "none" /\ Move({m}, "sent")
Deliver(ms) == (\A m \in ms : status[m] = "sent") /\ Move(ms, "delivered")
Read(ms) == (\A m \in ms : status[m] \in {"sent", "delivered"}) /\ Move(ms, "read")

Announce(m) ==
  /\ status[m] # "none" /\ announced[m] = 0
  /\ announced' = [announced EXCEPT ![m] = 1]
  /\ UNCHANGED status

Next ==
  \/ \E m \in Msgs : Save(m) \/ Announce(m)
  \/ \E ms \in SUBSET Msgs : Deliver(ms) \/ Read(ms)

Spec == Init /\ [][Next]_vars
=============================================================================

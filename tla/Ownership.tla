------------------------------ MODULE Ownership ------------------------------
(***************************************************************************)
(* What the assignment promises, without how: a conversation is open or    *)
(* closed and has one agent or none, and whoever has it keeps it until a   *)
(* hand-over that was ordered while they had it, or until it is closed.    *)
(* Assignment implements this (Assignment!ServedOnOrders): its claims,     *)
(* automatic assignments, transfers and requeues are the steps below.      *)
(***************************************************************************)
CONSTANTS Agents, Chats, None

VARIABLES
  status,
  assignee,
  orders    \* hand-overs that are under way: <<conversation, from, to>>

vars == <<status, assignee, orders>>

Init ==
  /\ status = [c \in Chats |-> "open"]
  /\ assignee = [c \in Chats |-> None]
  /\ orders = {}

\* A hand-over is ordered from the agent who has the open conversation at that moment; an
\* order may be dropped, or overtaken, at any time.
Order ==
  /\ \A o \in orders' \ orders : status[o[1]] = "open" /\ assignee[o[1]] = o[2]
  /\ UNCHANGED <<status, assignee>>

Serve(c, a) == status[c] = "open" /\ assignee' = [assignee EXCEPT ![c] = a] /\ UNCHANGED status

\* Somebody takes a conversation nobody has.
Take(c, a) == assignee[c] = None /\ Serve(c, a) /\ orders' \subseteq orders

\* An order is carried out as long as it still names the one who has the conversation.
HandOver(c, to) == <<c, assignee[c], to>> \in orders /\ Serve(c, to) /\ orders' \subseteq orders

Close(c) ==
  /\ status[c] = "open"
  /\ status' = [status EXCEPT ![c] = "closed"]
  /\ assignee' = [assignee EXCEPT ![c] = None]
  /\ orders' \subseteq orders

\* A customer's message, or a reply, opens it again: it starts with nobody.
Reopen(c) ==
  /\ status[c] = "closed" /\ assignee[c] = None
  /\ status' = [status EXCEPT ![c] = "open"]
  /\ UNCHANGED assignee
  /\ orders' \subseteq orders

Next ==
  \/ Order
  \/ \E c \in Chats :
       \/ \E a \in Agents : Take(c, a)
       \/ \E to \in Agents \cup {None} : HandOver(c, to)
       \/ Close(c) \/ Reopen(c)

Spec == Init /\ [][Next]_vars
=============================================================================

------------------------------- MODULE Watchers -------------------------------
(***************************************************************************)
(* presence:subscribe of src/modules/presence/presence.gateway.ts: which   *)
(* users' presence one socket follows, as its presence:* rooms.            *)
(*                                                                         *)
(* A command runs on its own as soon as it arrives, so a second one may    *)
(* start while the first awaits a leave or a join.                         *)
(***************************************************************************)
EXTENDS Integers

CONSTANTS
  Watched,    \* the users a client may want to follow
  MaxCommands \* bound: commands of the client

WatchersAssumption == MaxCommands \in Nat

VARIABLES
  watching, \* the socket's presence rooms
  asked,    \* the lists the client sent, in order
  step      \* of each command: "left" its rooms, "joined", "answered"

vars == <<watching, asked, step>>

Commands == 1..MaxCommands

Init ==
  /\ watching = {}
  /\ asked = [k \in Commands |-> {}] /\ step = [k \in Commands |-> "unsent"]

Goto(k, s) == step' = [step EXCEPT ![k] = s]

\* The handler reads its rooms and leaves them without an await in between ...
Subscribe(k, users) ==
  /\ step[k] = "unsent" /\ \A i \in 1..k - 1 : step[i] # "unsent"
  /\ asked' = [asked EXCEPT ![k] = users]
  /\ watching' = {}
  /\ Goto(k, "left")

\* ... and goes on to join what it was asked for.
Join(k) ==
  /\ step[k] = "left"
  /\ watching' = watching \cup asked[k]
  /\ Goto(k, "joined") /\ UNCHANGED asked

\* The snapshot is read and acked.
Answer(k) ==
  /\ step[k] = "joined"
  /\ Goto(k, "answered") /\ UNCHANGED <<watching, asked>>

Next ==
  \E k \in Commands :
    \/ \E users \in SUBSET Watched : Subscribe(k, users)
    \/ Join(k) \/ Answer(k)

Spec == Init /\ [][Next]_vars

-----------------------------------------------------------------------------

\* What docs/realtime-events.md says of presence:subscribe: it "Replaces your watch list".
\* Once the commands that were sent are answered, the socket follows the list it sent last.
\* Two commands sent at once leave it with both lists.
ListReplaced ==
  \A k \in Commands :
    step[k] = "answered" /\ (\A i \in Commands : step[i] \in {"unsent", "answered"})
    /\ (\A i \in Commands : i > k => step[i] = "unsent")
    => watching = asked[k]
=============================================================================

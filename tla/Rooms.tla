-------------------------------- MODULE Rooms --------------------------------
(***************************************************************************)
(* Which conversation rooms a socket is in: conversation:join and          *)
(* conversation:leave of src/modules/chat/chat.gateway.ts, and the thread  *)
(* a customer is put in on connect, found or created by                    *)
(* getOrCreateForCustomer of services/conversations.service.ts.            *)
(*                                                                         *)
(* The handlers of one socket run concurrently: each waits for `ready`,    *)
(* then runs to its first read of the database.  MaxOpen is how many       *)
(* commands a client leaves unanswered at a time.  "Variant" marks a slip  *)
(* that a property notices.                                                *)
(***************************************************************************)
EXTENDS FiniteSets, SequencesExt, Integers

CONSTANTS
  Tabs,        \* sockets of one customer
  Dashboards,  \* sockets of staff
  Own,         \* ids the customer's thread may get, one per attempt to create it
  Others,      \* conversations of other customers, which exist
  MaxRooms,    \* MAX_CONVERSATION_ROOMS
  MaxOpen,     \* bound: commands of a socket in flight
  MaxCommands, \* bound: commands in all
  MaxFaults    \* bound: database calls that fail

RoomsAssumption ==
  /\ Tabs \cap Dashboards = {} /\ Own \cap Others = {}
  /\ MaxRooms \in Nat \ {0} /\ MaxOpen \in Nat \ {0}
  /\ MaxCommands \in Nat /\ MaxFaults \in Nat

Sockets == Tabs \cup Dashboards
Convs == Own \cup Others

VARIABLES
  thread,  \* conversations whose customerId is the customer
  setup,   \* socket -> where its `ready` is
  rooms,   \* socket -> socket.rooms, the conversations among them
  up,      \* socket -> it is connected
  open,    \* socket -> its commands in flight, in the order they came
  sent,    \* commands so far
  asked,   \* history: socket -> conversation -> what its client last asked for
  faults

vars == <<thread, setup, rooms, up, open, sent, asked, faults>>

Command(kind, c, at) == [kind |-> kind, conv |-> c, at |-> at]
Commands == {Command(k, c, at) : k \in {"join", "leave"}, c \in Convs, at \in {"ready", "read"}}

Setups == {"find", "create", "again", "enter", "done"}

TypeOK ==
  /\ thread \subseteq Own /\ setup \in [Sockets -> Setups]
  /\ rooms \in [Sockets -> SUBSET Convs] /\ up \in [Sockets -> BOOLEAN]
  /\ \A s \in Sockets : (open[s] \in Seq(Commands) /\ Len(open[s]) <= MaxOpen)
  /\ sent \in 0..MaxCommands
  /\ asked \in [Sockets -> [Convs -> {"nothing", "join", "leave"}]]
  /\ faults \in 0..MaxFaults
  /\ \A s \in Sockets : ~up[s] => rooms[s] = {}
  /\ \A s \in Sockets : \A i \in DOMAIN open[s] : open[s][i].at = "read" => setup[s] = "done"

Init ==
  /\ thread = {}
  /\ setup = [s \in Sockets |-> IF s \in Tabs THEN "find" ELSE "done"]
  /\ rooms = [s \in Sockets |-> {}] /\ up = [s \in Sockets |-> TRUE]
  /\ open = [s \in Sockets |-> <<>>] /\ sent = 0
  /\ asked = [s \in Sockets |-> [c \in Convs |-> "nothing"]]
  /\ faults = 0

Fault == faults < MaxFaults /\ faults' = faults + 1

\* socket.join: nothing, once the socket is gone.
Enter(s, c) == rooms' = [rooms EXCEPT ![s] = IF up[s] THEN @ \cup {c} ELSE @]

-----------------------------------------------------------------------------
(* onConnection of a customer: getOrCreateForCustomer, then enterConversation *)

Find(s) ==
  /\ setup[s] = "find"
  /\ setup' = [setup EXCEPT ![s] = IF thread = {} THEN "create" ELSE "enter"]
  /\ UNCHANGED <<thread, rooms, up, open, sent, asked, faults>>

\* Variant: the index on customerId is not unique.
TakenNever == FALSE

\* The unique index on customerId refuses a second thread.
Taken == thread # {}

Create(s) ==
  /\ setup[s] = "create"
  /\ IF Taken
     THEN thread' = thread /\ setup' = [setup EXCEPT ![s] = "again"]
     ELSE /\ \E c \in Own \ thread : thread' = thread \cup {c}
          /\ setup' = [setup EXCEPT ![s] = "enter"]
  /\ UNCHANGED <<rooms, up, open, sent, asked, faults>>

\* The one that won.
FindAgain(s) ==
  /\ setup[s] = "again" /\ thread # {}
  /\ setup' = [setup EXCEPT ![s] = "enter"]
  /\ UNCHANGED <<thread, rooms, up, open, sent, asked, faults>>

EnterOwn(s) ==
  /\ setup[s] = "enter"
  /\ \E c \in thread : Enter(s, c)
  /\ setup' = [setup EXCEPT ![s] = "done"]
  /\ UNCHANGED <<thread, up, open, sent, asked, faults>>

\* Logged, and the handlers go on without the room.
SetupFails(s) ==
  /\ Fault /\ setup[s] \in {"find", "create", "again"}
  /\ setup' = [setup EXCEPT ![s] = "done"]
  /\ UNCHANGED <<thread, rooms, up, open, sent, asked>>

-----------------------------------------------------------------------------
(* conversation:join and conversation:leave *)

Ask(s, kind, c) ==
  /\ up[s] /\ sent < MaxCommands /\ Len(open[s]) < MaxOpen
  /\ c \in Own => c \in thread
  /\ open' = [open EXCEPT ![s] = Append(@, Command(kind, c, "ready"))]
  /\ sent' = sent + 1
  /\ asked' = [asked EXCEPT ![s][c] = kind]
  /\ UNCHANGED <<thread, setup, rooms, up, faults>>

\* After `await ready`; commands that waited go on in the order they came.
Starts(s, i) ==
  /\ setup[s] = "done" /\ open[s][i].at = "ready"
  /\ \A j \in 1..(i - 1) : open[s][j].at # "ready"

\* Variant: one room more than the limit.
FullLate(s, c) == c \notin rooms[s] /\ Cardinality(rooms[s]) > MaxRooms

Full(s, c) == c \notin rooms[s] /\ Cardinality(rooms[s]) >= MaxRooms

\* A join that is answered with an error leaves the client where it was.
Refused(s, c) == asked' = [asked EXCEPT ![s][c] = IF @ = "join" THEN "nothing" ELSE @]

Join(s, i) ==
  LET c == open[s][i].conv IN
  /\ Starts(s, i) /\ open[s][i].kind = "join"
  /\ IF Full(s, c)
     THEN open' = [open EXCEPT ![s] = RemoveAt(@, i)] /\ Refused(s, c)
     ELSE open' = [open EXCEPT ![s][i].at = "read"] /\ UNCHANGED asked
  /\ UNCHANGED <<thread, setup, rooms, up, sent, faults>>

\* getForRequester: a customer finds no thread but his own.
MayOpen(s, c) == s \in Dashboards \/ c \in thread

Joined(s, i) ==
  LET c == open[s][i].conv IN
  /\ open[s][i].at = "read"
  /\ IF MayOpen(s, c) THEN Enter(s, c) /\ UNCHANGED asked
                      ELSE Refused(s, c) /\ UNCHANGED rooms
  /\ open' = [open EXCEPT ![s] = RemoveAt(@, i)]
  /\ UNCHANGED <<thread, setup, up, sent, faults>>

JoinFails(s, i) ==
  /\ Fault /\ open[s][i].at = "read"
  /\ Refused(s, open[s][i].conv)
  /\ open' = [open EXCEPT ![s] = RemoveAt(@, i)]
  /\ UNCHANGED <<thread, setup, rooms, up, sent>>

\* Variant: only a room that was entered by a command is left.
LeftByCommand(s, c) == IF s \in Tabs THEN rooms[s] ELSE rooms[s] \ {c}

Left(s, c) == rooms[s] \ {c}

Leave(s, i) ==
  /\ Starts(s, i) /\ open[s][i].kind = "leave"
  /\ rooms' = [rooms EXCEPT ![s] = Left(s, open[s][i].conv)]
  /\ open' = [open EXCEPT ![s] = RemoveAt(@, i)]
  /\ UNCHANGED <<thread, setup, up, sent, asked, faults>>

\* Socket.IO leaves every room; the handlers in flight go on.
Disconnect(s) ==
  /\ up[s]
  /\ up' = [up EXCEPT ![s] = FALSE] /\ rooms' = [rooms EXCEPT ![s] = {}]
  /\ UNCHANGED <<thread, setup, open, sent, asked, faults>>

Next ==
  \E s \in Sockets :
    \/ Find(s) \/ Create(s) \/ FindAgain(s) \/ EnterOwn(s) \/ SetupFails(s) \/ Disconnect(s)
    \/ \E c \in Convs, kind \in {"join", "leave"} : Ask(s, kind, c)
    \/ \E i \in DOMAIN open[s] : Join(s, i) \/ Joined(s, i) \/ JoinFails(s, i) \/ Leave(s, i)

Spec == Init /\ [][Next]_vars

-----------------------------------------------------------------------------
(* Properties *)

\* Tabs that connect at once, and calls that find no thread at once, make one
\* thread for the customer, and every tab is in that one or in none.
OneThread ==
  /\ Cardinality(thread) <= 1
  /\ \A s \in Tabs : rooms[s] \subseteq thread

\* A socket is never in more conversation rooms than the limit ("Max 50 open at
\* once"), whatever else of it is in flight.
RoomsCapped == \A s \in Sockets : Cardinality(rooms[s]) <= MaxRooms

\* Once a socket's commands on a conversation are answered, it is where its
\* client last asked to be: out of the room it left, in the room it joined.
WhereAsked ==
  \A s \in Sockets, c \in Convs :
    up[s] /\ setup[s] = "done" /\ (\A i \in DOMAIN open[s] : open[s][i].conv # c)
    => /\ asked[s][c] = "leave" => c \notin rooms[s]
       /\ asked[s][c] = "join" => c \in rooms[s]
=============================================================================

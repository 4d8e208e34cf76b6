------------------------------- MODULE Messages -------------------------------
(***************************************************************************)
(* The messages of one conversation and what is announced about them:      *)
(* src/modules/chat/services/messages.service.ts, touchLastMessage of      *)
(* conversations.service.ts and the handlers of chat.gateway.ts.           *)
(*                                                                         *)
(* Two sides, customer and staff, each with sockets on any server.  A step *)
(* of a handler is one call to MongoDB or to the Socket.IO adapter, or one *)
(* emission; a throw, or the end of the server, stops it where it is.      *)
(* HistoryCache has the cache that create, markDelivered and the others    *)
(* invalidate, Assignment the guard of staff replies and what follows a    *)
(* customer's message.  "Variant" marks a slip that a property notices.    *)
(***************************************************************************)
EXTENDS Integers, FiniteSets

CONSTANTS
  Msgs,     \* the clientMessageIds that are sent
  Sockets,
  From,     \* the socket that sends, and sends again, each of Msgs
  SideOf,   \* the side of each socket
  None,     \* no message
  Procs,    \* places where a handler can run
  MaxCalls, \* bound: events from clients
  MaxTime,  \* bound: milliseconds that are told apart
  MaxFaults \* bound: handlers that fail on the way

Sides == {"customer", "staff"}

ASSUME MessagesAssumption ==
  /\ From \in [Msgs -> Sockets] /\ SideOf \in [Sockets -> Sides] /\ None \notin Msgs
  /\ MaxCalls \in Nat /\ MaxTime \in Nat \ {0} /\ MaxFaults \in Nat
  /\ IsFiniteSet(Msgs)

VARIABLES
  status,      \* message.status, "none" while there is no such message
  at,          \* message.createdAt
  deliveredAt, \* message.deliveredAt, 0 for null
  top,         \* the message lastMessageAt and lastMessagePreview come from
  room,        \* the sockets in the conversation's room
  now,
  pc, job,
  announced,   \* how often message:new was emitted for each message
  told,        \* the status its sender's socket was last told, by ack or message:status
  badge,       \* the unread count each side was last sent
  calls, faults,
  excused      \* history: messages a failed handler has left behind

stored == <<status, at, deliveredAt, top>>
screens == <<announced, told, badge>>
bounds == <<now, calls, faults>>
vars == <<status, at, deliveredAt, top, room, now, pc, job, announced, told, badge, calls, faults, excused>>

Statuses == {"none", "sent", "delivered", "read"}
Rank == [none |-> 0, sent |-> 1, delivered |-> 2, read |-> 3]
Steps == {"idle", "insert", "touch", "look", "deliver", "emit", "receive", "find", "report",
          "seen", "mark", "receipt", "count", "publish"}

Job(m, s, t, st, ms, fs, sd, n) ==
  [msg |-> m, sock |-> s, stamp |-> t,
   status |-> st,  \* of the message as this handler has it
   mine |-> ms,    \* history: the messages this handler's update changed
   found |-> fs,   \* what its query returned
   side |-> sd,    \* whose unread count is published
   unread |-> n]
NoJob == Job(None, None, 0, "none", {}, {}, "staff", 0)

Other(side) == IF side = "customer" THEN "staff" ELSE "customer"
Author(m) == SideOf[From[m]]
Stored(m) == status[m] # "none"
SentTo(side) == {m \in Msgs : Stored(m) /\ Author(m) = Other(side)}
Unread(side) == {m \in SentTo(side) : status[m] # "read"}
Upto(side, m) == {x \in SentTo(side) : at[x] <= at[m]}

Init ==
  /\ status = [m \in Msgs |-> "none"] /\ at = [m \in Msgs |-> 0]
  /\ deliveredAt = [m \in Msgs |-> 0] /\ top = None
  /\ room = {} /\ now = 1
  /\ pc = [p \in Procs |-> "idle"] /\ job = [p \in Procs |-> NoJob]
  /\ announced = [m \in Msgs |-> 0] /\ told = [m \in Msgs |-> "none"]
  /\ badge = [sd \in Sides |-> 0]
  /\ calls = 0 /\ faults = 0 /\ excused = {}

Goto(p, step) == pc' = [pc EXCEPT ![p] = step]
SetJob(p, j) == job' = [job EXCEPT ![p] = j]
StepWith(p, step, j) == Goto(p, step) /\ SetJob(p, j)
Step(p, step) == Goto(p, step) /\ UNCHANGED job
End(p) == StepWith(p, "idle", NoJob)

Event == calls < MaxCalls /\ calls' = calls + 1 /\ UNCHANGED <<now, faults>>

\* The conversation's room hears the status of ms; those sent from a socket outside do not.
Tell(ms, st) == told' = [m \in Msgs |-> IF m \in ms /\ From[m] \in room THEN st ELSE told[m]]

-----------------------------------------------------------------------------
(* message:send *)

\* A message, or once more one whose ack was lost; create stamps it.
Send(p, m) ==
  /\ Event
  /\ pc[p] = "idle"
  /\ StepWith(p, "insert", Job(m, From[m], now, "none", {}, {}, Other(Author(m)), 0))
  /\ UNCHANGED <<stored, room, screens, excused>>

\* Variant: a retry is saved over the first attempt and goes on like it.
InsertAgain(p) ==
  /\ pc[p] = "insert"
  /\ LET m == job[p].msg IN
       /\ status' = [status EXCEPT ![m] = "sent"]
       /\ at' = [at EXCEPT ![m] = job[p].stamp]
       /\ Step(p, "touch")
  /\ UNCHANGED <<deliveredAt, top, room, screens, bounds, excused>>

\* The unique index lets one attempt in; another is acked with the message that is there.
Insert(p) ==
  /\ pc[p] = "insert"
  /\ LET m == job[p].msg IN
       \/ /\ ~Stored(m)
          /\ status' = [status EXCEPT ![m] = "sent"]
          /\ at' = [at EXCEPT ![m] = job[p].stamp]
          /\ Step(p, "touch") /\ UNCHANGED screens
       \/ /\ Stored(m)
          /\ told' = [told EXCEPT ![m] = status[m]]
          /\ End(p) /\ UNCHANGED <<status, at, announced, badge>>
  /\ UNCHANGED <<deliveredAt, top, room, bounds, excused>>

\* Variant: the thread always shows the message saved last.
TouchBlind(p) ==
  /\ pc[p] = "touch"
  /\ top' = job[p].msg
  /\ Step(p, "look")
  /\ UNCHANGED <<status, at, deliveredAt, room, screens, bounds, excused>>

\* Variant: a thread that shows a newer message already counts as an error.
TouchOrFail(p) ==
  /\ pc[p] = "touch"
  /\ IF top = None \/ at[top] <= job[p].stamp
       THEN top' = job[p].msg /\ Step(p, "look")
       ELSE UNCHANGED top /\ End(p)
  /\ UNCHANGED <<status, at, deliveredAt, room, screens, bounds, excused>>

\* touchLastMessage: the newest message stays on top.
Touch(p) ==
  /\ pc[p] = "touch"
  /\ top' = IF top = None \/ at[top] <= job[p].stamp THEN job[p].msg ELSE top
  /\ Step(p, "look")
  /\ UNCHANGED <<status, at, deliveredAt, room, screens, bounds, excused>>

\* isSideInRoom.
Look(p) ==
  /\ pc[p] = "look"
  /\ LET there == \E s \in room : SideOf[s] = job[p].side IN
       StepWith(p, IF there THEN "deliver" ELSE "emit",
                Job(job[p].msg, job[p].sock, job[p].stamp, "sent", {}, {}, job[p].side, 0))
  /\ UNCHANGED <<stored, room, screens, bounds, excused>>

\* markDelivered; when somebody else has made it delivered, the handler keeps what it saved.
Deliver(p) ==
  /\ pc[p] = "deliver"
  /\ LET m == job[p].msg IN
       \/ /\ status[m] = "sent"
          /\ status' = [status EXCEPT ![m] = "delivered"]
          /\ deliveredAt' = [deliveredAt EXCEPT ![m] = now]
          /\ StepWith(p, "emit", Job(m, job[p].sock, job[p].stamp, "delivered", {}, {}, job[p].side, 0))
       \/ status[m] # "sent" /\ Step(p, "emit") /\ UNCHANGED <<status, deliveredAt>>
  /\ UNCHANGED <<at, top, room, screens, bounds, excused>>

\* message:new, to the room.
Emit(p) ==
  /\ pc[p] = "emit"
  /\ announced' = [announced EXCEPT ![job[p].msg] = @ + 1]
  /\ Step(p, "count")
  /\ UNCHANGED <<stored, room, told, badge, bounds, excused>>

\* getUnreadCounts.
Count(p) ==
  /\ pc[p] = "count"
  /\ StepWith(p, "publish",
       Job(job[p].msg, job[p].sock, job[p].stamp, job[p].status, {}, {}, job[p].side,
           Cardinality(Unread(job[p].side))))
  /\ UNCHANGED <<stored, room, screens, bounds, excused>>

\* conversation:updated; a message's handler then calls its listeners and acks.
Publish(p) ==
  /\ pc[p] = "publish"
  /\ badge' = [badge EXCEPT ![job[p].side] = job[p].unread]
  /\ told' = IF job[p].status = "none" THEN told ELSE [told EXCEPT ![job[p].msg] = job[p].status]
  /\ End(p)
  /\ UNCHANGED <<stored, room, announced, bounds, excused>>

-----------------------------------------------------------------------------
(* conversation:join, and a customer's connection: enterConversation *)

Join(p, s) ==
  /\ Event
  /\ pc[p] = "idle"
  /\ room' = room \cup {s}
  /\ StepWith(p, "receive", Job(None, s, now, "none", {}, {}, SideOf[s], 0))
  /\ UNCHANGED <<stored, screens, excused>>

\* conversation:leave, or the socket is gone.
Leave(s) ==
  /\ Event
  /\ s \in room
  /\ room' = room \ {s}
  /\ UNCHANGED <<stored, pc, job, screens, excused>>

\* Variant: the filter takes the messages of the side that joins.
ReceiveOwn(p) ==
  /\ pc[p] = "receive"
  /\ LET new == {m \in SentTo(Other(job[p].side)) : status[m] = "sent"} IN
       /\ status' = [m \in Msgs |-> IF m \in new THEN "delivered" ELSE status[m]]
       /\ deliveredAt' = [m \in Msgs |-> IF m \in new THEN job[p].stamp ELSE deliveredAt[m]]
       /\ IF new = {} THEN End(p)
          ELSE StepWith(p, "find", Job(None, job[p].sock, job[p].stamp, "none", new, {}, job[p].side, 0))
  /\ UNCHANGED <<at, top, room, screens, bounds, excused>>

\* markDeliveredTo: one update stamps what the other side sent ...
Receive(p) ==
  /\ pc[p] = "receive"
  /\ LET new == {m \in SentTo(job[p].side) : status[m] = "sent"} IN
       /\ status' = [m \in Msgs |-> IF m \in new THEN "delivered" ELSE status[m]]
       /\ deliveredAt' = [m \in Msgs |-> IF m \in new THEN job[p].stamp ELSE deliveredAt[m]]
       /\ IF new = {} THEN End(p)
          ELSE StepWith(p, "find", Job(None, job[p].sock, job[p].stamp, "none", new, {}, job[p].side, 0))
  /\ UNCHANGED <<at, top, room, screens, bounds, excused>>

\* ... and a query finds it again by the stamp.
Find(p) ==
  /\ pc[p] = "find"
  /\ LET found == {m \in Msgs : status[m] = "delivered" /\ deliveredAt[m] = job[p].stamp} IN
       StepWith(p, "report", Job(None, job[p].sock, job[p].stamp, "none", job[p].mine, found, job[p].side, 0))
  /\ UNCHANGED <<stored, room, screens, bounds, excused>>

\* message:status for each of them.
Report(p) ==
  /\ pc[p] = "report"
  /\ Tell(job[p].found, "delivered")
  /\ End(p)
  /\ UNCHANGED <<stored, room, announced, badge, bounds, excused>>

-----------------------------------------------------------------------------
(* message:read *)

\* The socket has seen everything up to m, whoever wrote m.
Read(p, s, m) ==
  /\ Event
  /\ pc[p] = "idle"
  /\ s \in room /\ Stored(m)
  /\ StepWith(p, "seen", Job(m, s, now, "none", {}, {}, SideOf[s], 0))
  /\ UNCHANGED <<stored, room, screens, excused>>

\* The first update of markRead: what was never delivered gets a time of delivery.
MarkSeen(p) ==
  /\ pc[p] = "seen"
  /\ deliveredAt' = [m \in Msgs |-> IF m \in Upto(job[p].side, job[p].msg) /\ status[m] = "sent"
                                      THEN job[p].stamp ELSE deliveredAt[m]]
  /\ Step(p, "mark")
  /\ UNCHANGED <<status, at, top, room, screens, bounds, excused>>

\* The second: what is not read yet is read.
MarkRead(p) ==
  /\ pc[p] = "mark"
  /\ LET new == Upto(job[p].side, job[p].msg) \cap Unread(job[p].side) IN
       /\ status' = [m \in Msgs |-> IF m \in new THEN "read" ELSE status[m]]
       /\ IF new = {} THEN End(p) ELSE Step(p, "receipt")
  /\ UNCHANGED <<at, deliveredAt, top, room, screens, bounds, excused>>

\* message:status: a client takes everything up to this message for read.
Receipt(p) ==
  /\ pc[p] = "receipt"
  /\ Tell(Upto(job[p].side, job[p].msg), "read")
  /\ Step(p, "count")
  /\ UNCHANGED <<stored, room, announced, badge, bounds, excused>>

-----------------------------------------------------------------------------

\* A call rejects, or the server ends.
Abort(p) ==
  /\ pc[p] # "idle"
  /\ faults < MaxFaults /\ faults' = faults + 1
  /\ excused' = excused \cup
       (IF pc[p] \in {"touch", "look", "deliver", "emit"} THEN {job[p].msg} ELSE {}) \cup
       (IF pc[p] = "receive" THEN SentTo(job[p].side) ELSE {})
  /\ End(p)
  /\ UNCHANGED <<stored, room, screens, now, calls>>

Tick ==
  /\ now < MaxTime /\ now' = now + 1
  /\ UNCHANGED <<stored, room, pc, job, screens, calls, faults, excused>>

Work(p) ==
  \/ Insert(p) \/ Touch(p) \/ Look(p) \/ Deliver(p) \/ Emit(p) \/ Count(p) \/ Publish(p)
  \/ Receive(p) \/ Find(p) \/ Report(p)
  \/ MarkSeen(p) \/ MarkRead(p) \/ Receipt(p)

\* Nothing is under way and the clients have no more to say.
Quiet == calls = MaxCalls /\ now = MaxTime /\ (\A p \in Procs : pc[p] = "idle") /\ UNCHANGED vars

Next ==
  \/ \E p \in Procs :
       \/ \E m \in Msgs : Send(p, m)
       \/ \E s \in Sockets : Join(p, s) \/ \E m \in Msgs : Read(p, s, m)
       \/ Work(p) \/ Abort(p)
  \/ \E s \in Sockets : Leave(s)
  \/ Tick
  \/ Quiet

Spec == Init /\ [][Next]_vars

\* A handler that runs goes on.
FairSpec == Spec /\ \A p \in Procs : WF_vars(Work(p))

-----------------------------------------------------------------------------
(* Properties *)

JobType ==
  [msg : Msgs \cup {None}, sock : Sockets \cup {None}, stamp : Nat, status : Statuses,
   mine : SUBSET Msgs, found : SUBSET Msgs, side : Sides, unread : Nat]

\* The type invariant.
TypeOK ==
  /\ status \in [Msgs -> Statuses] /\ at \in [Msgs -> Nat] /\ deliveredAt \in [Msgs -> Nat]
  /\ top \in Msgs \cup {None}
  /\ room \subseteq Sockets
  /\ now \in Nat /\ calls \in Nat /\ faults \in Nat
  /\ pc \in [Procs -> Steps] /\ job \in [Procs -> JobType]
  /\ announced \in [Msgs -> Nat] /\ told \in [Msgs -> Statuses] /\ badge \in [Sides -> Nat]
  /\ excused \subseteq Msgs

\* Nobody looks at a conversation in which a message for them stays 'sent': either the sender's
\* handler has still to look into the room, or the handler of the socket that joined has still
\* to mark what was sent before (chat.gateway.ts, message:send and enterConversation).
NoMissedDelivery ==
  \A m \in Msgs :
    status[m] = "sent" /\ (\E s \in room : SideOf[s] # Author(m)) =>
      \/ m \in excused
      \/ \E p \in Procs : pc[p] \in {"touch", "look", "deliver"} /\ job[p].msg = m
      \/ \E p \in Procs : pc[p] = "receive" /\ job[p].side # Author(m)

\* The thread list: no message is newer than the one on top, in whatever order messages created
\* at the same time reach the conversation (touchLastMessage).
LatestOnTop ==
  \A m \in Msgs :
    Stored(m) => \/ m \in excused
                 \/ \E p \in Procs : pc[p] = "touch" /\ job[p].msg = m
                 \/ top # None /\ at[m] <= at[top]

Promise == INSTANCE Receipts

\* Whatever sends, retries, joins and reads of several sockets overlap, and whatever handler fails,
\* a message is saved once (message.model.ts, the unique index), its status only moves forward
\* (message.types.ts), and it is announced at most once, and only after it was saved.
KeepsReceipts == Promise!Spec

\* A message that is stored is announced, unless the handler that stored it failed: no later attempt makes up
\* for it.
Announced == \A m \in Msgs : Stored(m) ~> (announced[m] = 1 \/ m \in excused)

-----------------------------------------------------------------------------
(* What comments and docs say and the code does not do: each of these fails *)

\* What markRead's comment says: a message that jumps from sent to read "was obviously
\* delivered too, so give it a deliveredAt first".
ReadWasDelivered == \A m \in Msgs : status[m] = "read" => deliveredAt[m] > 0

\* What markDeliveredTo's comment says: it "returns exactly the messages this call changed".
FoundIsMine == \A p \in Procs : pc[p] = "report" => job[p].found = job[p].mine

\* What docs/realtime-events.md says of unreadCount: "computed by the server - just display it".
BadgeRight == (\A p \in Procs : pc[p] = "idle") => \A sd \in Sides : badge[sd] = Cardinality(Unread(sd))

\* What docs/realtime-events.md says of a Message's status: it "only ever moves forward".
ToldForward == [][\A m \in Msgs : Rank[told[m]] <= Rank[told'[m]]]_vars
=============================================================================

------------------------------- MODULE Routing -------------------------------
(***************************************************************************)
(* Which conversation is next and who gets it: listQueue, candidatesFor    *)
(* and drainQueue of src/modules/agents/services/assignment.service.ts and *)
(* src/modules/chat/services/conversations.service.ts.                     *)
(*                                                                         *)
(* One server, one event at a time: how assignments race is module         *)
(* Assignment, which leaves the order of the candidates open; this module  *)
(* is about that order and the queue's.  An event that may make room       *)
(* drains the queue, one conversation a step.  All agents are connected.   *)
(* "Variant" marks a slip that a property notices.                          *)
(***************************************************************************)
EXTENDS FiniteSets, SequencesExt, Integers

CONSTANTS
  Agents, Chats,
  None,       \* no agent
  Topics,     \* topics other than "general"
  Limits,     \* values of maxConcurrentChats
  QueueLimit, \* limit of listQueue
  MaxTime,    \* bound: events that bring a time: messages, assignments
  MaxCloses,  \* bound: conversations closed
  MaxChanges  \* bound: changes of an agent's status or settings

ASSUME RoutingAssumption ==
  /\ None \notin Agents /\ "general" \notin Topics
  /\ Limits \subseteq Nat \ {0} /\ QueueLimit \in Nat \ {0}
  /\ MaxTime \in Nat /\ MaxCloses \in Nat /\ MaxChanges \in Nat

VARIABLES
  skills,   \* agent -> topics
  topic,    \* conversation -> topic
  limit,    \* agent -> maxConcurrentChats
  choice,   \* agent -> availability
  last,     \* agent -> lastAssignedAt, 0 for null
  state,    \* conversation -> "new" without a message, "open" or "closed"
  assignee, \* conversation -> agent or None
  at,       \* conversation -> lastMessageAt, 0 for null
  since,    \* history: conversation -> when it began to wait
  queue,    \* conversations drainQueue, or an autoAssign, has still to treat
  time, closes, changes

agents == <<skills, limit, choice>>
vars == <<agents, topic, last, state, assignee, at, since, queue, time, closes, changes>>

Held(a) == {c \in Chats : assignee[c] = a}
Waiting == {c \in Chats : state[c] = "open" /\ assignee[c] = None}
Available == {a \in Agents : choice[a] = "online" /\ Cardinality(Held(a)) < limit[a]}

TypeOK ==
  /\ skills \in [Agents -> SUBSET Topics] /\ topic \in [Chats -> Topics \cup {"general"}]
  /\ limit \in [Agents -> Limits] /\ choice \in [Agents -> {"online", "busy", "offline"}]
  /\ last \in [Agents -> 0..MaxTime] /\ at \in [Chats -> 0..MaxTime] /\ since \in [Chats -> 0..MaxTime]
  /\ state \in [Chats -> {"new", "open", "closed"}] /\ assignee \in [Chats -> Agents \cup {None}]
  /\ queue \in Seq(Chats) /\ Len(queue) <= Cardinality(Chats)
  \* The queue is for conversations with a customer's message; only open ones are held.
  /\ \A c \in Chats : state[c] # "open" => assignee[c] = None
  /\ \A c \in Waiting : at[c] > 0 /\ since[c] > 0

Init ==
  /\ skills \in [Agents -> SUBSET Topics] /\ topic \in [Chats -> Topics \cup {"general"}]
  /\ limit \in [Agents -> Limits] /\ choice = [a \in Agents |-> "online"]
  /\ last = [a \in Agents |-> 0]
  /\ state = [c \in Chats |-> "new"] /\ assignee = [c \in Chats |-> None]
  /\ at = [c \in Chats |-> 0] /\ since = [c \in Chats |-> 0]
  /\ queue = <<>> /\ time = 0 /\ closes = 0 /\ changes = 0

-----------------------------------------------------------------------------
(* The order of the conversations and that of the candidates *)

\* The sort of listQueue: the oldest last message first.
Sorted(waiting) ==
  CHOOSE s \in SetToSeqs(waiting) : \A i, j \in DOMAIN s : i < j => at[s[i]] <= at[s[j]]

\* listQueue
ListQueue(waiting) ==
  LET sorted == Sorted(waiting) IN SubSeq(sorted, 1, Min({QueueLimit, Len(sorted)}))

SkillScore(a, c) == IF topic[c] # "general" /\ topic[c] \in skills[a] THEN 0 ELSE 1
Load(a) == Cardinality(Held(a))

\* Variant: an agent who lacks the skill is no candidate.
CandidatesSkilled(c) == {a \in Available : topic[c] \in skills[a] \cup {"general"}}

Candidates(c) == Available

\* Variant: the terms of the load are swapped.
BetterByOwnLoad(a, b, c) ==
  \/ SkillScore(a, c) < SkillScore(b, c)
  \/ SkillScore(a, c) = SkillScore(b, c) /\ Load(b) < Load(a)

\* By skill, then by load, then by who was assigned one the longest time ago.
Better(a, b, c) ==
  \/ SkillScore(a, c) < SkillScore(b, c)
  \/ SkillScore(a, c) = SkillScore(b, c) /\ Load(a) < Load(b)
  \/ SkillScore(a, c) = SkillScore(b, c) /\ Load(a) = Load(b) /\ last[a] < last[b]

Best(c) == {a \in Candidates(c) : \A b \in Candidates(c) : ~Better(b, a, c)}

-----------------------------------------------------------------------------
(* Events *)

Quiet == queue = <<>>

\* A customer writes: the message is saved and is the conversation's last, a
\* closed conversation is reopened, and autoAssign runs for it.
Message(c) ==
  /\ Quiet /\ time < MaxTime
  /\ time' = time + 1
  /\ at' = [at EXCEPT ![c] = time + 1]
  /\ state' = [state EXCEPT ![c] = "open"]
  /\ since' = [since EXCEPT ![c] = IF state[c] = "open" THEN @ ELSE time + 1]
  /\ queue' = <<c>>
  /\ UNCHANGED <<agents, topic, last, assignee, closes, changes>>

\* assignNow, for the conversation that is next.
Assign ==
  LET c == Head(queue) IN
  /\ ~Quiet /\ c \in Waiting
  /\ \E a \in Best(c) :
       /\ time < MaxTime /\ time' = time + 1
       /\ assignee' = [assignee EXCEPT ![c] = a]
       /\ last' = [last EXCEPT ![a] = time + 1]
  /\ queue' = Tail(queue)
  /\ UNCHANGED <<agents, topic, state, at, since, closes, changes>>

\* 'skipped': it has an agent, or is closed.
Skip ==
  /\ ~Quiet /\ Head(queue) \notin Waiting
  /\ queue' = Tail(queue)
  /\ UNCHANGED <<agents, topic, last, state, assignee, at, since, time, closes, changes>>

\* 'no_agent' ends drainQueue.
NoAgent ==
  /\ ~Quiet /\ Head(queue) \in Waiting /\ Candidates(Head(queue)) = {}
  /\ queue' = <<>>
  /\ UNCHANGED <<agents, topic, last, state, assignee, at, since, time, closes, changes>>

\* drainQueue, after a close: it lists the queue.
RoomMade(waiting) == ListQueue(waiting)

\* close of the conversations: no agent any more.
Closed(c) == [assignee EXCEPT ![c] = None]

Close(c) ==
  /\ Quiet /\ state[c] = "open" /\ closes < MaxCloses
  /\ closes' = closes + 1
  /\ state' = [state EXCEPT ![c] = "closed"]
  /\ assignee' = Closed(c)
  /\ queue' = RoomMade(Waiting \ {c})
  /\ UNCHANGED <<agents, topic, last, at, since, time, changes>>

Change == Quiet /\ changes < MaxChanges /\ changes' = changes + 1

\* onAgentStatusChange: "online" drains the queue, "busy" keeps what the agent has.
Choose(a, status) ==
  /\ Change /\ status \in {"online", "busy"}
  /\ choice' = [choice EXCEPT ![a] = status]
  /\ queue' = IF status = "online" THEN ListQueue(Waiting) ELSE <<>>
  /\ UNCHANGED <<skills, limit, topic, last, state, assignee, at, since, time, closes>>

\* requeueAgentChats of an agent who chose "offline"; they wait from now on.
GoOffline(a) ==
  /\ Change /\ choice[a] # "offline"
  /\ choice' = [choice EXCEPT ![a] = "offline"]
  /\ assignee' = [c \in Chats |-> IF assignee[c] = a THEN None ELSE assignee[c]]
  /\ since' = [c \in Chats |-> IF assignee[c] = a THEN time ELSE since[c]]
  /\ queue' = IF Held(a) = {} THEN <<>> ELSE ListQueue(Waiting \cup Held(a))
  /\ UNCHANGED <<skills, limit, topic, last, state, at, time, closes>>

\* updateSettings, of an agent whose status is then told to routing.
SetLimit(a, n) ==
  /\ Change
  /\ limit' = [limit EXCEPT ![a] = n]
  /\ queue' = IF choice[a] = "online" THEN ListQueue(Waiting) ELSE <<>>
  /\ UNCHANGED <<skills, choice, topic, last, state, assignee, at, since, time, closes>>

Next ==
  \/ Assign \/ Skip \/ NoAgent
  \/ \E c \in Chats : Message(c) \/ Close(c)
  \/ \E a \in Agents :
       \/ GoOffline(a)
       \/ \E status \in {"online", "busy"} : Choose(a, status)
       \/ \E n \in Limits : SetLimit(a, n)

Spec == Init /\ [][Next]_vars

-----------------------------------------------------------------------------
(* Properties *)

\* Nobody waits beside a free agent: when routing is done with an event, either
\* the queue or the free agents have run out, whatever the topics and skills.
NobodyWaits == Quiet => Waiting = {} \/ Available = {}

\* Agents who are alike and always free for more are loaded alike: while nothing
\* is closed and nobody changes, their loads differ by one at most.
LoadedAlike ==
  closes = 0 /\ changes = 0 =>
    \A a, b \in Agents :
      skills[a] = skills[b] /\ Load(a) < limit[a] /\ Load(b) < limit[b] => Load(a) <= Load(b) + 1

(* What a comment says and the code does not do: fails *)

\* "Assigns waiting conversations, oldest first": who has waited longest is next.
LongestWaitFirst ==
  [][\A c, d \in Waiting : assignee'[c] # None /\ since[d] < since[c] => assignee'[d] # None]_vars
=============================================================================

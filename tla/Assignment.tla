------------------------------ MODULE Assignment ------------------------------
(***************************************************************************)
(* Who serves which conversation: src/modules/agents/services and the      *)
(* assignment primitives of chat/services/conversations.service.ts.        *)
(*                                                                         *)
(* Servers share the conversations and the agents' profiles (MongoDB) and  *)
(* run requests, socket handlers and timers as tasks that interleave at    *)
(* every await.  A step of a task is ONE call to the database (or the      *)
(* synchronous code between two of them); what it keeps in local variables *)
(* until its next step are job, auto, drain, requeue and round at p.  A    *)
(* step that throws, or a server that dies, ends the task where it is.     *)
(* The operators marked "Variant" are slips one could make in this code;   *)
(* no behaviour of Spec uses them: they show that the properties notice.   *)
(***************************************************************************)
EXTENDS Integers, FiniteSets

CONSTANTS
  Agents,     \* users who are, or were, support agents
  Chats,      \* conversations with at least one message
  Procs,      \* places where a task can run
  Servers,
  ServerOf,   \* the server each of Procs belongs to
  None,       \* null: no agent, no conversation
  Limits,     \* the values an admin gives maxConcurrentChats
  RedisReady, \* isRedisReady(): without Redis a rebalance takes no lock
  Calls,      \* kinds of request the clients of this instance make
  MaxCalls,   \* bound: requests in a behaviour (the timers are not counted)
  MaxFaults   \* bound: steps that fail in a behaviour

ASSUME NoneAssumption == None \notin Agents \cup Chats
ASSUME ServerAssumption == ServerOf \in [Procs -> Servers]
ASSUME LimitsAssumption == Limits \subseteq Nat \ {0} /\ Limits # {}
ASSUME FiniteAssumption == IsFiniteSet(Chats) /\ IsFiniteSet(Procs)
ASSUME BoundAssumption == MaxCalls \in Nat /\ MaxFaults \in Nat /\ RedisReady \in BOOLEAN

VARIABLES
  status,   \* conversation.status
  assignee, \* conversation.assignedAgentId
  active,   \* profile.activeChats
  limit,    \* profile.maxConcurrentChats
  avail,    \* profile.availability: what the agent chose
  hired,    \* the users listActiveAgents returns
  present,  \* presence: connected, disconnected, disconnected for 60 s
  lock,     \* the Redis key agents:rebalance-lock exists
  draining, \* AssignmentService.draining of each server
  pc,       \* where each task is, and its local variables:
  job,      \* the conversation and the agents at hand
  auto,     \* assignNow: candidates not tried yet, the capacity reserveSlot has read
  drain,    \* drainQueue: under way, and the rest of listQueue's answer
  requeue,  \* requeueAgentChats, orphans: <<conversation, agent>> pairs left, any moved
  round,    \* rebalance
  calls, faults,
  drifted,  \* history: agents whose activeChats is known to be off
  excused   \* history: agents who drifted, were forced a chat or had their limit changed

db == <<status, assignee>>
env == <<limit, avail, hired, present, lock>>
counters == <<calls, faults>>
history == <<drifted, excused>>
locals == <<job, auto, drain, requeue, round>>
vars == <<status, assignee, active, limit, avail, hired, present, lock, draining,
          pc, job, auto, drain, requeue, round, calls, faults, drifted, excused>>

Availability == {"online", "busy", "offline"}
Presences == {"here", "away", "gone"}

\* Labels of the steps in which an automatic assignment of job.chat is under way.
AutoSteps == {"rank", "pick", "reserve", "assign", "undo"}
Steps == AutoSteps \cup
  {"idle", "read", "claim_read", "claim_reserve", "claim_assign", "reply_read", "save",
   "move_check", "move_reserve", "move", "move_free", "close", "close_free", "give_back",
   "status", "offline", "requeue", "requeue_next", "requeue_free", "drain", "next",
   "roster", "count", "sync", "presence", "staff", "orphans"}

Job(c, a, f, r) ==
  [chat  |-> c,   \* the conversation at hand
   agent |-> a,   \* the agent who is to get it, or to lose it
   from  |-> f,   \* the assignee a transfer or a close has read
   reply |-> r]   \* a staff reply is saved once the guard lets it through
Trial(cs, n) == [cands |-> cs, room |-> n]
Queue(on, cs) == [on |-> on, queue |-> cs]
Pairs(ws, m) == [todo |-> ws, moved |-> m]
Round(t, r, o, s, n) ==
  [timer  |-> t,  \* in the loop that calls requeueAgentChats
   roster |-> r,  \* the agents listAgents has returned
   off    |-> o,  \* those of them whose listed profile says "offline"
   staff  |-> s,  \* the agents the present loop has still to treat
   counts |-> n]

Zero == [a \in Agents |-> 0]
NoJob == Job(None, None, None, FALSE)
NoTrial == Trial({}, 0)
NoQueue == Queue(FALSE, {})
NoPairs == Pairs({}, FALSE)
NoRound == Round(FALSE, {}, {}, {}, Zero)

Init ==
  /\ status = [c \in Chats |-> "open"]
  /\ assignee = [c \in Chats |-> None]
  /\ active = [a \in Agents |-> 0]
  /\ limit \in [Agents -> Limits]
  /\ avail = [a \in Agents |-> "online"]
  /\ hired = Agents
  /\ present = [a \in Agents |-> "here"]
  /\ lock = FALSE
  /\ draining = [s \in Servers |-> FALSE]
  /\ pc = [p \in Procs |-> "idle"]
  /\ job = [p \in Procs |-> NoJob]
  /\ auto = [p \in Procs |-> NoTrial]
  /\ drain = [p \in Procs |-> NoQueue]
  /\ requeue = [p \in Procs |-> NoPairs]
  /\ round = [p \in Procs |-> NoRound]
  /\ calls = 0 /\ faults = 0
  /\ drifted = {} /\ excused = {}

-----------------------------------------------------------------------------
(* State functions *)

ChatsOf(a) == {c \in Chats : status[c] = "open" /\ assignee[c] = a}
Waiting == ChatsOf(None)

\* A task holds one of a's slots: reserved and not used yet, or not yet given back.
HoldsSlot(p, a) ==
  \/ pc[p] \in {"assign", "undo", "claim_assign", "move", "give_back", "requeue_free"}
     /\ job[p].agent = a
  \/ pc[p] \in {"move_free", "close_free"} /\ job[p].from = a
SlotHolders(a) == {p \in Procs : HoldsSlot(p, a)}

Exact(a) == active[a] = Cardinality(ChatsOf(a)) + Cardinality(SlotHolders(a))

Effective(choice, pres) == IF pres = "here" THEN choice ELSE "offline"

(* Atomic updates of the two collections *)

Goto(p, step) == pc' = [pc EXCEPT ![p] = step]
SetJob(p, j) == job' = [job EXCEPT ![p] = j]
SetTrial(p, t) == auto' = [auto EXCEPT ![p] = t]
SetDrain(p, q) == drain' = [drain EXCEPT ![p] = q]
SetRequeue(p, w) == requeue' = [requeue EXCEPT ![p] = w]
SetRound(p, r) == round' = [round EXCEPT ![p] = r]

\* The task goes on to a step: with the same locals, or with another job.
Step(p, step) == Goto(p, step) /\ UNCHANGED locals
StepWith(p, step, j) == Goto(p, step) /\ SetJob(p, j) /\ UNCHANGED <<auto, drain, requeue, round>>

End(p) ==
  /\ Goto(p, "idle") /\ SetJob(p, NoJob) /\ SetTrial(p, NoTrial)
  /\ SetDrain(p, NoQueue) /\ SetRequeue(p, NoPairs) /\ SetRound(p, NoRound)

Reserve(a) == active' = [active EXCEPT ![a] = @ + 1]
\* Variant: releaseSlot without its filter activeChats > 0.
ReleaseSlotUnchecked(a) == active' = [active EXCEPT ![a] = @ - 1]
ReleaseSlot(a) == active' = [active EXCEPT ![a] = IF @ > 0 THEN @ - 1 ELSE @]

\* Variant: the filter of assignIfUnassigned without status.
UnassignedAnyStatus(c) == assignee[c] = None
Unassigned(c) == status[c] = "open" /\ assignee[c] = None
HeldBy(c, a) == status[c] = "open" /\ assignee[c] = a
SetAssignee(c, a) == assignee' = [assignee EXCEPT ![c] = a] /\ UNCHANGED status
ReopenIfClosed(c) == status' = [status EXCEPT ![c] = "open"] /\ UNCHANGED assignee

Drift(S) == drifted' = drifted \cup S /\ excused' = excused \cup S
Excuse(a) == excused' = excused \cup {a} /\ UNCHANGED drifted

\* A client's request, or an event of the socket layer, starts a task.
Call(p, kind) ==
  /\ kind \in Calls
  /\ pc[p] = "idle"
  /\ calls < MaxCalls
  /\ calls' = calls + 1
  /\ UNCHANGED faults

-----------------------------------------------------------------------------
(* autoAssign and drainQueue *)

\* What follows assignNow: the next conversation of drainQueue, or nothing.
AutoEnd(p) ==
  IF drain[p].on
    THEN Goto(p, "next") /\ SetJob(p, NoJob) /\ SetTrial(p, NoTrial) /\ UNCHANGED <<drain, requeue, round>>
    ELSE End(p)

\* requeueAgentChats or its drainQueue returns: to rebalance's loop, or to nobody.
Return(p) ==
  IF round[p].timer
    THEN /\ Goto(p, "staff") /\ SetJob(p, NoJob) /\ SetTrial(p, NoTrial)
         /\ SetDrain(p, NoQueue) /\ SetRequeue(p, NoPairs) /\ UNCHANGED round
    ELSE End(p)

DrainReturn(p) == draining' = [draining EXCEPT ![ServerOf[p]] = FALSE] /\ Return(p)

\* onMessageCreated for a customer's message: reopenIfClosed, then autoAssign.
Message(p, c) ==
  /\ Call(p, "message")
  /\ ReopenIfClosed(c)
  /\ StepWith(p, "read", Job(c, None, None, FALSE))
  /\ UNCHANGED <<active, env, draining, history>>

\* autoAssign waits for the run of this conversation under way on its server; assignNow reads.
AutoRead(p) ==
  /\ pc[p] = "read"
  /\ ~ \E q \in Procs : /\ ServerOf[q] = ServerOf[p]
                        /\ pc[q] \in AutoSteps
                        /\ job[q].chat = job[p].chat
  /\ IF Unassigned(job[p].chat) THEN Step(p, "rank") ELSE AutoEnd(p)
  /\ UNCHANGED <<db, active, env, draining, counters, history>>

\* candidatesFor.  Their order (module Routing) is left open here.
Rank(p) ==
  /\ pc[p] = "rank"
  /\ Goto(p, "pick")
  /\ SetTrial(p, Trial({a \in hired : present[a] = "here" /\ avail[a] = "online"
                                     /\ active[a] < limit[a]}, 0))
  /\ UNCHANGED <<job, drain, requeue, round, db, active, env, draining, counters, history>>

\* The next candidate: reserveSlot first reads the profile, for its capacity.
Pick(p) ==
  /\ pc[p] = "pick"
  /\ \/ \E a \in auto[p].cands :
          /\ Goto(p, "reserve")
          /\ SetJob(p, Job(job[p].chat, a, None, FALSE))
          /\ SetTrial(p, Trial(auto[p].cands \ {a}, limit[a]))
          /\ UNCHANGED <<drain, requeue, round, draining>>
     \/ /\ auto[p].cands = {}  \* 'no_agent'
        /\ IF drain[p].on THEN DrainReturn(p) ELSE End(p) /\ UNCHANGED draining
  /\ UNCHANGED <<db, active, env, counters, history>>

\* Variant: the capacity candidatesFor has seen is trusted.
AutoReserveBlind(p) ==
  /\ pc[p] = "reserve"
  /\ Reserve(job[p].agent) /\ Step(p, "assign")
  /\ UNCHANGED <<db, env, draining, counters, history>>

\* reserveSlot's conditional update, with the capacity read before.
AutoReserve(p) ==
  /\ pc[p] = "reserve"
  /\ IF active[job[p].agent] < auto[p].room
       THEN Reserve(job[p].agent) /\ Step(p, "assign")
       ELSE UNCHANGED active /\ StepWith(p, "pick", Job(job[p].chat, None, None, FALSE))
  /\ UNCHANGED <<db, env, draining, counters, history>>

\* assignIfUnassigned.
AutoAssign(p) ==
  /\ pc[p] = "assign"
  /\ IF Unassigned(job[p].chat)
       THEN SetAssignee(job[p].chat, job[p].agent) /\ AutoEnd(p)
       ELSE UNCHANGED db /\ Step(p, "undo")
  /\ UNCHANGED <<active, env, draining, counters, history>>

\* Someone else assigned it first: the reserved slot goes back, 'skipped'.
AutoUndo(p) ==
  /\ pc[p] = "undo"
  /\ ReleaseSlot(job[p].agent)
  /\ AutoEnd(p)
  /\ UNCHANGED <<db, env, draining, counters, history>>

\* Variant: drainQueue does not look at its flag.
DrainAlways(p) ==
  /\ pc[p] = "drain"
  /\ draining' = [draining EXCEPT ![ServerOf[p]] = TRUE]
  /\ Goto(p, "next") /\ SetDrain(p, Queue(TRUE, Waiting))
  /\ SetJob(p, NoJob) /\ SetRequeue(p, NoPairs) /\ UNCHANGED <<auto, round>>
  /\ UNCHANGED <<db, active, env, counters, history>>

\* drainQueue: nothing if this server drains already, else it reads the queue.
Drain(p) ==
  /\ pc[p] = "drain"
  /\ IF draining[ServerOf[p]]
       THEN UNCHANGED draining /\ Return(p)
       ELSE /\ draining' = [draining EXCEPT ![ServerOf[p]] = TRUE]
            /\ Goto(p, "next") /\ SetDrain(p, Queue(TRUE, Waiting))
            /\ SetJob(p, NoJob) /\ SetRequeue(p, NoPairs) /\ UNCHANGED <<auto, round>>
  /\ UNCHANGED <<db, active, env, counters, history>>

DrainNext(p) ==
  /\ pc[p] = "next"
  /\ \/ \E c \in drain[p].queue :
          /\ Goto(p, "read")
          /\ SetJob(p, Job(c, None, None, FALSE))
          /\ SetDrain(p, Queue(TRUE, drain[p].queue \ {c}))
          /\ UNCHANGED <<auto, requeue, round, draining>>
     \/ drain[p].queue = {} /\ DrainReturn(p)
  /\ UNCHANGED <<db, active, env, counters, history>>

-----------------------------------------------------------------------------
(* claim, and the guard of a staff reply *)

\* claim's look at the conversation, for an agent who may go on to reserve.
Claim(p, c, a) ==
  /\ Call(p, "claim")
  /\ a \in hired
  /\ Unassigned(c)
  /\ StepWith(p, "claim_reserve", Job(c, a, None, FALSE))
  /\ UNCHANGED <<db, active, env, draining, history>>

\* staffReplyGuard for an agent's socket: reopenIfClosed.  The role is the one of the handshake.
Reply(p, c, a) ==
  /\ Call(p, "reply")
  /\ ReopenIfClosed(c)
  /\ StepWith(p, "reply_read", Job(c, a, None, TRUE))
  /\ UNCHANGED <<active, env, draining, history>>

\* Own chat: go on and save.  Nobody's: claim it.  Closed again, or another agent's: refused.
ReplyRead(p) ==
  /\ pc[p] = "reply_read"
  /\ \/ HeldBy(job[p].chat, job[p].agent) /\ Step(p, "save")
     \/ Unassigned(job[p].chat) /\ Step(p, "claim_read")
     \/ ~Unassigned(job[p].chat) /\ ~HeldBy(job[p].chat, job[p].agent) /\ End(p)
  /\ UNCHANGED <<db, active, env, draining, counters, history>>

\* The claim of a reply reads the conversation once more.
ClaimRead(p) ==
  /\ pc[p] = "claim_read"
  /\ \/ HeldBy(job[p].chat, job[p].agent) /\ Step(p, "save")
     \/ Unassigned(job[p].chat) /\ Step(p, "claim_reserve")
     \/ ~Unassigned(job[p].chat) /\ ~HeldBy(job[p].chat, job[p].agent) /\ End(p)
  /\ UNCHANGED <<db, active, env, draining, counters, history>>

\* reserveSlot(agent, force): counts the chat, whatever the capacity.
ClaimReserve(p) ==
  /\ pc[p] = "claim_reserve"
  /\ Reserve(job[p].agent)
  /\ Excuse(job[p].agent)
  /\ Step(p, "claim_assign")
  /\ UNCHANGED <<db, env, draining, counters>>

\* Variant: the assignment trusts what claim has read.
ClaimAssignBlind(p) ==
  /\ pc[p] = "claim_assign"
  /\ SetAssignee(job[p].chat, job[p].agent)
  /\ IF job[p].reply THEN Step(p, "save") ELSE End(p)
  /\ UNCHANGED <<active, env, draining, counters, history>>

\* assignIfUnassigned; the loser goes on to give its slot back and to answer 409.
ClaimAssign(p) ==
  /\ pc[p] = "claim_assign"
  /\ IF Unassigned(job[p].chat)
       THEN /\ SetAssignee(job[p].chat, job[p].agent)
            /\ IF job[p].reply THEN Step(p, "save") ELSE End(p)
       ELSE UNCHANGED db /\ Step(p, "give_back")
  /\ UNCHANGED <<active, env, draining, counters, history>>

\* Variant: the loser answers 409 and keeps the slot.
GiveBackForgets(p) ==
  /\ pc[p] = "give_back"
  /\ End(p)
  /\ UNCHANGED <<db, active, env, draining, counters, history>>

\* A claim or a transfer that lost returns the slot it had taken.
GiveBack(p) ==
  /\ pc[p] = "give_back"
  /\ ReleaseSlot(job[p].agent)
  /\ End(p)
  /\ UNCHANGED <<db, env, draining, counters, history>>

\* The chat gateway saves the reply the guard has let through.
SaveReply(p) ==
  /\ pc[p] = "save"
  /\ End(p)
  /\ UNCHANGED <<db, active, env, draining, counters, history>>

-----------------------------------------------------------------------------
(* transfer and close *)

\* transfer reads the conversation; to = None sends it back to the queue.
Transfer(p, c, to) ==
  /\ Call(p, "transfer")
  /\ status[c] = "open" /\ assignee[c] # to
  /\ StepWith(p, IF to = None THEN "move" ELSE "move_check", Job(c, to, assignee[c], FALSE))
  /\ UNCHANGED <<db, active, env, draining, history>>

\* isAgent(to), or 404.
MoveCheck(p) ==
  /\ pc[p] = "move_check"
  /\ IF job[p].agent \in hired THEN Step(p, "move_reserve") ELSE End(p)
  /\ UNCHANGED <<db, active, env, draining, counters, history>>

MoveReserve(p) ==
  /\ pc[p] = "move_reserve"
  /\ Reserve(job[p].agent)
  /\ Excuse(job[p].agent)
  /\ Step(p, "move")
  /\ UNCHANGED <<db, env, draining, counters>>

\* After a transfer: back in the queue means autoAssign, else the request is done.
MoveEnd(p) ==
  IF job[p].agent = None
    THEN StepWith(p, "read", Job(job[p].chat, None, None, FALSE))
    ELSE End(p)

\* reassign, on condition that the assignee is still the one read.
Move(p) ==
  /\ pc[p] = "move"
  /\ IF HeldBy(job[p].chat, job[p].from)
       THEN /\ SetAssignee(job[p].chat, job[p].agent)
            /\ IF job[p].from # None THEN Step(p, "move_free") ELSE MoveEnd(p)
       ELSE /\ UNCHANGED db
            /\ IF job[p].agent # None THEN Step(p, "give_back") ELSE End(p)
  /\ UNCHANGED <<active, env, draining, counters, history>>

MoveFree(p) ==
  /\ pc[p] = "move_free"
  /\ ReleaseSlot(job[p].from)
  /\ MoveEnd(p)
  /\ UNCHANGED <<db, env, draining, counters, history>>

\* close reads the conversation; an admin may close any, an agent their own.
Close(p, c) ==
  /\ Call(p, "close")
  /\ status[c] = "open"
  /\ StepWith(p, "close", Job(c, None, assignee[c], FALSE))
  /\ UNCHANGED <<db, active, env, draining, history>>

\* conversations.close asks only that the thread is open; the slot that goes back is the one
\* of the assignee read before, so both agents drift when the assignee has changed meanwhile.
CloseWrite(p) ==
  /\ pc[p] = "close"
  /\ IF status[job[p].chat] = "open"
       THEN /\ status' = [status EXCEPT ![job[p].chat] = "closed"]
            /\ assignee' = [assignee EXCEPT ![job[p].chat] = None]
            /\ Drift(IF assignee[job[p].chat] = job[p].from THEN {}
                     ELSE {assignee[job[p].chat], job[p].from} \ {None})
            /\ Step(p, IF job[p].from = None THEN "drain" ELSE "close_free")
       ELSE UNCHANGED <<db, history>> /\ End(p)
  /\ UNCHANGED <<active, env, draining, counters>>

CloseFree(p) ==
  /\ pc[p] = "close_free"
  /\ ReleaseSlot(job[p].from)
  /\ StepWith(p, "drain", NoJob)
  /\ UNCHANGED <<db, env, draining, counters, history>>

-----------------------------------------------------------------------------
(* Agents come and go *)

\* setAvailability writes what the agent chooses, then goes on to read their status.
SetAvailability(p, a, choice) ==
  /\ Call(p, "availability")
  /\ avail' = [avail EXCEPT ![a] = choice]
  /\ StepWith(p, "status", Job(None, a, None, FALSE))
  /\ UNCHANGED <<db, active, limit, hired, present, lock, draining, history>>

\* updateSettings: a new capacity.
SetLimit(p, a, n) ==
  /\ Call(p, "settings")
  /\ a \in hired
  /\ limit' = [limit EXCEPT ![a] = n]
  /\ Excuse(a)
  /\ StepWith(p, "status", Job(None, a, None, FALSE))
  /\ UNCHANGED <<db, active, avail, hired, present, lock, draining>>

\* An agent's first socket or the end of their last one; the presence listener of agents.module.
PresenceChange(p, a, pres) ==
  /\ Call(p, "presence")
  /\ (pres = "here") # (present[a] = "here")
  /\ present' = [present EXCEPT ![a] = pres]
  /\ StepWith(p, "status", Job(None, a, None, FALSE))
  /\ UNCHANGED <<db, active, limit, avail, hired, lock, draining, history>>

\* getStatus, which throws for someone who is no agent (a socket may outlive a role); then
\* onAgentStatusChange: online drains the queue, offline asks whether that was their choice.
Status(p) ==
  /\ pc[p] = "status"
  /\ LET a  == job[p].agent
         st == Effective(avail[a], present[a])
     IN  \/ a \in hired /\ st = "online" /\ StepWith(p, "drain", NoJob)
         \/ a \in hired /\ st = "offline" /\ Step(p, "offline")
         \/ (a \notin hired \/ st = "busy") /\ End(p)
  /\ UNCHANGED <<db, active, env, draining, counters, history>>

\* OFFLINE_REQUEUE_AFTER_MS pass without the agent.
Elapse(a) ==
  /\ present[a] = "away"
  /\ present' = [present EXCEPT ![a] = "gone"]
  /\ UNCHANGED <<db, active, limit, avail, hired, lock, draining, pc, locals, counters, history>>

\* updateRole (module users): promotes or demotes.
SetRole(a) ==
  /\ "role" \in Calls /\ calls < MaxCalls /\ calls' = calls + 1 /\ UNCHANGED faults
  /\ hired' = IF a \in hired THEN hired \ {a} ELSE hired \cup {a}
  /\ UNCHANGED <<db, active, limit, avail, present, lock, draining, pc, locals, history>>

\* getStatus throws for someone who is no agent; only a chosen "offline" requeues.
Offline(p) ==
  /\ pc[p] = "offline"
  /\ IF job[p].agent \in hired /\ avail[job[p].agent] = "offline"
       THEN Step(p, "requeue")
       ELSE End(p)
  /\ UNCHANGED <<db, active, env, draining, counters, history>>

\* listOpenAssignedTo.
Requeue(p) ==
  /\ pc[p] = "requeue"
  /\ Goto(p, "requeue_next")
  /\ SetRequeue(p, Pairs(ChatsOf(job[p].agent) \X {job[p].agent}, FALSE))
  /\ UNCHANGED <<job, auto, drain, round, db, active, env, draining, counters, history>>

\* reassign(conversation, agent, null), unless the agent has lost it meanwhile.
RequeueNext(p) ==
  /\ pc[p] = "requeue_next"
  /\ \/ \E w \in requeue[p].todo :
          /\ IF HeldBy(w[1], w[2])
               THEN /\ SetAssignee(w[1], None)
                    /\ Goto(p, "requeue_free")
                    /\ SetRequeue(p, Pairs(requeue[p].todo \ {w}, TRUE))
               ELSE /\ UNCHANGED <<db, pc>>
                    /\ SetRequeue(p, Pairs(requeue[p].todo \ {w}, requeue[p].moved))
          /\ UNCHANGED <<job, auto, drain, round>>
     \/ /\ requeue[p].todo = {}
        /\ IF requeue[p].moved THEN Step(p, "drain") ELSE Return(p)
        /\ UNCHANGED db
  /\ UNCHANGED <<active, env, draining, counters, history>>

RequeueFree(p) ==
  /\ pc[p] = "requeue_free"
  /\ ReleaseSlot(job[p].agent)
  /\ Step(p, "requeue_next")
  /\ UNCHANGED <<db, env, draining, counters, history>>

-----------------------------------------------------------------------------
(* rebalance, every 30 s on the server that gets the lock *)

Rebalance(p) ==
  /\ "rebalance" \in Calls
  /\ pc[p] = "idle"
  /\ RedisReady => ~lock
  /\ lock' = (lock \/ RedisReady)
  /\ Step(p, "roster")
  /\ UNCHANGED <<db, active, limit, avail, hired, present, draining, counters, history>>

\* The lock is never deleted: it expires 25 s later, whether or not that run has ended.
LockExpires ==
  /\ lock
  /\ lock' = FALSE
  /\ UNCHANGED <<db, active, limit, avail, hired, present, draining, pc, locals, counters, history>>

\* listAgents: the agents with their profiles as they are now.
Roster(p) ==
  /\ pc[p] = "roster"
  /\ Goto(p, "count")
  /\ SetRound(p, Round(FALSE, hired, {a \in hired : avail[a] = "offline"}, {}, Zero))
  /\ UNCHANGED <<job, auto, drain, requeue, db, active, env, draining, counters, history>>

\* countOpenByAgent.
Count(p) ==
  /\ pc[p] = "count"
  /\ Goto(p, IF round[p].roster = {} THEN "presence" ELSE "sync")
  /\ SetRound(p, Round(FALSE, round[p].roster, round[p].off, round[p].roster,
       [a \in Agents |-> IF a \in round[p].roster THEN Cardinality(ChatsOf(a)) ELSE 0]))
  /\ UNCHANGED <<job, auto, drain, requeue, db, active, env, draining, counters, history>>

\* Variant: agents without a row in the aggregation keep their counter.
SyncNonZero(p) ==
  /\ pc[p] = "sync"
  /\ \E a \in round[p].staff :
       /\ active' = [active EXCEPT ![a] = IF round[p].counts[a] = 0 THEN @ ELSE round[p].counts[a]]
       /\ Goto(p, IF round[p].staff = {a} THEN "presence" ELSE "sync")
       /\ SetRound(p, Round(FALSE, round[p].roster, round[p].off, round[p].staff \ {a}, round[p].counts))
  /\ UNCHANGED <<job, auto, drain, requeue, db, env, draining, counters, history>>

\* syncActiveChats: one update of the bulk write overwrites one counter with the count taken
\* before.  The history says whether that count is still the right one.
Sync(p) ==
  /\ pc[p] = "sync"
  /\ \E a \in round[p].staff :
       /\ active' = [active EXCEPT ![a] = round[p].counts[a]]
       /\ IF round[p].counts[a] = Cardinality(ChatsOf(a)) + Cardinality(SlotHolders(a))
            THEN drifted' = drifted \ {a} /\ UNCHANGED excused
            ELSE Drift({a})
       /\ Goto(p, IF round[p].staff = {a} THEN "presence" ELSE "sync")
       /\ SetRound(p, Round(FALSE, round[p].roster, round[p].off, round[p].staff \ {a}, round[p].counts))
  /\ UNCHANGED <<job, auto, drain, requeue, db, env, draining, counters>>

\* The presence snapshot selects the agents whose chats are to be requeued.
Snapshot(p) ==
  /\ pc[p] = "presence"
  /\ Goto(p, "staff")
  /\ SetRound(p, Round(TRUE, round[p].roster, {},
       round[p].off \cup {a \in round[p].roster : present[a] = "gone"}, Zero))
  /\ UNCHANGED <<job, auto, drain, requeue, db, active, env, draining, counters, history>>

\* requeueAgentChats for the next of them; after the last, listOpenAssignedOutside.
NextStaff(p) ==
  /\ pc[p] = "staff"
  /\ \/ \E a \in round[p].staff :
          /\ Goto(p, "requeue_next")
          /\ SetJob(p, Job(None, a, None, FALSE))
          /\ SetRequeue(p, Pairs(ChatsOf(a) \X {a}, FALSE))
          /\ SetRound(p, Round(TRUE, round[p].roster, {}, round[p].staff \ {a}, Zero))
     \/ /\ round[p].staff = {}
        /\ Goto(p, "orphans")
        /\ SetRequeue(p, Pairs({w \in Chats \X (Agents \ round[p].roster) : HeldBy(w[1], w[2])}, FALSE))
        /\ SetRound(p, NoRound)
        /\ UNCHANGED job
  /\ UNCHANGED <<auto, drain, db, active, env, draining, counters, history>>

\* The chats of people who are no agents go back to the queue.  Nothing is taken off those
\* people's counters: they drift, and are not synced while their owners are not listed.
Orphans(p) ==
  /\ pc[p] = "orphans"
  /\ \/ \E w \in requeue[p].todo :
          /\ IF HeldBy(w[1], w[2])
               THEN SetAssignee(w[1], None) /\ Drift({w[2]})
               ELSE UNCHANGED <<db, history>>
          /\ SetRequeue(p, Pairs(requeue[p].todo \ {w}, FALSE))
          /\ UNCHANGED pc
     \/ requeue[p].todo = {} /\ Goto(p, "drain") /\ UNCHANGED <<requeue, db, history>>
  /\ UNCHANGED <<job, auto, drain, round, active, env, draining, counters>>

-----------------------------------------------------------------------------
(* Failures *)

Fault == faults < MaxFaults /\ faults' = faults + 1 /\ UNCHANGED calls
SlotLost(p) == Drift({a \in Agents : HoldsSlot(p, a)})

\* A database call of the task rejects, or its server dies: no compensation runs, a slot in
\* hand is lost.  The finally block, or the restart, clears the draining flag.  An assignment that
\* fails is such a death: the promise of autoAssign's run.finally rejects and nobody handles it.
Abort(p) ==
  /\ pc[p] # "idle"
  /\ Fault
  /\ SlotLost(p)
  /\ End(p)
  /\ IF drain[p].on THEN draining' = [draining EXCEPT ![ServerOf[p]] = FALSE] ELSE UNCHANGED draining
  /\ UNCHANGED <<db, active, env>>

\* Variant: no finally block.
DrainFailsStuck(p) ==
  /\ drain[p].on
  /\ Fault
  /\ SlotLost(p)
  /\ Return(p)
  /\ UNCHANGED <<db, active, env, draining>>

\* drainQueue catches what is thrown inside it, and its caller goes on if the process does.
DrainFails(p) ==
  /\ drain[p].on
  /\ Fault
  /\ SlotLost(p)
  /\ DrainReturn(p)
  /\ UNCHANGED <<db, active, env>>

-----------------------------------------------------------------------------

Request(p) ==
  \/ \E c \in Chats : Message(p, c) \/ Close(p, c)
  \/ \E c \in Chats, a \in Agents : Claim(p, c, a) \/ Reply(p, c, a)
  \/ \E c \in Chats, to \in Agents \cup {None} : Transfer(p, c, to)
  \/ \E a \in Agents, v \in Availability : SetAvailability(p, a, v)
  \/ \E a \in Agents, n \in Limits : SetLimit(p, a, n)
  \/ \E a \in Agents, pres \in {"here", "away"} : PresenceChange(p, a, pres)

\* What a running task does next.
Work(p) ==
  \/ AutoRead(p) \/ Rank(p) \/ Pick(p) \/ AutoReserve(p) \/ AutoAssign(p) \/ AutoUndo(p)
  \/ Drain(p) \/ DrainNext(p)
  \/ ReplyRead(p) \/ ClaimRead(p) \/ ClaimReserve(p) \/ ClaimAssign(p) \/ GiveBack(p) \/ SaveReply(p)
  \/ MoveCheck(p) \/ MoveReserve(p) \/ Move(p) \/ MoveFree(p)
  \/ CloseWrite(p) \/ CloseFree(p)
  \/ Status(p) \/ Offline(p) \/ Requeue(p) \/ RequeueNext(p) \/ RequeueFree(p)
  \/ Roster(p) \/ Count(p) \/ Sync(p) \/ Snapshot(p) \/ NextStaff(p) \/ Orphans(p)

\* Nothing is under way and no client has anything left to ask.
Quiet == calls = MaxCalls /\ (\A p \in Procs : pc[p] = "idle") /\ UNCHANGED vars

Next ==
  \/ \E p \in Procs : Request(p) \/ Work(p) \/ Rebalance(p) \/ Abort(p) \/ DrainFails(p)
  \/ \E a \in Agents : Elapse(a) \/ SetRole(a)
  \/ LockExpires
  \/ Quiet

Spec == Init /\ [][Next]_vars

\* A task that runs takes its next step sooner or later (the promise chain of a conversation is
\* first come, first served, hence the strong fairness of AutoRead); the interval timer keeps calling
\* rebalance; a key with a time to live expires.
FairSpec ==
  /\ Spec
  /\ \A p \in Procs : WF_vars(Work(p))
  /\ \A p \in Procs : SF_vars(AutoRead(p))
  /\ SF_vars(\E p \in Procs : Rebalance(p))
  /\ WF_vars(LockExpires)

-----------------------------------------------------------------------------
(* Properties *)

JobType == [chat : Chats \cup {None}, agent : Agents \cup {None}, from : Agents \cup {None},
            reply : BOOLEAN]
TrialType == [cands : SUBSET Agents, room : Nat]
QueueType == [on : BOOLEAN, queue : SUBSET Chats]
PairsType == [todo : SUBSET (Chats \X Agents), moved : BOOLEAN]
RoundType == [timer : BOOLEAN, roster : SUBSET Agents, off : SUBSET Agents, staff : SUBSET Agents,
              counts : [Agents -> Nat]]

\* Where a step needs a conversation or an agent, the job has one.
ChatSteps == AutoSteps \cup
  {"read", "claim_read", "claim_reserve", "claim_assign", "reply_read", "save",
   "move_check", "move_reserve", "move", "move_free", "close"}
AgentSteps ==
  {"reserve", "assign", "undo", "claim_read", "claim_reserve", "claim_assign", "reply_read", "save",
   "give_back", "move_check", "move_reserve", "status", "offline", "requeue", "requeue_next",
   "requeue_free"}
Fits(step, j) ==
  /\ step \in ChatSteps => j.chat \in Chats
  /\ step \in AgentSteps => j.agent \in Agents
  /\ step \in {"move_free", "close_free"} => j.from \in Agents

TasksOK ==
  /\ pc \in [Procs -> Steps]
  /\ job \in [Procs -> JobType]
  /\ auto \in [Procs -> TrialType]
  /\ drain \in [Procs -> QueueType]
  /\ requeue \in [Procs -> PairsType]
  /\ round \in [Procs -> RoundType]
  /\ \A p \in Procs : Fits(pc[p], job[p])

DataOK ==
  /\ status \in [Chats -> {"open", "closed"}]
  /\ assignee \in [Chats -> Agents \cup {None}]
  /\ active \in [Agents -> Nat]
  /\ limit \in [Agents -> Limits]
  /\ avail \in [Agents -> Availability]
  /\ hired \subseteq Agents
  /\ present \in [Agents -> Presences]
  /\ lock \in BOOLEAN
  /\ draining \in [Servers -> BOOLEAN]
  /\ calls \in Nat /\ faults \in Nat
  /\ drifted \subseteq excused /\ excused \subseteq Agents

\* The type invariant.
TypeOK == DataOK /\ TasksOK

\* A closed conversation has no assignee: whichever way close, claim, transfer, automatic
\* assignment and reopening interleave, no agent keeps or gets a thread that is closed, and a
\* reopened one always starts in the queue (conversations.service.ts, close and the filters).
ClosedIsUnassigned == \A c \in Chats : status[c] = "closed" => assignee[c] = None

\* Slot accounting: the counter the load balancing trusts is the number of the agent's open
\* chats plus the slots of tasks between reserving and assigning, or between taking away and
\* releasing.  It can differ only for an agent in drifted: a task holding a slot of theirs
\* failed, a close met a changed assignee, their chat was requeued because they are no agent,
\* or a rebalance wrote an outdated count (agents.service.ts, reserveSlot and releaseSlot).
CounterExact == \A a \in Agents \ drifted : Exact(a)

\* The point of reserving first: nobody gets more open chats than maxConcurrentChats from
\* automatic assignment, on however many servers it runs at once.  Excused are the agents a
\* claim or a transfer was forced on, whose limit was changed, or who drifted.
CapacityRespected == \A a \in Agents \ excused : Cardinality(ChatsOf(a)) <= limit[a]

\* The draining flag of a server is up exactly while one task there is inside drainQueue: two
\* drains never run at once, and a drain that fails never leaves the flag behind, which would
\* end all draining on that server (assignment.service.ts, drainQueue).
DrainFlagHeld ==
  \A s \in Servers :
    Cardinality({p \in Procs : ServerOf[p] = s /\ drain[p].on}) = IF draining[s] THEN 1 ELSE 0

\* Hand-overs under way: transfers that have read the assignee, requeues with the chats they listed.
Orders ==
  {<<job[p].chat, job[p].from, job[p].agent>> :
     p \in {q \in Procs : pc[q] \in {"move_check", "move_reserve", "move"}}}
  \cup {<<w[1], w[2], None>> : w \in UNION {requeue[p].todo : p \in Procs}}
Promise == INSTANCE Ownership WITH orders <- Orders

\* Refinement of Ownership: nobody's chat is taken by an assignment.  An open conversation goes
\* to somebody else only if nobody has it, or by a transfer or a requeue that was asked for while
\* this very agent had it; claims and automatic assignments of any server never do it, however
\* old what they have read is, and a reopened conversation starts with nobody.
ServedOnOrders == Promise!Spec

\* Self-healing: once the clients' requests have been answered, repeated rebalances bring every
\* listed agent's counter back to the number of their open chats, for good.
CountersHeal == <>[](\A a \in hired : active[a] = Cardinality(ChatsOf(a)))

\* Nobody waits for ever while an agent is free: over and over, either nothing waits or no
\* connected, online agent is below capacity (a drain request lost because a drain was running,
\* an aborted assignment, are made up for by the next rebalance).
Free(a) == a \in hired /\ present[a] = "here" /\ avail[a] = "online" /\ active[a] < limit[a]
WaitingServed == []<>(Waiting = {} \/ ~ \E a \in Agents : Free(a))

(* What comments say and the code does not do: each fails on some instance *)

\* What src/modules/agents/models/agent-profile.types.ts says of activeChats, faults aside:
\* "Open chats assigned right now. Changed atomically on assign/release".
CounterAlwaysExact == \A a \in Agents : Exact(a)

\* What rebalance's comment says of the re-count: it "fixes counter drift".  No overwrite puts
\* a wrong number in the place of the right one.
SyncOnlyRepairs ==
  [][\A a \in Agents : (\E p \in Procs : pc[p] = "sync" /\ round[p].staff # round'[p].staff)
                       => (Exact(a) => Exact(a)')]_vars

\* What reserveSlot's comment says: it "takes one chat slot if the agent is below capacity".
ReserveBelowCapacity ==
  [][\A p \in Procs : pc[p] = "reserve" /\ pc'[p] = "assign"
       => active[job[p].agent] < limit[job[p].agent]]_vars

\* What staffReplyGuard's comment says: "another agent's chat is blocked".
ReplyInOwnChat ==
  [][\A p \in Procs : SaveReply(p) => assignee[job[p].chat] \in {job[p].agent, None}]_vars
=============================================================================

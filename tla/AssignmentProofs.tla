--------------------------- MODULE AssignmentProofs ---------------------------
(***************************************************************************)
(* Theorems about Assignment for any number of agents, conversations,      *)
(* servers, tasks, requests and failures.                                  *)
(***************************************************************************)
EXTENDS Assignment, FiniteSetTheorems, TLAPS

USE NoneAssumption, ServerAssumption, LimitsAssumption, BoundAssumption

-----------------------------------------------------------------------------
(* Type correctness *)

\* The empty locals are well typed.
LEMMA NoLocals ==
  /\ NoJob \in JobType
  /\ NoTrial \in TrialType
  /\ NoQueue \in QueueType
  /\ NoPairs \in PairsType
  /\ NoRound \in RoundType
<1>1. NoJob \in JobType
  BY DEF NoJob, Job, JobType
<1>2. NoTrial \in TrialType
  <2>1. {} \in SUBSET Agents  OBVIOUS
  <2>2. QED  BY <2>1 DEF NoTrial, Trial, TrialType
<1>3. NoQueue \in QueueType
  BY DEF NoQueue, Queue, QueueType
<1>4. NoPairs \in PairsType
  BY DEF NoPairs, Pairs, PairsType
<1>5. NoRound \in RoundType
  <2>1. Zero \in [Agents -> Nat]  BY DEF Zero
  <2>2. QED  BY <2>1 DEF NoRound, Round, RoundType
<1>6. QED  BY <1>1, <1>2, <1>3, <1>4, <1>5

\* A job made of well-typed parts is well typed.
LEMMA JobIsTyped ==
  ASSUME NEW c \in Chats \cup {None}, NEW a \in Agents \cup {None},
         NEW f \in Agents \cup {None}, NEW r \in BOOLEAN
  PROVE  Job(c, a, f, r) \in JobType
BY DEF Job, JobType

\* A task at rest, or back in a loop, needs neither a conversation nor an agent.
LEMMA NoJobFits ==
  ASSUME NEW s \in {"idle", "next", "staff", "drain", "roster"}
  PROVE  Fits(s, NoJob)
BY DEF Fits, ChatSteps, AgentSteps, AutoSteps

\* A task that goes to a step its locals fit keeps the tasks typed.
LEMMA StepType ==
  ASSUME TasksOK, NEW p \in Procs, NEW s \in Steps, Step(p, s), Fits(s, job[p])
  PROVE  TasksOK'
BY DEF TasksOK, Step, Goto, locals

LEMMA StepWithType ==
  ASSUME TasksOK, NEW p \in Procs, NEW s \in Steps, NEW j \in JobType, StepWith(p, s, j), Fits(s, j)
  PROVE  TasksOK'
BY DEF TasksOK, StepWith, Goto, SetJob

LEMMA EndType ==
  ASSUME TasksOK, NEW p \in Procs, End(p)
  PROVE  TasksOK'
BY NoLocals, NoJobFits
   DEF TasksOK, End, Goto, SetJob, SetTrial, SetDrain, SetRequeue, SetRound, Steps

LEMMA AutoEndType ==
  ASSUME TasksOK, NEW p \in Procs, AutoEnd(p)
  PROVE  TasksOK'
BY NoLocals, NoJobFits, EndType DEF TasksOK, AutoEnd, Goto, SetJob, SetTrial, Steps

LEMMA ReturnType ==
  ASSUME TasksOK, NEW p \in Procs, Return(p)
  PROVE  TasksOK'
BY NoLocals, NoJobFits, EndType
   DEF TasksOK, Return, Goto, SetJob, SetTrial, SetDrain, SetRequeue, Steps

LEMMA InitType == Init => TypeOK
<1>1. Init => TasksOK
  BY NoLocals, NoJobFits DEF Init, TasksOK, Steps, AutoSteps
<1>2. Init => DataOK
  <2> SUFFICES ASSUME Init PROVE DataOK  OBVIOUS
  <2>1. /\ status \in [Chats -> {"open", "closed"}]
        /\ assignee \in [Chats -> Agents \cup {None}]
        /\ active \in [Agents -> Nat]
    BY DEF Init
  <2>2. /\ limit \in [Agents -> Limits] /\ hired \subseteq Agents
        /\ avail \in [Agents -> Availability]
        /\ present \in [Agents -> Presences]
    BY DEF Init, Availability, Presences
  <2>3. /\ lock \in BOOLEAN /\ calls \in Nat /\ faults \in Nat
        /\ draining \in [Servers -> BOOLEAN]
    BY DEF Init
  <2>4. drifted \subseteq excused /\ excused \subseteq Agents
    BY DEF Init
  <2>5. QED  BY <2>1, <2>2, <2>3, <2>4 DEF DataOK
<1>3. QED  BY <1>1, <1>2 DEF TypeOK

\* Data untouched by the steps that only move a task.
LEMMA SameData ==
  ASSUME DataOK, UNCHANGED <<db, active, env, draining, counters, history>>
  PROVE  DataOK'
BY DEF DataOK, db, env, counters, history

-----------------------------------------------------------------------------
(* Each action keeps the type invariant *)

\* What the type of a task says of its job.
LEMMA JobParts ==
  ASSUME TasksOK, NEW p \in Procs
  PROVE  /\ job[p] \in JobType
         /\ job[p].chat \in Chats \cup {None}
         /\ job[p].agent \in Agents \cup {None}
         /\ job[p].from \in Agents \cup {None}
         /\ Fits(pc[p], job[p])
BY DEF TasksOK, JobType

\* What a new job fits.
LEMMA JobFits ==
  ASSUME NEW s, NEW c, NEW a, NEW f, NEW r,
         s \in ChatSteps => c \in Chats,
         s \in AgentSteps => a \in Agents,
         s \in {"move_free", "close_free"} => f \in Agents
  PROVE  Fits(s, Job(c, a, f, r))
BY DEF Fits, Job

LEMMA MoveEndType ==
  ASSUME TasksOK, NEW p \in Procs, MoveEnd(p), job[p].chat \in Chats
  PROVE  TasksOK'
<1>1. CASE job[p].agent = None
  <2>1. Fits("read", Job(job[p].chat, None, None, FALSE))
    BY JobFits DEF ChatSteps, AgentSteps, AutoSteps
  <2>2. QED  BY <1>1, <2>1, JobIsTyped, StepWithType DEF MoveEnd, Steps
<1>2. CASE job[p].agent # None
  BY <1>2, EndType DEF MoveEnd
<1>3. QED  BY <1>1, <1>2

\* The job of a task that is about to read an agent's status.
LEMMA StatusJobType ==
  ASSUME TasksOK, NEW p \in Procs, NEW a \in Agents, StepWith(p, "status", Job(None, a, None, FALSE))
  PROVE  TasksOK'
<1>1. Fits("status", Job(None, a, None, FALSE))
  BY JobFits DEF ChatSteps, AgentSteps, AutoSteps
<1>2. QED
  BY <1>1, JobIsTyped, StepWithType DEF Steps

\* Adding one to a counter, or taking one off, keeps the counters natural.
LEMMA ReserveType ==
  ASSUME active \in [Agents -> Nat], NEW a \in Agents, Reserve(a)
  PROVE  active' \in [Agents -> Nat]
BY DEF Reserve

LEMMA ReleaseType ==
  ASSUME active \in [Agents -> Nat], NEW a \in Agents, ReleaseSlot(a)
  PROVE  active' \in [Agents -> Nat]
<1>1. \A n \in Nat : n > 0 => n - 1 \in Nat
  OBVIOUS
<1>2. QED  BY <1>1 DEF ReleaseSlot

\* Giving a conversation to an agent, or to nobody, keeps the assignees typed.
LEMMA SetAssigneeType ==
  ASSUME assignee \in [Chats -> Agents \cup {None}], NEW c, NEW a \in Agents \cup {None}, SetAssignee(c, a)
  PROVE  assignee' \in [Chats -> Agents \cup {None}] /\ status' = status
BY DEF SetAssignee

\* The conversations of an agent are a finite set.
LEMMA ChatsFinite == \A a : IsFiniteSet(ChatsOf(a))
BY FiniteAssumption, FS_Subset DEF ChatsOf

LEMMA AutoTypes ==
  ASSUME TypeOK, NEW p \in Procs,
         AutoRead(p) \/ Rank(p) \/ Pick(p) \/ AutoReserve(p) \/ AutoAssign(p) \/ AutoUndo(p)
  PROVE  TypeOK'
<1>0. TasksOK /\ DataOK  BY DEF TypeOK
<1>1. CASE AutoRead(p)
  <2>1. Fits("rank", job[p])
    BY <1>0, <1>1, JobParts DEF AutoRead, Fits, ChatSteps, AgentSteps, AutoSteps, Steps
  <2>2. TasksOK'
    BY <1>0, <1>1, <2>1, StepType, AutoEndType DEF AutoRead, Steps, AutoSteps
  <2>3. DataOK'
    BY <1>0, <1>1, SameData DEF AutoRead
  <2>4. QED  BY <2>2, <2>3 DEF TypeOK
<1>2. CASE Rank(p)
  <2>1. TasksOK'
    BY <1>0, <1>2 DEF Rank, TasksOK, DataOK, Goto, SetTrial, Trial, TrialType, Fits, ChatSteps, AgentSteps, AutoSteps, Steps
  <2>2. DataOK'
    BY <1>0, <1>2, SameData DEF Rank
  <2>3. QED  BY <2>1, <2>2 DEF TypeOK
<1>3. CASE Pick(p)
  <2>1. TasksOK'
    <3>1. CASE auto[p].cands = {}
      BY <1>0, <1>3, <3>1, ReturnType, EndType DEF Pick, DrainReturn
    <3>2. ASSUME NEW a \in auto[p].cands, Goto(p, "reserve"),
                 SetJob(p, Job(job[p].chat, a, None, FALSE)),
                 SetTrial(p, Trial(auto[p].cands \ {a}, limit[a])),
                 UNCHANGED <<drain, requeue, round, draining>>
          PROVE  TasksOK'
      <4>1. a \in Agents /\ auto[p].cands \subseteq Agents
        BY <1>0 DEF TasksOK, TrialType
      <4>2. Trial(auto[p].cands \ {a}, limit[a]) \in TrialType
        BY <1>0, <4>1 DEF DataOK, Trial, TrialType
      <4>3. job[p].chat \in Chats
        BY <1>0, <1>3, JobParts DEF Pick, Fits, ChatSteps, AutoSteps
      <4>4. Fits("reserve", Job(job[p].chat, a, None, FALSE))
        BY <4>1, <4>3, JobFits
      <4>5. Job(job[p].chat, a, None, FALSE) \in JobType
        BY <4>1, <4>3, JobIsTyped
      <4>6. QED
        BY <1>0, <3>2, <4>2, <4>4, <4>5 DEF TasksOK, Goto, SetJob, SetTrial, Steps, AutoSteps
    <3>3. QED  BY <1>3, <3>1, <3>2 DEF Pick
  <2>2. DataOK'
    BY <1>0, <1>3 DEF DataOK, Pick, DrainReturn, env, db, counters, history
  <2>3. QED  BY <2>1, <2>2 DEF TypeOK
<1>4. CASE AutoReserve(p)
  <2>1. Fits("assign", job[p])
    BY <1>0, <1>4, JobParts DEF AutoReserve, Fits, ChatSteps, AgentSteps, AutoSteps, Steps
  <2>2. job[p].chat \in Chats /\ job[p].agent \in Agents
    BY <1>0, <1>4, JobParts DEF AutoReserve, Fits, ChatSteps, AgentSteps, AutoSteps, Steps
  <2>3. Fits("pick", Job(job[p].chat, None, None, FALSE))
    BY <2>2, JobFits DEF AgentSteps, ChatSteps, AutoSteps
  <2>4. TasksOK'
    BY <1>0, <1>4, <2>1, <2>2, <2>3, StepType, StepWithType, JobIsTyped DEF AutoReserve, Steps, AutoSteps
  <2>5. DataOK'
    BY <1>0, <1>4, <2>1, <2>2, <2>3, ReserveType DEF DataOK, AutoReserve, env, db, counters, history
  <2>6. QED  BY <2>4, <2>5 DEF TypeOK
<1>5. CASE AutoAssign(p)
  <2>1. Fits("undo", job[p])
    BY <1>0, <1>5, JobParts DEF AutoAssign, Fits, ChatSteps, AgentSteps, AutoSteps, Steps
  <2>2. TasksOK'
    BY <1>0, <1>5, <2>1, StepType, AutoEndType DEF AutoAssign, Steps, AutoSteps
  <2>3. DataOK'
    BY <1>0, <1>5, JobParts, SetAssigneeType DEF DataOK, AutoAssign, env, db, counters, history
  <2>4. QED  BY <2>2, <2>3 DEF TypeOK
<1>6. CASE AutoUndo(p)
  <2>1. job[p].agent \in Agents
    BY <1>0, <1>6, JobParts DEF AutoUndo, Fits, ChatSteps, AgentSteps, AutoSteps, Steps
  <2>2. TasksOK'
    BY <1>0, <1>6, AutoEndType DEF AutoUndo
  <2>3. DataOK'
    BY <1>0, <1>6, <2>1, ReleaseType DEF DataOK, AutoUndo, env, db, counters, history
  <2>4. QED  BY <2>2, <2>3 DEF TypeOK
<1>7. QED  BY <1>1, <1>2, <1>3, <1>4, <1>5, <1>6

LEMMA DrainTypes ==
  ASSUME TypeOK, NEW p \in Procs,
         Drain(p) \/ DrainNext(p)
  PROVE  TypeOK'
<1>0. TasksOK /\ DataOK  BY DEF TypeOK
<1>1. CASE Drain(p)
  <2>1. TasksOK'
    <3>1. CASE draining[ServerOf[p]]
      BY <1>0, <1>1, <3>1, ReturnType DEF Drain
    <3>2. CASE ~draining[ServerOf[p]]
      <4>1. Queue(TRUE, Waiting) \in QueueType
        BY DEF Queue, QueueType, Waiting, ChatsOf
      <4>2. /\ Goto(p, "next") /\ SetDrain(p, Queue(TRUE, Waiting)) /\ SetJob(p, NoJob)
            /\ SetRequeue(p, NoPairs) /\ UNCHANGED <<auto, round>>
        BY <1>1, <3>2 DEF Drain
      <4>3. QED
        BY <1>0, <4>1, <4>2, NoLocals, NoJobFits DEF TasksOK, Goto, SetJob, SetDrain, SetRequeue, Steps
    <3>3. QED  BY <3>1, <3>2
  <2>2. DataOK'
    BY <1>0, <1>1 DEF DataOK, Drain, env, db, counters, history
  <2>3. QED  BY <2>1, <2>2 DEF TypeOK
<1>2. CASE DrainNext(p)
  <2>1. TasksOK'
    <3>1. CASE drain[p].queue = {}
      BY <1>0, <1>2, <3>1, ReturnType DEF DrainNext, DrainReturn
    <3>2. ASSUME NEW c \in drain[p].queue, Goto(p, "read"),
                 SetJob(p, Job(c, None, None, FALSE)),
                 SetDrain(p, Queue(TRUE, drain[p].queue \ {c})),
                 UNCHANGED <<auto, requeue, round, draining>>
          PROVE  TasksOK'
      <4>1. c \in Chats /\ drain[p].queue \subseteq Chats
        BY <1>0 DEF TasksOK, QueueType
      <4>2. Queue(TRUE, drain[p].queue \ {c}) \in QueueType
        BY <4>1 DEF Queue, QueueType
      <4>3. Fits("read", Job(c, None, None, FALSE))
        BY <4>1, JobFits DEF AgentSteps
      <4>4. Job(c, None, None, FALSE) \in JobType
        BY <4>1, JobIsTyped
      <4>5. QED
        BY <1>0, <3>2, <4>2, <4>3, <4>4 DEF TasksOK, Goto, SetJob, SetDrain, Steps
    <3>3. QED  BY <1>2, <3>1, <3>2 DEF DrainNext
  <2>2. DataOK'
    BY <1>0, <1>2 DEF DataOK, DrainNext, DrainReturn, env, db, counters, history
  <2>3. QED  BY <2>1, <2>2 DEF TypeOK
<1>3. QED  BY <1>1, <1>2

LEMMA ClaimTypes ==
  ASSUME TypeOK, NEW p \in Procs,
         ReplyRead(p) \/ ClaimRead(p) \/ ClaimReserve(p) \/ ClaimAssign(p) \/ GiveBack(p) \/ SaveReply(p)
  PROVE  TypeOK'
<1>0. TasksOK /\ DataOK  BY DEF TypeOK
<1>1. CASE ReplyRead(p)
  <2>1. Fits("save", job[p])
    BY <1>0, <1>1, JobParts DEF ReplyRead, Fits, ChatSteps, AgentSteps, AutoSteps, Steps
  <2>2. Fits("claim_read", job[p])
    BY <1>0, <1>1, JobParts DEF ReplyRead, Fits, ChatSteps, AgentSteps, AutoSteps, Steps
  <2>3. TasksOK'
    BY <1>0, <1>1, <2>1, <2>2, StepType, EndType DEF ReplyRead, Steps
  <2>4. DataOK'
    BY <1>0, <1>1, SameData DEF ReplyRead
  <2>5. QED  BY <2>3, <2>4 DEF TypeOK
<1>2. CASE ClaimRead(p)
  <2>1. Fits("save", job[p])
    BY <1>0, <1>2, JobParts DEF ClaimRead, Fits, ChatSteps, AgentSteps, AutoSteps, Steps
  <2>2. Fits("claim_reserve", job[p])
    BY <1>0, <1>2, JobParts DEF ClaimRead, Fits, ChatSteps, AgentSteps, AutoSteps, Steps
  <2>3. TasksOK'
    BY <1>0, <1>2, <2>1, <2>2, StepType, EndType DEF ClaimRead, Steps
  <2>4. DataOK'
    BY <1>0, <1>2, SameData DEF ClaimRead
  <2>5. QED  BY <2>3, <2>4 DEF TypeOK
<1>3. CASE ClaimReserve(p)
  <2>1. job[p].agent \in Agents
    BY <1>0, <1>3, JobParts DEF ClaimReserve, Fits, ChatSteps, AgentSteps, AutoSteps, Steps
  <2>2. Fits("claim_assign", job[p])
    BY <1>0, <1>3, JobParts DEF ClaimReserve, Fits, ChatSteps, AgentSteps, AutoSteps, Steps
  <2>3. TasksOK'
    BY <1>0, <1>3, <2>1, <2>2, StepType DEF ClaimReserve, Steps
  <2>4. DataOK'
    BY <1>0, <1>3, <2>1, <2>2, ReserveType DEF DataOK, ClaimReserve, Excuse, env, db, counters
  <2>5. QED  BY <2>3, <2>4 DEF TypeOK
<1>4. CASE ClaimAssign(p)
  <2>1. Fits("save", job[p])
    BY <1>0, <1>4, JobParts DEF ClaimAssign, Fits, ChatSteps, AgentSteps, AutoSteps, Steps
  <2>2. Fits("give_back", job[p])
    BY <1>0, <1>4, JobParts DEF ClaimAssign, Fits, ChatSteps, AgentSteps, AutoSteps, Steps
  <2>3. TasksOK'
    BY <1>0, <1>4, <2>1, <2>2, StepType, EndType DEF ClaimAssign, Steps
  <2>4. DataOK'
    BY <1>0, <1>4, JobParts, SetAssigneeType DEF DataOK, ClaimAssign, env, db, counters, history
  <2>5. QED  BY <2>3, <2>4 DEF TypeOK
<1>5. CASE GiveBack(p)
  <2>1. job[p].agent \in Agents
    BY <1>0, <1>5, JobParts DEF GiveBack, Fits, ChatSteps, AgentSteps, AutoSteps, Steps
  <2>2. TasksOK'
    BY <1>0, <1>5, EndType DEF GiveBack
  <2>3. DataOK'
    BY <1>0, <1>5, <2>1, ReleaseType DEF DataOK, GiveBack, env, db, counters, history
  <2>4. QED  BY <2>2, <2>3 DEF TypeOK
<1>6. CASE SaveReply(p)
  <2>1. TasksOK'
    BY <1>0, <1>6, EndType DEF SaveReply
  <2>2. DataOK'
    BY <1>0, <1>6, SameData DEF SaveReply
  <2>3. QED  BY <2>1, <2>2 DEF TypeOK
<1>7. QED  BY <1>1, <1>2, <1>3, <1>4, <1>5, <1>6

LEMMA MoveTypes ==
  ASSUME TypeOK, NEW p \in Procs,
         MoveCheck(p) \/ MoveReserve(p) \/ Move(p) \/ MoveFree(p) \/ CloseWrite(p) \/ CloseFree(p)
  PROVE  TypeOK'
<1>0. TasksOK /\ DataOK  BY DEF TypeOK
<1>1. CASE MoveCheck(p)
  <2>1. Fits("move_reserve", job[p])
    BY <1>0, <1>1, JobParts DEF MoveCheck, Fits, ChatSteps, AgentSteps, AutoSteps, Steps
  <2>2. TasksOK'
    BY <1>0, <1>1, <2>1, StepType, EndType DEF MoveCheck, Steps
  <2>3. DataOK'
    BY <1>0, <1>1, SameData DEF MoveCheck
  <2>4. QED  BY <2>2, <2>3 DEF TypeOK
<1>2. CASE MoveReserve(p)
  <2>1. job[p].agent \in Agents
    BY <1>0, <1>2, JobParts DEF MoveReserve, Fits, ChatSteps, AgentSteps, AutoSteps, Steps
  <2>2. Fits("move", job[p])
    BY <1>0, <1>2, JobParts DEF MoveReserve, Fits, ChatSteps, AgentSteps, AutoSteps, Steps
  <2>3. TasksOK'
    BY <1>0, <1>2, <2>1, <2>2, StepType DEF MoveReserve, Steps
  <2>4. DataOK'
    BY <1>0, <1>2, <2>1, <2>2, ReserveType DEF DataOK, MoveReserve, Excuse, env, db, counters
  <2>5. QED  BY <2>3, <2>4 DEF TypeOK
<1>3. CASE Move(p)
  <2>1. job[p].chat \in Chats
    BY <1>0, <1>3, JobParts DEF Move, Fits, ChatSteps, AgentSteps, AutoSteps, Steps
  <2>2. job[p].from # None => Fits("move_free", job[p])
    BY <1>0, <1>3, JobParts DEF Move, Fits, ChatSteps, AgentSteps, AutoSteps, Steps
  <2>3. job[p].agent # None => Fits("give_back", job[p])
    BY <1>0, <1>3, JobParts DEF Move, Fits, ChatSteps, AgentSteps, AutoSteps, Steps
  <2>4. TasksOK'
    BY <1>0, <1>3, <2>1, <2>2, <2>3, StepType, EndType, MoveEndType DEF Move, Steps
  <2>5. DataOK'
    BY <1>0, <1>3, JobParts, SetAssigneeType DEF DataOK, Move, env, db, counters, history
  <2>6. QED  BY <2>4, <2>5 DEF TypeOK
<1>4. CASE MoveFree(p)
  <2>1. job[p].chat \in Chats
    BY <1>0, <1>4, JobParts DEF MoveFree, Fits, ChatSteps, AgentSteps, AutoSteps, Steps
  <2>2. job[p].from \in Agents
    BY <1>0, <1>4, JobParts DEF MoveFree, Fits, ChatSteps, AgentSteps, AutoSteps, Steps
  <2>3. TasksOK'
    BY <1>0, <1>4, <2>1, <2>2, MoveEndType DEF MoveFree
  <2>4. DataOK'
    BY <1>0, <1>4, <2>1, <2>2, ReleaseType DEF DataOK, MoveFree, env, db, counters, history
  <2>5. QED  BY <2>3, <2>4 DEF TypeOK
<1>5. CASE CloseWrite(p)
  <2>1. Fits("drain", job[p])
    BY DEF Fits, ChatSteps, AgentSteps, AutoSteps
  <2>2. job[p].from # None => Fits("close_free", job[p])
    BY <1>0, <1>5, JobParts DEF Fits, ChatSteps, AgentSteps, AutoSteps, Steps
  <2>3. TasksOK'
    BY <1>0, <1>5, <2>1, <2>2, StepType, EndType DEF CloseWrite, Steps
  <2>4. DataOK'
    <3>1. CASE status[job[p].chat] = "open"
      <4> DEFINE S == IF assignee[job[p].chat] = job[p].from THEN {}
                      ELSE {assignee[job[p].chat], job[p].from} \ {None}
      <4>1. job[p].chat \in Chats
        BY <1>0, <1>5, JobParts DEF CloseWrite, Fits, ChatSteps
      <4>2. S \subseteq Agents
        BY <1>0, <4>1, JobParts DEF DataOK
      <4>3. drifted' = drifted \cup S /\ excused' = excused \cup S
        BY <1>5, <3>1 DEF CloseWrite, Drift
      <4> HIDE DEF S
      <4>4. drifted' \subseteq excused' /\ excused' \subseteq Agents
        BY <1>0, <4>2, <4>3 DEF DataOK
      <4>5. /\ status' \in [Chats -> {"open", "closed"}]
            /\ assignee' \in [Chats -> Agents \cup {None}]
        BY <1>0, <1>5, <3>1 DEF DataOK, CloseWrite
      <4>6. QED
        BY <1>0, <1>5, <4>4, <4>5 DEF DataOK, CloseWrite, env, counters
    <3>2. CASE status[job[p].chat] # "open"
      BY <1>0, <1>5, <3>2, SameData DEF CloseWrite
    <3>3. QED  BY <3>1, <3>2
  <2>5. QED  BY <2>3, <2>4 DEF TypeOK
<1>6. CASE CloseFree(p)
  <2>1. job[p].from \in Agents
    BY <1>0, <1>6, JobParts DEF CloseFree, Fits, ChatSteps, AgentSteps, AutoSteps, Steps
  <2>2. TasksOK'
    BY <1>0, <1>6, NoJobFits, StepWithType, NoLocals DEF CloseFree, Steps
  <2>3. DataOK'
    BY <1>0, <1>6, <2>1, ReleaseType DEF DataOK, CloseFree, env, db, counters, history
  <2>4. QED  BY <2>2, <2>3 DEF TypeOK
<1>7. QED  BY <1>1, <1>2, <1>3, <1>4, <1>5, <1>6

LEMMA RequeueTypes ==
  ASSUME TypeOK, NEW p \in Procs,
         Status(p) \/ Offline(p) \/ Requeue(p) \/ RequeueNext(p) \/ RequeueFree(p)
  PROVE  TypeOK'
<1>0. TasksOK /\ DataOK  BY DEF TypeOK
<1>1. CASE Offline(p)
  <2>1. Fits("requeue", job[p])
    BY <1>0, <1>1, JobParts DEF Offline, Fits, ChatSteps, AgentSteps, AutoSteps, Steps
  <2>2. TasksOK'
    BY <1>0, <1>1, <2>1, StepType, EndType DEF Offline, Steps
  <2>3. DataOK'
    BY <1>0, <1>1, SameData DEF Offline
  <2>4. QED  BY <2>2, <2>3 DEF TypeOK
<1>5. CASE Status(p)
  <2>1. Fits("offline", job[p])
    BY <1>0, <1>5, JobParts DEF Status, Fits, ChatSteps, AgentSteps, AutoSteps, Steps
  <2>2. Fits("drain", NoJob)
    BY NoJobFits
  <2>3. TasksOK'
    BY <1>0, <1>5, <2>1, <2>2, NoLocals, StepType, StepWithType, EndType DEF Status, Steps
  <2>4. DataOK'
    BY <1>0, <1>5, SameData DEF Status
  <2>5. QED  BY <2>3, <2>4 DEF TypeOK
<1>2. CASE Requeue(p)
  <2>1. TasksOK'
    <3>1. job[p].agent \in Agents
      BY <1>0, <1>2, JobParts DEF Requeue, Fits, AgentSteps
    <3>2. Pairs(ChatsOf(job[p].agent) \X {job[p].agent}, FALSE) \in PairsType
      BY <3>1 DEF Pairs, PairsType, ChatsOf
    <3>3. Fits("requeue_next", job[p])
      BY <3>1 DEF Fits, ChatSteps, AgentSteps, AutoSteps
    <3>4. QED
      BY <1>0, <1>2, <3>2, <3>3 DEF Requeue, TasksOK, Goto, SetRequeue, Steps
  <2>2. DataOK'
    BY <1>0, <1>2, SameData DEF Requeue
  <2>3. QED  BY <2>1, <2>2 DEF TypeOK
<1>3. CASE RequeueNext(p)
  <2>1. TasksOK'
    <3>1. CASE requeue[p].todo = {} /\ requeue[p].moved
      <4>1. Fits("drain", job[p])
        BY DEF Fits, ChatSteps, AgentSteps, AutoSteps
      <4>2. QED  BY <1>0, <1>3, <3>1, <4>1, StepType DEF RequeueNext, Steps
    <3>2. CASE requeue[p].todo = {} /\ ~requeue[p].moved
      BY <1>0, <1>3, <3>2, ReturnType DEF RequeueNext
    <3>3. ASSUME NEW w \in requeue[p].todo, NEW s \in {"requeue_next", "requeue_free"},
                 NEW m \in BOOLEAN, pc' = [pc EXCEPT ![p] = s],
                 SetRequeue(p, Pairs(requeue[p].todo \ {w}, m)),
                 UNCHANGED <<job, auto, drain, round>>
          PROVE  TasksOK'
      <4>1. Pairs(requeue[p].todo \ {w}, m) \in PairsType
        BY <1>0 DEF TasksOK, Pairs, PairsType
      <4>2. Fits(s, job[p])
        BY <1>0, <1>3, JobParts DEF RequeueNext, Fits, ChatSteps, AgentSteps, AutoSteps
      <4>3. QED
        BY <1>0, <3>3, <4>1, <4>2 DEF TasksOK, SetRequeue, Steps
    <3>4. requeue[p].moved \in BOOLEAN /\ pc = [pc EXCEPT ![p] = "requeue_next"]
      BY <1>0, <1>3 DEF RequeueNext, TasksOK, PairsType
    <3>5. ASSUME NEW w \in requeue[p].todo,
                 IF HeldBy(w[1], w[2])
                   THEN /\ SetAssignee(w[1], None)
                        /\ Goto(p, "requeue_free")
                        /\ SetRequeue(p, Pairs(requeue[p].todo \ {w}, TRUE))
                   ELSE /\ UNCHANGED <<db, pc>>
                        /\ SetRequeue(p, Pairs(requeue[p].todo \ {w}, requeue[p].moved)),
                 UNCHANGED <<job, auto, drain, round>>
          PROVE  TasksOK'
      BY <3>3, <3>4, <3>5 DEF Goto
    <3>6. QED  BY <1>3, <3>1, <3>2, <3>5, <3>4 DEF RequeueNext
  <2>2. DataOK'
    BY <1>0, <1>3, SetAssigneeType DEF DataOK, RequeueNext, env, db, counters, history
  <2>3. QED  BY <2>1, <2>2 DEF TypeOK
<1>4. CASE RequeueFree(p)
  <2>1. job[p].agent \in Agents
    BY <1>0, <1>4, JobParts DEF RequeueFree, Fits, ChatSteps, AgentSteps, AutoSteps, Steps
  <2>2. Fits("requeue_next", job[p])
    BY <1>0, <1>4, JobParts DEF RequeueFree, Fits, ChatSteps, AgentSteps, AutoSteps, Steps
  <2>3. TasksOK'
    BY <1>0, <1>4, <2>1, <2>2, StepType DEF RequeueFree, Steps
  <2>4. DataOK'
    BY <1>0, <1>4, <2>1, <2>2, ReleaseType DEF DataOK, RequeueFree, env, db, counters, history
  <2>5. QED  BY <2>3, <2>4 DEF TypeOK
<1>6. QED  BY <1>1, <1>2, <1>3, <1>4, <1>5

LEMMA RebalanceTypes ==
  ASSUME TypeOK, NEW p \in Procs,
         Roster(p) \/ Count(p) \/ Sync(p) \/ Snapshot(p) \/ NextStaff(p) \/ Orphans(p)
  PROVE  TypeOK'
<1>0. TasksOK /\ DataOK  BY DEF TypeOK
<1>1. CASE Roster(p)
  <2>1. TasksOK'
    <3>1. Round(FALSE, hired, {a \in hired : avail[a] = "offline"}, {}, Zero) \in RoundType
      BY <1>0 DEF DataOK, Round, RoundType, Zero
    <3>2. Fits("count", job[p])
      BY DEF Fits, ChatSteps, AgentSteps, AutoSteps
    <3>3. QED
      BY <1>0, <1>1, <3>1, <3>2 DEF Roster, TasksOK, Goto, SetRound, Steps
  <2>2. DataOK'
    BY <1>0, <1>1, SameData DEF Roster
  <2>3. QED  BY <2>1, <2>2 DEF TypeOK
<1>2. CASE Count(p)
  <2>1. TasksOK'
    <3> DEFINE n == [a \in Agents |-> IF a \in round[p].roster THEN Cardinality(ChatsOf(a)) ELSE 0]
    <3>1. \A a \in Agents : Cardinality(ChatsOf(a)) \in Nat
      BY ChatsFinite, FS_CardinalityType
    <3>2. n \in [Agents -> Nat]
      BY <3>1
    <3> HIDE DEF n
    <3>3. Round(FALSE, round[p].roster, round[p].off, round[p].roster, n) \in RoundType
      BY <1>0, <3>2 DEF TasksOK, Round, RoundType
    <3>4. \A s \in {"presence", "sync"} : Fits(s, job[p])
      BY DEF Fits, ChatSteps, AgentSteps, AutoSteps
    <3>5. QED
      BY <1>0, <1>2, <3>3, <3>4 DEF Count, TasksOK, Goto, SetRound, Steps, n
  <2>2. DataOK'
    BY <1>0, <1>2, SameData DEF Count
  <2>3. QED  BY <2>1, <2>2 DEF TypeOK
<1>3. CASE Sync(p)
  <2>1. TasksOK'
    <3>1. PICK a \in round[p].staff :
            /\ Goto(p, IF round[p].staff = {a} THEN "presence" ELSE "sync")
            /\ SetRound(p, Round(FALSE, round[p].roster, round[p].off, round[p].staff \ {a}, round[p].counts))
      BY <1>3 DEF Sync
    <3>2. Round(FALSE, round[p].roster, round[p].off, round[p].staff \ {a}, round[p].counts) \in RoundType
      BY <1>0 DEF TasksOK, Round, RoundType
    <3>3. \A s \in {"presence", "sync"} : Fits(s, job[p])
      BY DEF Fits, ChatSteps, AgentSteps, AutoSteps
    <3>4. QED
      BY <1>0, <1>3, <3>1, <3>2, <3>3 DEF Sync, TasksOK, Goto, SetRound, Steps
  <2>2. DataOK'
    <3>1. PICK a \in round[p].staff :
            /\ active' = [active EXCEPT ![a] = round[p].counts[a]]
            /\ \/ drifted' = drifted \ {a} /\ UNCHANGED excused
               \/ Drift({a})
      BY <1>3 DEF Sync
    <3>2. a \in Agents /\ round[p].counts \in [Agents -> Nat]
      BY <1>0 DEF TasksOK, RoundType
    <3>3. active' \in [Agents -> Nat]
      BY <1>0, <3>1, <3>2 DEF DataOK
    <3>4. drifted' \subseteq excused' /\ excused' \subseteq Agents
      BY <1>0, <3>1, <3>2 DEF DataOK, Drift
    <3>5. QED
      BY <1>0, <1>3, <3>3, <3>4 DEF DataOK, Sync, env, db, counters
  <2>3. QED  BY <2>1, <2>2 DEF TypeOK
<1>4. CASE Snapshot(p)
  <2>1. TasksOK'
    <3> DEFINE S == round[p].off \cup {a \in round[p].roster : present[a] = "gone"}
    <3>1. Round(TRUE, round[p].roster, {}, S, Zero) \in RoundType
      BY <1>0 DEF TasksOK, Round, RoundType, Zero
    <3>2. Fits("staff", job[p])
      BY DEF Fits, ChatSteps, AgentSteps, AutoSteps
    <3>3. QED
      BY <1>0, <1>4, <3>1, <3>2 DEF Snapshot, TasksOK, Goto, SetRound, Steps
  <2>2. DataOK'
    BY <1>0, <1>4, SameData DEF Snapshot
  <2>3. QED  BY <2>1, <2>2 DEF TypeOK
<1>5. CASE NextStaff(p)
  <2>1. TasksOK'
    <3>1. CASE round[p].staff = {}
      <4> DEFINE W == {w \in Chats \X (Agents \ round[p].roster) : HeldBy(w[1], w[2])}
      <4>1. Pairs(W, FALSE) \in PairsType
        BY DEF Pairs, PairsType
      <4>2. Fits("orphans", job[p])
        BY DEF Fits, ChatSteps, AgentSteps, AutoSteps
      <4>3. /\ Goto(p, "orphans") /\ SetRequeue(p, Pairs(W, FALSE)) /\ SetRound(p, NoRound)
            /\ UNCHANGED <<job, auto, drain>>
        BY <1>5, <3>1 DEF NextStaff
      <4> HIDE DEF W
      <4>4. QED
        BY <1>0, <4>1, <4>2, <4>3, NoLocals DEF TasksOK, Goto, SetRequeue, SetRound, Steps
    <3>2. ASSUME NEW a \in round[p].staff, Goto(p, "requeue_next"),
                 SetJob(p, Job(None, a, None, FALSE)),
                 SetRequeue(p, Pairs(ChatsOf(a) \X {a}, FALSE)),
                 SetRound(p, Round(TRUE, round[p].roster, {}, round[p].staff \ {a}, Zero)),
                 UNCHANGED <<auto, drain>>
          PROVE  TasksOK'
      <4>1. a \in Agents
        BY <1>0 DEF TasksOK, RoundType
      <4>2. Pairs(ChatsOf(a) \X {a}, FALSE) \in PairsType
        BY <4>1 DEF Pairs, PairsType, ChatsOf
      <4>3. Round(TRUE, round[p].roster, {}, round[p].staff \ {a}, Zero) \in RoundType
        BY <1>0 DEF TasksOK, Round, RoundType, Zero
      <4>4. Fits("requeue_next", Job(None, a, None, FALSE))
        BY <4>1, JobFits DEF ChatSteps, AutoSteps
      <4>5. Job(None, a, None, FALSE) \in JobType
        BY <4>1, JobIsTyped
      <4>6. QED
        BY <1>0, <3>2, <4>2, <4>3, <4>4, <4>5
           DEF TasksOK, Goto, SetJob, SetRequeue, SetRound, Steps
    <3>3. QED  BY <1>5, <3>1, <3>2 DEF NextStaff
  <2>2. DataOK'
    BY <1>0, <1>5, SameData DEF NextStaff
  <2>3. QED  BY <2>1, <2>2 DEF TypeOK
<1>6. CASE Orphans(p)
  <2>1. TasksOK'
    <3>1. Fits("drain", job[p])
      BY DEF Fits, ChatSteps, AgentSteps, AutoSteps
    <3>2. CASE requeue[p].todo = {}
      BY <1>0, <1>6, <3>1, <3>2 DEF Orphans, TasksOK, Goto, Steps
    <3>3. ASSUME NEW w \in requeue[p].todo, SetRequeue(p, Pairs(requeue[p].todo \ {w}, FALSE)),
                 UNCHANGED <<pc, job, auto, drain, round>>
          PROVE  TasksOK'
      <4>1. Pairs(requeue[p].todo \ {w}, FALSE) \in PairsType
        BY <1>0 DEF TasksOK, Pairs, PairsType
      <4>2. QED  BY <1>0, <3>3, <4>1 DEF TasksOK, SetRequeue
    <3>4. QED  BY <1>6, <3>2, <3>3 DEF Orphans
  <2>2. DataOK'
    <3>1. CASE UNCHANGED <<db, history>>
      BY <1>0, <1>6, <3>1, SameData DEF Orphans
    <3>2. ASSUME NEW w \in requeue[p].todo, SetAssignee(w[1], None), Drift({w[2]})
          PROVE  DataOK'
      <4>1. w \in Chats \X Agents
        BY <1>0 DEF TasksOK, PairsType
      <4>2. drifted' \subseteq excused' /\ excused' \subseteq Agents
        BY <1>0, <3>2, <4>1 DEF DataOK, Drift
      <4>3. assignee' \in [Chats -> Agents \cup {None}] /\ status' = status
        BY <1>0, <3>2, SetAssigneeType DEF DataOK
      <4>4. QED
        BY <1>0, <1>6, <4>2, <4>3 DEF DataOK, Orphans, env, counters
    <3>3. QED  BY <1>6, <3>1, <3>2 DEF Orphans
  <2>3. QED  BY <2>1, <2>2 DEF TypeOK
<1>7. QED  BY <1>1, <1>2, <1>3, <1>4, <1>5, <1>6

LEMMA RequestTypes ==
  ASSUME TypeOK, NEW p \in Procs, Request(p)
  PROVE  TypeOK'
<1>0. TasksOK /\ DataOK  BY DEF TypeOK
<1>1. ASSUME NEW c \in Chats, Message(p, c)
      PROVE  TypeOK'
  <2>1. Fits("read", Job(c, None, None, FALSE))
    BY JobFits DEF AgentSteps
  <2>2. TasksOK'
    BY <1>0, <1>1, <2>1, JobIsTyped, StepWithType DEF Message, Steps
  <2>3. DataOK'
    BY <1>0, <1>1 DEF DataOK, Message, Call, ReopenIfClosed, env, history
  <2>4. QED  BY <2>2, <2>3 DEF TypeOK
<1>2. ASSUME NEW c \in Chats, Close(p, c)
      PROVE  TypeOK'
  <2>1. Fits("close", Job(c, None, assignee[c], FALSE))
    BY JobFits DEF AgentSteps
  <2>2. TasksOK'
    BY <1>0, <1>2, <2>1, JobIsTyped, StepWithType DEF Close, Steps, DataOK
  <2>3. DataOK'
    BY <1>0, <1>2 DEF DataOK, Close, Call, db, env, history
  <2>4. QED  BY <2>2, <2>3 DEF TypeOK
<1>3. ASSUME NEW c \in Chats, NEW a \in Agents, Claim(p, c, a)
      PROVE  TypeOK'
  <2>1. Fits("claim_reserve", Job(c, a, None, FALSE))
    BY JobFits
  <2>2. TasksOK'
    BY <1>0, <1>3, <2>1, JobIsTyped, StepWithType DEF Claim, Steps
  <2>3. DataOK'
    BY <1>0, <1>3 DEF DataOK, Claim, Call, db, env, history
  <2>4. QED  BY <2>2, <2>3 DEF TypeOK
<1>4. ASSUME NEW c \in Chats, NEW a \in Agents, Reply(p, c, a)
      PROVE  TypeOK'
  <2>1. Fits("reply_read", Job(c, a, None, TRUE))
    BY JobFits
  <2>2. TasksOK'
    BY <1>0, <1>4, <2>1, JobIsTyped, StepWithType DEF Reply, Steps
  <2>3. DataOK'
    BY <1>0, <1>4 DEF DataOK, Reply, Call, ReopenIfClosed, env, history
  <2>4. QED  BY <2>2, <2>3 DEF TypeOK
<1>5. ASSUME NEW c \in Chats, NEW to \in Agents \cup {None}, Transfer(p, c, to)
      PROVE  TypeOK'
  <2> DEFINE j == Job(c, to, assignee[c], FALSE)
  <2>1. Fits("move", j) /\ (to # None => Fits("move_check", j))
    BY JobFits DEF AgentSteps
  <2>2. j \in JobType
    BY <1>0, JobIsTyped DEF DataOK
  <2> HIDE DEF j
  <2>3. TasksOK'
    BY <1>0, <1>5, <2>1, <2>2, StepWithType DEF Transfer, Steps, j
  <2>4. DataOK'
    BY <1>0, <1>5 DEF DataOK, Transfer, Call, db, env, history
  <2>5. QED  BY <2>3, <2>4 DEF TypeOK
<1>6. ASSUME NEW a \in Agents, NEW v \in Availability, SetAvailability(p, a, v)
      PROVE  TypeOK'
  <2>1. TasksOK'
    BY <1>0, <1>6, StatusJobType DEF SetAvailability
  <2>2. DataOK'
    BY <1>0, <1>6 DEF DataOK, SetAvailability, Call, db, history
  <2>3. QED  BY <2>1, <2>2 DEF TypeOK
<1>7. ASSUME NEW a \in Agents, NEW n \in Limits, SetLimit(p, a, n)
      PROVE  TypeOK'
  <2>1. TasksOK'
    BY <1>0, <1>7, StatusJobType DEF SetLimit
  <2>2. DataOK'
    BY <1>0, <1>7 DEF DataOK, SetLimit, Excuse, Call, db
  <2>3. QED  BY <2>1, <2>2 DEF TypeOK
<1>8. ASSUME NEW a \in Agents, NEW pres \in {"here", "away"}, PresenceChange(p, a, pres)
      PROVE  TypeOK'
  <2>1. TasksOK'
    BY <1>0, <1>8, StatusJobType DEF PresenceChange
  <2>2. DataOK'
    BY <1>0, <1>8 DEF DataOK, PresenceChange, Call, db, history, Presences
  <2>3. QED  BY <2>1, <2>2 DEF TypeOK
<1>9. QED
  BY <1>1, <1>2, <1>3, <1>4, <1>5, <1>6, <1>7, <1>8 DEF Request

\* What a failure does to the history keeps it typed.
LEMMA SlotLostType ==
  ASSUME drifted \subseteq excused, excused \subseteq Agents, NEW p, SlotLost(p)
  PROVE  drifted' \subseteq excused' /\ excused' \subseteq Agents
BY DEF SlotLost, Drift

LEMMA OtherTypes ==
  ASSUME TypeOK,
         \/ \E p \in Procs : Rebalance(p) \/ Abort(p) \/ DrainFails(p)
         \/ \E a \in Agents : Elapse(a) \/ SetRole(a)
         \/ LockExpires
  PROVE  TypeOK'
<1>0. TasksOK /\ DataOK  BY DEF TypeOK
<1>1. ASSUME NEW p \in Procs, Rebalance(p)
      PROVE  TypeOK'
  <2>1. Fits("roster", job[p])
    BY DEF Fits, ChatSteps, AgentSteps, AutoSteps
  <2>2. TasksOK'
    BY <1>0, <1>1, <2>1, StepType DEF Rebalance, Steps
  <2>3. DataOK'
    BY <1>0, <1>1 DEF DataOK, Rebalance, db, counters, history
  <2>4. QED  BY <2>2, <2>3 DEF TypeOK
<1>2. ASSUME NEW p \in Procs, Abort(p)
      PROVE  TypeOK'
  <2>1. TasksOK'
    BY <1>0, <1>2, EndType DEF Abort
  <2>2. DataOK'
    <3>1. drifted' \subseteq excused' /\ excused' \subseteq Agents
      BY <1>0, <1>2, SlotLostType DEF DataOK, Abort
    <3>2. draining' \in [Servers -> BOOLEAN]
      BY <1>0, <1>2 DEF DataOK, Abort
    <3>3. QED
      BY <1>0, <1>2, <3>1, <3>2 DEF DataOK, Abort, Fault, db, env
  <2>3. QED  BY <2>1, <2>2 DEF TypeOK
<1>3. ASSUME NEW p \in Procs, DrainFails(p)
      PROVE  TypeOK'
  <2>1. TasksOK'
    BY <1>0, <1>3, ReturnType DEF DrainFails, DrainReturn
  <2>2. DataOK'
    BY <1>0, <1>3, SlotLostType DEF DataOK, DrainFails, DrainReturn, Fault, db, env
  <2>3. QED  BY <2>1, <2>2 DEF TypeOK
<1>4. ASSUME NEW a \in Agents, Elapse(a)
      PROVE  TypeOK'
  <2>1. TasksOK'
    BY <1>0, <1>4 DEF TasksOK, Elapse, locals
  <2>2. DataOK'
    BY <1>0, <1>4 DEF DataOK, Elapse, db, counters, history, Presences
  <2>3. QED  BY <2>1, <2>2 DEF TypeOK
<1>5. ASSUME NEW a \in Agents, SetRole(a)
      PROVE  TypeOK'
  <2>1. TasksOK'
    BY <1>0, <1>5 DEF TasksOK, SetRole, locals
  <2>2. DataOK'
    BY <1>0, <1>5 DEF DataOK, SetRole, db, history
  <2>3. QED  BY <2>1, <2>2 DEF TypeOK
<1>6. CASE LockExpires
  <2>1. TasksOK'
    BY <1>0, <1>6 DEF TasksOK, LockExpires, locals
  <2>2. DataOK'
    BY <1>0, <1>6 DEF DataOK, LockExpires, db, counters, history
  <2>3. QED  BY <2>1, <2>2 DEF TypeOK
<1>7. QED  BY <1>1, <1>2, <1>3, <1>4, <1>5, <1>6

LEMMA NextType == TypeOK /\ [Next]_vars => TypeOK'
<1> SUFFICES ASSUME TypeOK, [Next]_vars PROVE TypeOK'
  OBVIOUS
<1>1. ASSUME NEW p \in Procs, Request(p) \/ Work(p) PROVE TypeOK'
  BY <1>1, RequestTypes, AutoTypes, DrainTypes, ClaimTypes, MoveTypes, RequeueTypes, RebalanceTypes
     DEF Work
<1>2. CASE UNCHANGED vars
  BY <1>2 DEF TypeOK, TasksOK, DataOK, vars
<1>3. QED
  BY <1>1, <1>2, OtherTypes DEF Next, Quiet

\* Type correctness: every variable, and every local variable of every task, keeps its type,
\* and a task that needs an agent or a conversation has one (assignment.service.ts).
THEOREM TypeCorrect == Spec => []TypeOK
BY InitType, NextType, PTL DEF Spec
-----------------------------------------------------------------------------
(* Ownership of the conversations *)

\* The steps that leave the conversations alone.
LEMMA SameConversations ==
  ASSUME NEW p \in Procs,
         \/ AutoRead(p) \/ Rank(p) \/ Pick(p) \/ AutoReserve(p) \/ AutoUndo(p)
         \/ Drain(p) \/ DrainNext(p)
         \/ ReplyRead(p) \/ ClaimRead(p) \/ ClaimReserve(p) \/ GiveBack(p) \/ SaveReply(p)
         \/ MoveCheck(p) \/ MoveReserve(p) \/ MoveFree(p) \/ CloseFree(p)
         \/ Status(p) \/ Offline(p) \/ Requeue(p) \/ RequeueFree(p)
         \/ Roster(p) \/ Count(p) \/ Sync(p) \/ Snapshot(p) \/ NextStaff(p)
         \/ Rebalance(p) \/ Abort(p) \/ DrainFails(p)
  PROVE  UNCHANGED db
BY DEF AutoRead, Rank, Pick, AutoReserve, AutoUndo, Drain, DrainNext, ReplyRead, ClaimRead,
       ClaimReserve, GiveBack, SaveReply, MoveCheck, MoveReserve, MoveFree, CloseFree, Status,
       Offline, Requeue, RequeueFree, Roster, Count, Sync, Snapshot, NextStaff, Rebalance, Abort, DrainFails

\* What a step may do to a conversation: give it to somebody while it is open and has nobody,
\* carry out an order, close it, or open it again.
OwnershipStep(c) ==
  \/ Unassigned(c) /\ \E a \in Agents : SetAssignee(c, a)
  \/ status[c] = "open" /\ \E to \in Agents \cup {None} : <<c, assignee[c], to>> \in Orders /\ SetAssignee(c, to)
  \/ /\ status[c] = "open"
     /\ status' = [status EXCEPT ![c] = "closed"] /\ assignee' = [assignee EXCEPT ![c] = None]
  \/ status[c] = "closed" /\ ReopenIfClosed(c)
OwnershipKept == UNCHANGED db \/ \E c \in Chats : OwnershipStep(c)

LEMMA NextOwnership ==
  ASSUME TypeOK, Next
  PROVE  OwnershipKept
<1>0. TasksOK /\ DataOK  BY DEF TypeOK
<1>1. ASSUME NEW p \in Procs, Request(p) PROVE OwnershipKept
  <2>1. ASSUME NEW d \in Chats, ReopenIfClosed(d) PROVE OwnershipKept
    <3>1. CASE status[d] = "closed"
      BY <2>1, <3>1 DEF OwnershipKept, OwnershipStep
    <3>2. CASE status[d] # "closed"
      BY <1>0, <2>1, <3>2 DEF OwnershipKept, ReopenIfClosed, DataOK, db
    <3>3. QED  BY <3>1, <3>2
  <2>2. QED
    BY <1>1, <2>1
       DEF Request, Message, Reply, Claim, Close, Transfer, SetAvailability, SetLimit, PresenceChange,
           OwnershipKept
<1>2. ASSUME NEW p \in Procs, AutoAssign(p) \/ ClaimAssign(p) PROVE OwnershipKept
  <2>1. job[p].chat \in Chats /\ job[p].agent \in Agents
    BY <1>0, <1>2 DEF AutoAssign, ClaimAssign, TasksOK, Fits, ChatSteps, AgentSteps, AutoSteps
  <2>2. QED
    BY <1>2, <2>1 DEF AutoAssign, ClaimAssign, OwnershipKept, OwnershipStep
<1>3. ASSUME NEW p \in Procs, Move(p) PROVE OwnershipKept
  <2>1. job[p].chat \in Chats /\ job[p].agent \in Agents \cup {None}
    BY <1>0, <1>3 DEF Move, TasksOK, Fits, ChatSteps, JobType
  <2>2. <<job[p].chat, job[p].from, job[p].agent>> \in Orders
    BY <1>3 DEF Move, Orders
  <2>3. QED
    BY <1>3, <2>1, <2>2 DEF Move, HeldBy, OwnershipKept, OwnershipStep
<1>4. ASSUME NEW p \in Procs, CloseWrite(p) PROVE OwnershipKept
  <2>1. job[p].chat \in Chats
    BY <1>0, <1>4 DEF CloseWrite, TasksOK, Fits, ChatSteps
  <2>2. QED
    BY <1>4, <2>1 DEF CloseWrite, OwnershipKept, OwnershipStep
<1>5. ASSUME NEW p \in Procs, RequeueNext(p) \/ Orphans(p) PROVE OwnershipKept
  <2>1. ASSUME NEW w \in requeue[p].todo, HeldBy(w[1], w[2]), SetAssignee(w[1], None)
        PROVE  OwnershipKept
    <3>1. w \in Chats \X Agents
      BY <1>0 DEF TasksOK, PairsType
    <3>2. <<w[1], w[2], None>> \in Orders
      BY DEF Orders
    <3>3. QED
      BY <2>1, <3>1, <3>2 DEF HeldBy, OwnershipKept, OwnershipStep
  <2>2. QED  BY <1>5, <2>1 DEF RequeueNext, Orphans, OwnershipKept
<1>6. ASSUME NEW a \in Agents, Elapse(a) \/ SetRole(a) PROVE UNCHANGED db
  BY <1>6 DEF Elapse, SetRole
<1>7. ASSUME LockExpires \/ Quiet PROVE UNCHANGED db
  BY <1>7 DEF LockExpires, Quiet, vars, db
<1>8. ASSUME NEW p \in Procs, Work(p) PROVE OwnershipKept
  BY <1>8, <1>2, <1>3, <1>4, <1>5, SameConversations DEF Work, OwnershipKept
<1>9. QED
  BY <1>1, <1>6, <1>7, <1>8, SameConversations DEF Next, OwnershipKept

\* A closed conversation never has an assignee (conversations.service.ts, close, reopenIfClosed
\* and the status filters of assignIfUnassigned and reassign).
THEOREM ClosedNeverAssigned == Spec => []ClosedIsUnassigned
<1>1. Init => ClosedIsUnassigned
  BY DEF Init, ClosedIsUnassigned
<1>2. TypeOK /\ ClosedIsUnassigned /\ [Next]_vars => ClosedIsUnassigned'
  <2> SUFFICES ASSUME TypeOK, ClosedIsUnassigned, [Next]_vars, NEW c \in Chats,
                      status'[c] = "closed"
               PROVE  assignee'[c] = None
    BY DEF ClosedIsUnassigned
  <2>1. CASE Next
    BY <2>1, NextOwnership
       DEF TypeOK, DataOK, ClosedIsUnassigned, OwnershipKept, OwnershipStep, Unassigned, SetAssignee,
           ReopenIfClosed, db
  <2>2. CASE UNCHANGED vars
    BY <2>2 DEF ClosedIsUnassigned, vars
  <2>3. QED  BY <2>1, <2>2
<1>3. QED  BY <1>1, <1>2, TypeCorrect, PTL DEF Spec

-----------------------------------------------------------------------------
(* Assignment implements Ownership *)

MoveSteps == {"move_check", "move_reserve", "move"}

\* The task alone moves, and what it has ordered gets no more.
Only(p) == \A q \in Procs \ {p} : pc'[q] = pc[q] /\ job'[q] = job[q] /\ requeue'[q] = requeue[q]
Quieter(p) == Only(p) /\ pc'[p] \notin MoveSteps /\ requeue'[p].todo \subseteq requeue[p].todo

\* The helpers that end a step order nothing, unless they go to a step of a transfer.
LEMMA QuietStep ==
  ASSUME TasksOK, NEW p \in Procs, NEW s \in Steps \ MoveSteps, Step(p, s)
  PROVE  Quieter(p)
BY DEF TasksOK, Quieter, Only, Goto, Step, locals

LEMMA QuietStepWith ==
  ASSUME TasksOK, NEW p \in Procs, NEW s \in Steps \ MoveSteps, NEW j, StepWith(p, s, j)
  PROVE  Quieter(p)
BY DEF TasksOK, Quieter, Only, Goto, SetJob, StepWith

LEMMA QuietEnd ==
  ASSUME TasksOK, NEW p \in Procs, End(p)
  PROVE  Quieter(p)
BY DEF TasksOK, Quieter, Only, Goto, SetJob, SetRequeue, End, MoveSteps, NoPairs, Pairs

LEMMA QuietAutoEnd ==
  ASSUME TasksOK, NEW p \in Procs, AutoEnd(p)
  PROVE  Quieter(p)
BY QuietEnd DEF TasksOK, Quieter, Only, Goto, SetJob, AutoEnd, MoveSteps

LEMMA QuietReturn ==
  ASSUME TasksOK, NEW p \in Procs, Return(p)
  PROVE  Quieter(p)
BY QuietEnd DEF TasksOK, Quieter, Only, Goto, SetJob, SetRequeue, Return, MoveSteps, NoPairs, Pairs

\* The steps that may be gone to without ordering anything.
LEMMA QuietLabels ==
  \A s \in {"idle", "read", "rank", "pick", "reserve", "assign", "undo", "claim_read", "claim_reserve",
             "claim_assign", "reply_read", "save", "move_free", "close", "close_free", "give_back",
             "status", "offline", "requeue", "requeue_next", "requeue_free", "drain", "next", "roster",
             "count", "sync", "presence", "staff", "orphans"} : s \in Steps \ MoveSteps
BY DEF Steps, AutoSteps, MoveSteps

\* The steps of a task that order nothing.
LEMMA QuietSteps ==
  ASSUME TypeOK, NEW p \in Procs,
         \/ AutoRead(p) \/ Rank(p) \/ Pick(p) \/ AutoReserve(p) \/ AutoAssign(p) \/ AutoUndo(p)
         \/ Drain(p) \/ DrainNext(p)
         \/ ReplyRead(p) \/ ClaimRead(p) \/ ClaimReserve(p) \/ ClaimAssign(p) \/ GiveBack(p) \/ SaveReply(p)
         \/ Move(p) \/ MoveFree(p) \/ CloseWrite(p) \/ CloseFree(p)
         \/ Status(p) \/ Offline(p) \/ RequeueNext(p) \/ RequeueFree(p)
         \/ Roster(p) \/ Count(p) \/ Sync(p) \/ Snapshot(p) \/ Orphans(p)
         \/ Rebalance(p) \/ Abort(p) \/ DrainFails(p)
  PROVE  Quieter(p)
<1>0. TasksOK  BY DEF TypeOK
<1> USE <1>0, QuietStep, QuietStepWith, QuietEnd, QuietAutoEnd, QuietReturn, QuietLabels
<1>1. AutoRead(p) => Quieter(p)
  BY DEF AutoRead
<1>2. AutoReserve(p) => Quieter(p)
  BY DEF AutoReserve
<1>3. AutoAssign(p) => Quieter(p)
  BY DEF AutoAssign
<1>4. AutoUndo(p) => Quieter(p)
  BY DEF AutoUndo
<1>5. ReplyRead(p) => Quieter(p)
  BY DEF ReplyRead
<1>6. ClaimRead(p) => Quieter(p)
  BY DEF ClaimRead
<1>7. ClaimReserve(p) => Quieter(p)
  BY DEF ClaimReserve
<1>8. ClaimAssign(p) => Quieter(p)
  BY DEF ClaimAssign
<1>9. GiveBack(p) => Quieter(p)
  BY DEF GiveBack
<1>10. SaveReply(p) => Quieter(p)
  BY DEF SaveReply
<1>11. Move(p) => Quieter(p)
  BY DEF Move, MoveEnd
<1>12. MoveFree(p) => Quieter(p)
  BY DEF MoveFree, MoveEnd
<1>13. CloseWrite(p) => Quieter(p)
  BY DEF CloseWrite
<1>14. CloseFree(p) => Quieter(p)
  BY DEF CloseFree
<1>15. Status(p) => Quieter(p)
  BY DEF Status
<1>16. Offline(p) => Quieter(p)
  BY DEF Offline
<1>17. RequeueFree(p) => Quieter(p)
  BY DEF RequeueFree
<1>18. Rebalance(p) => Quieter(p)
  BY DEF Rebalance
<1>19. Abort(p) => Quieter(p)
  BY DEF Abort
<1>20. DrainFails(p) => Quieter(p)
  BY DEF DrainFails, DrainReturn
<1>21. Rank(p) => Quieter(p)
  BY DEF Rank, Quieter, Only, TasksOK, Goto, SetJob, SetRequeue, Pairs, NoPairs, MoveSteps
<1>22. Roster(p) => Quieter(p)
  BY DEF Roster, Quieter, Only, TasksOK, Goto, SetJob, SetRequeue, Pairs, NoPairs, MoveSteps
<1>23. Count(p) => Quieter(p)
  BY DEF Count, Quieter, Only, TasksOK, Goto, SetJob, SetRequeue, Pairs, NoPairs, MoveSteps
<1>24. Sync(p) => Quieter(p)
  BY DEF Sync, Quieter, Only, TasksOK, Goto, SetJob, SetRequeue, Pairs, NoPairs, MoveSteps
<1>25. Snapshot(p) => Quieter(p)
  BY DEF Snapshot, Quieter, Only, TasksOK, Goto, SetJob, SetRequeue, Pairs, NoPairs, MoveSteps
<1>26. Orphans(p) => Quieter(p)
  <2>1. ASSUME NEW w \in requeue[p].todo, SetRequeue(p, Pairs(requeue[p].todo \ {w}, FALSE)), UNCHANGED pc,
               UNCHANGED job, pc[p] = "orphans"
        PROVE  Quieter(p)
    BY <2>1 DEF Quieter, Only, TasksOK, SetRequeue, Pairs, MoveSteps
  <2>2. Goto(p, "drain") /\ UNCHANGED <<job, requeue>> => Quieter(p)
    BY DEF Quieter, Only, TasksOK, Goto, MoveSteps
  <2>3. QED  BY <2>1, <2>2 DEF Orphans
<1>27. DrainNext(p) => Quieter(p)
  <2>1. ASSUME NEW j, Goto(p, "read"), SetJob(p, j), UNCHANGED requeue PROVE Quieter(p)
    BY <2>1 DEF Quieter, Only, TasksOK, Goto, SetJob, MoveSteps
  <2>2. QED  BY <2>1 DEF DrainNext, DrainReturn
<1>28. Drain(p) => Quieter(p)
  <2>1. Goto(p, "next") /\ SetJob(p, NoJob) /\ SetRequeue(p, NoPairs) => Quieter(p)
    BY DEF Quieter, Only, TasksOK, Goto, SetJob, SetRequeue, NoPairs, Pairs, MoveSteps
  <2>2. QED  BY <2>1 DEF Drain
<1>29. Pick(p) => Quieter(p)
  <2>1. ASSUME NEW j, Goto(p, "reserve"), SetJob(p, j), UNCHANGED requeue PROVE Quieter(p)
    BY <2>1 DEF Quieter, Only, TasksOK, Goto, SetJob, MoveSteps
  <2>2. QED  BY <2>1 DEF Pick, DrainReturn
<1>30. RequeueNext(p) => Quieter(p)
  <2>1. CASE End(p) \/ Return(p) \/ Step(p, "drain")  BY <2>1
  <2>2. CASE ~(End(p) \/ Return(p) \/ Step(p, "drain"))
    BY <2>2 DEF RequeueNext, Quieter, Only, TasksOK, Goto, SetJob, SetRequeue, Pairs, NoPairs, MoveSteps
  <2>3. QED  BY <2>1, <2>2
<1>31. QED
  BY <1>1, <1>2, <1>3, <1>4, <1>5, <1>6, <1>7, <1>8, <1>9, <1>10, <1>11, <1>12, <1>13, <1>14, <1>15, <1>16, <1>17, <1>18, <1>19, <1>20, <1>21, <1>22, <1>23, <1>24, <1>25, <1>26, <1>27, <1>28, <1>29, <1>30

LEMMA QuietOrders ==
  ASSUME NEW p \in Procs, Quieter(p)
  PROVE  Orders' \subseteq Orders
<1>1. ASSUME NEW q \in Procs, pc'[q] \in MoveSteps
      PROVE  pc[q] \in MoveSteps /\ job'[q] = job[q]
  BY <1>1 DEF Quieter, Only
<1>2. ASSUME NEW q \in Procs
      PROVE  requeue'[q].todo \subseteq requeue[q].todo
  BY DEF Quieter, Only
<1>3. QED  BY <1>1, <1>2 DEF Orders, MoveSteps

\* What is ordered is ordered of the agent who has the conversation, and the conversations do
\* not change in the step that orders.
Ordered == \A o \in Orders' \ Orders : status[o[1]] = "open" /\ assignee[o[1]] = o[2]

LEMMA NextOrders ==
  ASSUME TypeOK, Next
  PROVE  (UNCHANGED db /\ Ordered) \/ Orders' \subseteq Orders
<1>0. TasksOK /\ DataOK  BY DEF TypeOK
<1>a. ASSUME UNCHANGED <<pc, job, requeue>> PROVE Orders' = Orders
  BY <1>a DEF Orders
<1>1. ASSUME NEW p \in Procs, Request(p)
      PROVE  (UNCHANGED db /\ Ordered) \/ Orders' \subseteq Orders
  <2>1. ASSUME NEW c \in Chats, NEW to \in Agents \cup {None}, Transfer(p, c, to)
        PROVE  UNCHANGED db /\ Ordered
    <3>1. UNCHANGED db  BY <2>1 DEF Transfer
    <3>2. Only(p) /\ requeue' = requeue
      BY <1>0, <2>1 DEF Transfer, StepWith, Goto, SetJob, Only, TasksOK
    <3>3. job'[p] = Job(c, to, assignee[c], FALSE)
      BY <1>0, <2>1 DEF Transfer, StepWith, SetJob, TasksOK
    <3>4. \A o \in Orders' \ Orders : o = <<c, assignee[c], to>>
      <4> SUFFICES ASSUME NEW o \in Orders', o \notin Orders PROVE o = <<c, assignee[c], to>>
        OBVIOUS
      <4>1. PICK q \in Procs : pc'[q] \in MoveSteps /\ o = <<job'[q].chat, job'[q].from, job'[q].agent>>
        BY <3>2 DEF Orders, MoveSteps
      <4>2. q = p
        BY <3>2, <4>1 DEF Orders, MoveSteps, Only
      <4>3. QED  BY <3>3, <4>1, <4>2 DEF Job
    <3>5. status[c] = "open"  BY <2>1 DEF Transfer
    <3>6. QED  BY <3>1, <3>4, <3>5 DEF Ordered
  <2>2. ASSUME ~ \E c \in Chats, to \in Agents \cup {None} : Transfer(p, c, to)
        PROVE  Quieter(p)
    BY <1>0, <1>1, <2>2, QuietStepWith, QuietLabels
       DEF Request, Message, Close, Claim, Reply, SetAvailability, SetLimit, PresenceChange, MoveSteps
  <2>3. QED  BY <2>1, <2>2, QuietOrders
<1>2. ASSUME NEW p \in Procs, MoveCheck(p) \/ MoveReserve(p)
      PROVE  Orders' \subseteq Orders
  <2>1. CASE End(p)
    BY <1>0, <2>1, QuietEnd, QuietOrders
  <2>2. CASE ~End(p)
    <3>1. pc[p] \in MoveSteps /\ job' = job /\ requeue' = requeue
      BY <1>2, <2>2 DEF MoveCheck, MoveReserve, Step, locals, MoveSteps
    <3>2. \A q \in Procs : pc'[q] \in MoveSteps => pc[q] \in MoveSteps
      BY <1>0, <1>2, <2>2, <3>1 DEF MoveCheck, MoveReserve, Step, Goto, TasksOK
    <3>3. QED  BY <3>1, <3>2 DEF Orders, MoveSteps
  <2>3. QED  BY <2>1, <2>2
<1>3. ASSUME NEW p \in Procs, Requeue(p) \/ NextStaff(p)
      PROVE  UNCHANGED db /\ Ordered
  <2>1. UNCHANGED db  BY <1>3 DEF Requeue, NextStaff
  <2>2. Only(p) /\ pc'[p] \notin MoveSteps
    BY <1>0, <1>3 DEF Requeue, NextStaff, Only, Goto, SetJob, SetRequeue, TasksOK, MoveSteps
  <2>3. \A w \in requeue'[p].todo : HeldBy(w[1], w[2])
    <3>1. CASE Requeue(p)
      BY <1>0, <3>1 DEF Requeue, SetRequeue, Pairs, ChatsOf, HeldBy, TasksOK
    <3>2. CASE NextStaff(p)
      <4>1. ASSUME NEW a, SetRequeue(p, Pairs(ChatsOf(a) \X {a}, FALSE))
            PROVE  \A w \in requeue'[p].todo : HeldBy(w[1], w[2])
        BY <1>0, <4>1 DEF SetRequeue, Pairs, ChatsOf, HeldBy, TasksOK
      <4>2. ASSUME NEW S, SetRequeue(p, Pairs({w \in S : HeldBy(w[1], w[2])}, FALSE))
            PROVE  \A w \in requeue'[p].todo : HeldBy(w[1], w[2])
        BY <1>0, <4>2 DEF SetRequeue, Pairs, TasksOK
      <4>3. QED  BY <3>2, <4>1, <4>2 DEF NextStaff
    <3>3. QED  BY <1>3, <3>1, <3>2
  <2>4. ASSUME NEW o \in Orders', o \notin Orders
        PROVE  \E w \in requeue'[p].todo : o = <<w[1], w[2], None>>
    <3>1. CASE \E q \in Procs : pc'[q] \in MoveSteps /\ o = <<job'[q].chat, job'[q].from, job'[q].agent>>
      <4>1. PICK q \in Procs : pc'[q] \in MoveSteps /\ o = <<job'[q].chat, job'[q].from, job'[q].agent>>
        BY <3>1
      <4>2. q # p  BY <2>2, <4>1
      <4>3. QED  BY <2>2, <2>4, <4>1, <4>2 DEF Only, Orders, MoveSteps
    <3>2. CASE \E q \in Procs : \E w \in requeue'[q].todo : o = <<w[1], w[2], None>>
      <4>1. PICK q \in Procs : \E w \in requeue'[q].todo : o = <<w[1], w[2], None>>
        BY <3>2
      <4>2. CASE q # p
        BY <2>2, <2>4, <4>1, <4>2 DEF Only, Orders
      <4>3. QED  BY <4>1, <4>2
    <3>3. QED  BY <2>4, <3>1, <3>2 DEF Orders, MoveSteps
  <2>5. QED  BY <2>1, <2>3, <2>4 DEF Ordered, HeldBy
<1>4. ASSUME NEW p \in Procs, Work(p)
      PROVE  (UNCHANGED db /\ Ordered) \/ Orders' \subseteq Orders
  BY <1>2, <1>3, <1>4, QuietSteps, QuietOrders DEF Work
<1>5. ASSUME NEW a \in Agents, Elapse(a) \/ SetRole(a) PROVE Orders' = Orders
  BY <1>a, <1>5 DEF Elapse, SetRole, locals
<1>6. ASSUME LockExpires \/ Quiet PROVE Orders' = Orders
  BY <1>a, <1>6 DEF LockExpires, Quiet, vars, locals
<1>7. QED
  BY <1>1, <1>4, <1>5, <1>6, QuietSteps, QuietOrders DEF Next

\* What the steps do to the conversations is what Ownership allows.
LEMMA NextPromise ==
  ASSUME TypeOK, ClosedIsUnassigned, [Next]_vars
  PROVE  [Promise!Next]_(Promise!vars)
<1>0. TasksOK /\ DataOK  BY DEF TypeOK
<1>1. CASE UNCHANGED vars
  BY <1>1 DEF vars, Promise!vars, Orders
<1>2. CASE Next /\ UNCHANGED db
  <2>1. Ordered
    BY <1>2, NextOrders DEF Ordered
  <2>2. QED  BY <1>2, <2>1 DEF Promise!Next, Promise!Order, Ordered, db
<1>3. CASE Next /\ ~UNCHANGED db
  <2>1. Orders' \subseteq Orders
    BY <1>3, NextOrders
  <2>2. PICK c \in Chats : OwnershipStep(c)
    BY <1>3, NextOwnership DEF OwnershipKept
  <2>3. CASE Unassigned(c) /\ \E a \in Agents : SetAssignee(c, a)
    BY <2>1, <2>3 DEF Promise!Next, Promise!Take, Promise!Serve, Unassigned, SetAssignee
  <2>4. CASE status[c] = "open" /\ \E to \in Agents \cup {None} :
               <<c, assignee[c], to>> \in Orders /\ SetAssignee(c, to)
    BY <2>1, <2>4 DEF Promise!Next, Promise!HandOver, Promise!Serve, SetAssignee
  <2>5. CASE /\ status[c] = "open"
             /\ status' = [status EXCEPT ![c] = "closed"] /\ assignee' = [assignee EXCEPT ![c] = None]
    BY <2>1, <2>5 DEF Promise!Next, Promise!Close
  <2>6. CASE status[c] = "closed" /\ ReopenIfClosed(c)
    BY <2>1, <2>6 DEF Promise!Next, Promise!Reopen, ReopenIfClosed, ClosedIsUnassigned
  <2>7. QED  BY <2>2, <2>3, <2>4, <2>5, <2>6 DEF OwnershipStep
<1>4. QED  BY <1>1, <1>2, <1>3

\* Assignment implements Ownership: an agent keeps a conversation until a hand-over that was asked
\* for while they had it, or until it is closed; no claim and no automatic assignment takes it
\* away, however many servers run them (conversations.service.ts, "Assignment primitives").
THEOREM KeepsThePromise == Spec => ServedOnOrders
<1>1. Init => Promise!Init
  <2> SUFFICES ASSUME Init PROVE Promise!Init
    OBVIOUS
  <2>1. \A p \in Procs : pc[p] = "idle" /\ requeue[p].todo = {}
    BY DEF Init, NoPairs, Pairs
  <2>2. Orders = {}
    BY <2>1 DEF Orders
  <2>3. QED  BY <2>2 DEF Init, Promise!Init
<1>2. TypeOK /\ ClosedIsUnassigned /\ [Next]_vars => [Promise!Next]_(Promise!vars)
  BY NextPromise
<1>3. QED
  BY <1>1, <1>2, TypeCorrect, ClosedNeverAssigned, PTL DEF Spec, ServedOnOrders, Promise!Spec

-----------------------------------------------------------------------------
(***************************************************************************)
(* The draining flag of a server, and the slots of the agents.  A step of  *)
(* a task changes its own locals, one counter and one conversation at most,*)
(* so the sets that the cardinalities in the invariants are about win or   *)
(* lose one element at most.                                               *)
(***************************************************************************)

\* Inside drainQueue: between two conversations, or in the assignment of one.
DrainSteps == AutoSteps \cup {"read", "next"}
\* The steps at which a task may hold a slot.
HoldSteps == {"assign", "undo", "claim_assign", "move", "give_back", "requeue_free", "move_free", "close_free"}
RequeueSteps == {"requeue_next", "requeue_free"}

\* A task drains only in drainQueue; the chats it requeues are the ones of the agent at hand; a
\* transfer goes to somebody else than it takes from.
Fitting(p) ==
  /\ drain[p].on => pc[p] \in DrainSteps
  /\ pc[p] = "next" => drain[p].on
  /\ pc[p] \in RequeueSteps => \A w \in requeue[p].todo : w[2] = job[p].agent
  /\ pc[p] \in MoveSteps => job[p].from # job[p].agent
TasksFit == \A p \in Procs : Fitting(p)

-----------------------------------------------------------------------------
(* Steps of one task *)

Untouched(p) ==
  \A q \in Procs \ {p} :
    /\ pc'[q] = pc[q] /\ job'[q] = job[q] /\ auto'[q] = auto[q]
    /\ drain'[q] = drain[q] /\ requeue'[q] = requeue[q]

\* The helpers that end a step: where the task is then, and what it has at hand.
LEMMA StepFacts ==
  ASSUME TasksOK, NEW p \in Procs, NEW s, Step(p, s)
  PROVE  /\ Untouched(p) /\ pc'[p] = s /\ job'[p] = job[p] /\ auto'[p] = auto[p]
         /\ drain'[p] = drain[p] /\ requeue'[p] = requeue[p]
BY DEF TasksOK, Untouched, Step, Goto, locals

LEMMA StepWithFacts ==
  ASSUME TasksOK, NEW p \in Procs, NEW s, NEW j, StepWith(p, s, j)
  PROVE  /\ Untouched(p) /\ pc'[p] = s /\ job'[p] = j /\ auto'[p] = auto[p]
         /\ drain'[p] = drain[p] /\ requeue'[p] = requeue[p]
BY DEF TasksOK, Untouched, StepWith, Goto, SetJob

LEMMA EndFacts ==
  ASSUME TasksOK, NEW p \in Procs, End(p)
  PROVE  Untouched(p) /\ pc'[p] = "idle" /\ drain'[p].on = FALSE
BY DEF TasksOK, Untouched, End, Goto, SetJob, SetTrial, SetDrain, SetRequeue, NoQueue, Queue

LEMMA AutoEndFacts ==
  ASSUME TasksOK, NEW p \in Procs, AutoEnd(p)
  PROVE  /\ Untouched(p) /\ drain'[p].on = drain[p].on
         /\ pc'[p] = IF drain[p].on THEN "next" ELSE "idle"
<1>1. drain[p].on \in BOOLEAN  BY DEF TasksOK, QueueType
<1>2. CASE drain[p].on
  BY <1>2 DEF TasksOK, Untouched, AutoEnd, Goto, SetJob, SetTrial
<1>3. CASE ~drain[p].on
  BY <1>1, <1>3, EndFacts DEF AutoEnd
<1> QED  BY <1>2, <1>3

LEMMA ReturnFacts ==
  ASSUME TasksOK, NEW p \in Procs, Return(p)
  PROVE  Untouched(p) /\ pc'[p] \in {"idle", "staff"} /\ drain'[p].on = FALSE
<1>1. CASE round[p].timer
  BY <1>1 DEF TasksOK, Untouched, Return, Goto, SetJob, SetTrial, SetDrain, SetRequeue, NoQueue, Queue
<1>2. CASE ~round[p].timer
  BY <1>2, EndFacts DEF Return
<1> QED  BY <1>1, <1>2

-----------------------------------------------------------------------------
(* The draining flag *)

\* What a step of p does to the flag of its server; one that is about to reserve a slot has just
\* read the capacity.
FlagKept(p) == draining' = draining /\ (drain'[p].on <=> drain[p].on)
FlagRaised(p) ==
  /\ ~draining[ServerOf[p]] /\ drain'[p].on
  /\ draining' = [draining EXCEPT ![ServerOf[p]] = TRUE]
FlagLowered(p) ==
  /\ drain[p].on /\ ~drain'[p].on
  /\ draining' = [draining EXCEPT ![ServerOf[p]] = FALSE]
Goes(p) ==
  /\ Untouched(p) /\ Fitting(p)'
  /\ pc'[p] = "reserve" => auto'[p].room = limit[job'[p].agent]
  /\ FlagKept(p) \/ FlagRaised(p) \/ FlagLowered(p)

\* Most steps can be gone to with whatever conversation and agent.
Plain == Steps \ (RequeueSteps \cup MoveSteps \cup {"next", "reserve"})

LEMMA PlainLabels ==
  /\ {"rank", "pick", "assign", "undo", "read"} \subseteq Plain \cap DrainSteps
  /\ {"idle", "claim_read", "claim_reserve", "claim_assign", "reply_read", "save", "move_free", "close",
      "close_free", "give_back", "status", "offline", "requeue", "drain", "roster", "count", "sync",
      "presence", "staff", "orphans"} \subseteq Plain \ DrainSteps
BY DEF Plain, Steps, AutoSteps, DrainSteps, RequeueSteps, MoveSteps

LEMMA StepGoes ==
  ASSUME TasksOK, NEW p \in Procs, Fitting(p), NEW s \in Plain, Step(p, s), draining' = draining,
         drain[p].on => s \in DrainSteps
  PROVE  Goes(p)
BY StepFacts DEF Goes, FlagKept, Fitting, Plain

LEMMA StepWithGoes ==
  ASSUME TasksOK, NEW p \in Procs, Fitting(p), NEW s \in Plain, NEW j, StepWith(p, s, j),
         draining' = draining, drain[p].on => s \in DrainSteps
  PROVE  Goes(p)
BY StepWithFacts DEF Goes, FlagKept, Fitting, Plain

\* The label of a step in which a task does not drain.
LEMMA NotDraining ==
  ASSUME NEW p, Fitting(p), pc[p] \notin DrainSteps
  PROVE  ~drain[p].on
BY DEF Fitting

LEMMA EndGoes ==
  ASSUME TasksOK, NEW p \in Procs, ~drain[p].on, End(p), draining' = draining
  PROVE  Goes(p)
BY EndFacts DEF Goes, FlagKept, Fitting, RequeueSteps, MoveSteps

LEMMA ReturnGoes ==
  ASSUME TasksOK, NEW p \in Procs, ~drain[p].on, Return(p), draining' = draining
  PROVE  Goes(p)
BY ReturnFacts DEF Goes, FlagKept, Fitting, RequeueSteps, MoveSteps

LEMMA DrainReturnGoes ==
  ASSUME TasksOK, NEW p \in Procs, drain[p].on, DrainReturn(p)
  PROVE  Goes(p)
BY ReturnFacts DEF Goes, FlagLowered, DrainReturn, Fitting, RequeueSteps, MoveSteps

LEMMA AutoEndGoes ==
  ASSUME TasksOK, NEW p \in Procs, AutoEnd(p), draining' = draining
  PROVE  Goes(p)
BY AutoEndFacts DEF Goes, FlagKept, Fitting, DrainSteps, RequeueSteps, MoveSteps

LEMMA AutoGoes ==
  ASSUME TypeOK, NEW p \in Procs, Fitting(p),
         AutoRead(p) \/ Rank(p) \/ Pick(p) \/ AutoReserve(p) \/ AutoAssign(p) \/ AutoUndo(p)
  PROVE  Goes(p)
<1>0. TasksOK  BY DEF TypeOK
<1>1. CASE AutoRead(p)
  BY <1>0, <1>1, StepGoes, AutoEndGoes, PlainLabels DEF AutoRead
<1>2. CASE Rank(p)
  <2>1. Untouched(p) /\ pc'[p] = "pick" /\ drain'[p] = drain[p] /\ draining' = draining
    BY <1>0, <1>2 DEF Rank, Goto, SetTrial, TasksOK, Untouched
  <2> QED  BY <2>1 DEF Goes, FlagKept, Fitting, DrainSteps, AutoSteps, RequeueSteps, MoveSteps
<1>3. CASE Pick(p)
  <2>1. CASE auto[p].cands = {} /\ IF drain[p].on THEN DrainReturn(p) ELSE End(p) /\ UNCHANGED draining
    BY <1>0, <2>1, EndGoes, DrainReturnGoes
  <2>2. CASE \E a \in auto[p].cands :
               /\ Goto(p, "reserve")
               /\ SetJob(p, Job(job[p].chat, a, None, FALSE))
               /\ SetTrial(p, Trial(auto[p].cands \ {a}, limit[a]))
               /\ UNCHANGED <<drain, requeue, round, draining>>
    <3>1. PICK a \in auto[p].cands :
            /\ Untouched(p) /\ pc'[p] = "reserve" /\ drain'[p] = drain[p] /\ draining' = draining
            /\ job'[p] = Job(job[p].chat, a, None, FALSE)
            /\ auto'[p] = Trial(auto[p].cands \ {a}, limit[a])
      BY <1>0, <2>2 DEF Goto, SetJob, SetTrial, TasksOK, Untouched
    <3>2. auto'[p].room = limit[job'[p].agent]  BY <3>1 DEF Job, Trial
    <3>3. pc[p] = "pick"  BY <1>3 DEF Pick
    <3> QED  BY <3>1, <3>2, <3>3 DEF Goes, FlagKept, Fitting, DrainSteps, AutoSteps, RequeueSteps, MoveSteps
  <2> QED  BY <1>3, <2>1, <2>2 DEF Pick
<1>4. CASE AutoReserve(p)
  <2>0. draining' = draining  BY <1>4 DEF AutoReserve
  <2>1. CASE Step(p, "assign")
    BY <1>0, <2>0, <2>1, StepGoes, PlainLabels
  <2>2. CASE StepWith(p, "pick", Job(job[p].chat, None, None, FALSE))
    BY <1>0, <2>0, <2>2, StepWithGoes, PlainLabels
  <2> QED  BY <1>4, <2>1, <2>2 DEF AutoReserve
<1>5. CASE AutoAssign(p)
  BY <1>0, <1>5, StepGoes, AutoEndGoes, PlainLabels DEF AutoAssign
<1>6. CASE AutoUndo(p)
  BY <1>0, <1>6, AutoEndGoes DEF AutoUndo
<1> QED  BY <1>1, <1>2, <1>3, <1>4, <1>5, <1>6

LEMMA DrainGoes ==
  ASSUME TypeOK, NEW p \in Procs, Fitting(p), Drain(p) \/ DrainNext(p)
  PROVE  Goes(p)
<1>0. TasksOK /\ DataOK  BY DEF TypeOK
<1> USE DEF DrainSteps, AutoSteps, RequeueSteps, MoveSteps
<1>1. CASE Drain(p)
  <2>1. pc[p] = "drain" /\ ~drain[p].on  BY <1>1, NotDraining DEF Drain
  <2>2. CASE draining[ServerOf[p]]
    BY <1>0, <1>1, <2>1, <2>2, ReturnGoes DEF Drain
  <2>3. CASE ~draining[ServerOf[p]]
    <3>1. /\ Untouched(p) /\ pc'[p] = "next" /\ drain'[p] = Queue(TRUE, Waiting)
          /\ draining' = [draining EXCEPT ![ServerOf[p]] = TRUE]
      BY <1>0, <1>1, <2>3 DEF Drain, Goto, SetDrain, SetJob, SetRequeue, TasksOK, Untouched
    <3>2. drain'[p].on  BY <3>1 DEF Queue
    <3> QED  BY <2>3, <3>1, <3>2 DEF Goes, FlagRaised, Fitting
  <2> QED  BY <2>2, <2>3
<1>2. CASE DrainNext(p)
  <2>1. pc[p] = "next" /\ drain[p].on  BY <1>2 DEF DrainNext, Fitting
  <2>2. CASE drain[p].queue = {} /\ DrainReturn(p)
    BY <1>0, <2>1, <2>2, DrainReturnGoes
  <2>3. CASE \E c \in drain[p].queue :
               /\ Goto(p, "read")
               /\ SetJob(p, Job(c, None, None, FALSE))
               /\ SetDrain(p, Queue(TRUE, drain[p].queue \ {c}))
               /\ UNCHANGED <<auto, requeue, round, draining>>
    <3>1. PICK c \in drain[p].queue :
            /\ Untouched(p) /\ pc'[p] = "read" /\ draining' = draining
            /\ drain'[p] = Queue(TRUE, drain[p].queue \ {c})
      BY <1>0, <2>3 DEF Goto, SetJob, SetDrain, TasksOK, Untouched
    <3>2. drain'[p].on  BY <3>1 DEF Queue
    <3> QED  BY <2>1, <3>1, <3>2 DEF Goes, FlagKept, Fitting
  <2> QED  BY <1>2, <2>2, <2>3 DEF DrainNext
<1> QED  BY <1>1, <1>2

LEMMA ClaimGoes ==
  ASSUME TypeOK, NEW p \in Procs, Fitting(p),
         ReplyRead(p) \/ ClaimRead(p) \/ ClaimReserve(p) \/ ClaimAssign(p) \/ GiveBack(p) \/ SaveReply(p)
  PROVE  Goes(p)
<1>0. TasksOK  BY DEF TypeOK
<1>1. ~drain[p].on
  BY NotDraining
     DEF ReplyRead, ClaimRead, ClaimReserve, ClaimAssign, GiveBack, SaveReply, DrainSteps, AutoSteps
<1>2. draining' = draining
  BY DEF ReplyRead, ClaimRead, ClaimReserve, ClaimAssign, GiveBack, SaveReply
<1>3. End(p) \/ \E s \in {"save", "claim_read", "claim_reserve", "claim_assign", "give_back"} : Step(p, s)
  BY DEF ReplyRead, ClaimRead, ClaimReserve, ClaimAssign, GiveBack, SaveReply
<1> QED  BY <1>0, <1>1, <1>2, <1>3, EndGoes, StepGoes, PlainLabels

LEMMA MoveGoes ==
  ASSUME TypeOK, NEW p \in Procs, Fitting(p),
         MoveCheck(p) \/ MoveReserve(p) \/ Move(p) \/ MoveFree(p) \/ CloseWrite(p) \/ CloseFree(p)
  PROVE  Goes(p)
<1>0. TasksOK  BY DEF TypeOK
<1>1. ~drain[p].on
  BY NotDraining
     DEF MoveCheck, MoveReserve, Move, MoveFree, CloseWrite, CloseFree, DrainSteps, AutoSteps
<1>2. draining' = draining
  BY DEF MoveCheck, MoveReserve, Move, MoveFree, CloseWrite, CloseFree
<1>3. CASE MoveEnd(p)
  BY <1>0, <1>1, <1>2, <1>3, EndGoes, StepWithGoes, PlainLabels DEF MoveEnd
<1>4. CASE End(p) \/ \E s \in {"move_free", "give_back", "close_free", "drain"} : Step(p, s)
  BY <1>0, <1>1, <1>2, <1>4, EndGoes, StepGoes, PlainLabels
<1>5. CASE StepWith(p, "drain", NoJob)
  BY <1>0, <1>1, <1>2, <1>5, StepWithGoes, PlainLabels
<1>6. CASE pc[p] \in MoveSteps /\ \E s \in {"move_reserve", "move"} : Step(p, s)
  BY <1>0, <1>1, <1>2, <1>6, StepFacts DEF Goes, FlagKept, Fitting, RequeueSteps
<1>7. CASE Move(p)
  BY <1>3, <1>4, <1>7 DEF Move
<1>8. CASE CloseWrite(p)
  BY <1>4, <1>8 DEF CloseWrite
<1>9. CASE MoveCheck(p) \/ MoveReserve(p)
  BY <1>4, <1>6, <1>9 DEF MoveCheck, MoveReserve, MoveSteps
<1> QED  BY <1>3, <1>5, <1>7, <1>8, <1>9 DEF MoveFree, CloseFree

LEMMA RequeueGoes ==
  ASSUME TypeOK, NEW p \in Procs, Fitting(p),
         Status(p) \/ Offline(p) \/ Requeue(p) \/ RequeueNext(p) \/ RequeueFree(p)
  PROVE  Goes(p)
<1>0. TasksOK  BY DEF TypeOK
<1>1. ~drain[p].on
  BY NotDraining DEF Status, Offline, Requeue, RequeueNext, RequeueFree, DrainSteps, AutoSteps
<1>2. draining' = draining
  BY DEF Status, Offline, Requeue, RequeueNext, RequeueFree
<1>3. CASE End(p) \/ Return(p) \/ \E s \in {"offline", "requeue", "drain"} : Step(p, s)
  BY <1>0, <1>1, <1>2, <1>3, EndGoes, ReturnGoes, StepGoes, PlainLabels
<1>4. CASE Status(p)
  BY <1>0, <1>1, <1>2, <1>3, <1>4, StepWithGoes, PlainLabels DEF Status
<1>5. CASE Offline(p)
  BY <1>3, <1>5 DEF Offline
<1>6. CASE Requeue(p)
  <2>1. /\ Untouched(p) /\ pc'[p] = "requeue_next" /\ job'[p] = job[p] /\ drain'[p] = drain[p]
        /\ requeue'[p] = Pairs(ChatsOf(job[p].agent) \X {job[p].agent}, FALSE)
    BY <1>0, <1>6 DEF Requeue, Goto, SetRequeue, TasksOK, Untouched
  <2>2. \A w \in requeue'[p].todo : w[2] = job[p].agent
    BY <2>1 DEF Pairs
  <2> QED  BY <1>1, <1>2, <2>1, <2>2 DEF Goes, FlagKept, Fitting, RequeueSteps, MoveSteps
<1>7. CASE RequeueNext(p)
  <2>0. pc[p] = "requeue_next" /\ requeue[p].todo \in SUBSET (Chats \X Agents)
    BY <1>0, <1>7 DEF RequeueNext, TasksOK, PairsType
  <2>1. CASE requeue[p].todo = {} /\ IF requeue[p].moved THEN Step(p, "drain") ELSE Return(p)
    BY <1>3, <2>1
  <2>2. CASE \E w \in requeue[p].todo :
               /\ IF HeldBy(w[1], w[2])
                    THEN /\ SetAssignee(w[1], None)
                         /\ Goto(p, "requeue_free")
                         /\ SetRequeue(p, Pairs(requeue[p].todo \ {w}, TRUE))
                    ELSE /\ UNCHANGED <<db, pc>>
                         /\ SetRequeue(p, Pairs(requeue[p].todo \ {w}, requeue[p].moved))
               /\ UNCHANGED <<job, auto, drain, round>>
    <3>1. PICK w \in requeue[p].todo, m \in {TRUE, requeue[p].moved} :
            /\ Untouched(p) /\ pc'[p] \in RequeueSteps /\ job'[p] = job[p] /\ drain'[p] = drain[p]
            /\ requeue'[p] = Pairs(requeue[p].todo \ {w}, m)
      BY <1>0, <2>0, <2>2 DEF Goto, SetRequeue, TasksOK, Untouched, RequeueSteps
    <3>2. \A v \in requeue'[p].todo : v[2] = job[p].agent
      BY <2>0, <3>1 DEF Pairs, Fitting, RequeueSteps
    <3> QED  BY <1>1, <1>2, <3>1, <3>2 DEF Goes, FlagKept, Fitting, RequeueSteps, MoveSteps
  <2> QED  BY <1>7, <2>1, <2>2 DEF RequeueNext
<1>8. CASE RequeueFree(p)
  BY <1>0, <1>1, <1>2, <1>8, StepFacts DEF RequeueFree, Goes, FlagKept, Fitting, RequeueSteps, MoveSteps
<1> QED  BY <1>4, <1>5, <1>6, <1>7, <1>8

LEMMA RebalanceGoes ==
  ASSUME TypeOK, NEW p \in Procs, Fitting(p),
         Roster(p) \/ Count(p) \/ Sync(p) \/ Snapshot(p) \/ NextStaff(p) \/ Orphans(p)
  PROVE  Goes(p)
<1>0. TasksOK  BY DEF TypeOK
<1>1. ~drain[p].on
  BY NotDraining DEF Roster, Count, Sync, Snapshot, NextStaff, Orphans, DrainSteps, AutoSteps
<1>2. draining' = draining /\ drain' = drain
  BY DEF Roster, Count, Sync, Snapshot, NextStaff, Orphans
<1>3. CASE Roster(p) \/ Count(p) \/ Sync(p) \/ Snapshot(p)
  <2>1. Untouched(p) /\ pc'[p] \in {"count", "sync", "presence", "staff"}
    BY <1>0, <1>3 DEF Roster, Count, Sync, Snapshot, Goto, TasksOK, Untouched
  <2> QED  BY <1>1, <1>2, <2>1 DEF Goes, FlagKept, Fitting, RequeueSteps, MoveSteps
<1>4. CASE NextStaff(p)
  <2>1. CASE \E a \in round[p].staff :
               /\ Goto(p, "requeue_next")
               /\ SetJob(p, Job(None, a, None, FALSE))
               /\ SetRequeue(p, Pairs(ChatsOf(a) \X {a}, FALSE))
    <3>1. PICK a \in round[p].staff :
            /\ Untouched(p) /\ pc'[p] = "requeue_next" /\ job'[p] = Job(None, a, None, FALSE)
            /\ requeue'[p] = Pairs(ChatsOf(a) \X {a}, FALSE)
      BY <1>0, <1>4, <2>1 DEF NextStaff, Goto, SetJob, SetRequeue, TasksOK, Untouched
    <3>2. job'[p].agent = a  BY <3>1 DEF Job
    <3>3. \A w \in requeue'[p].todo : w[2] = a  BY <3>1 DEF Pairs
    <3> QED  BY <1>1, <1>2, <3>1, <3>2, <3>3 DEF Goes, FlagKept, Fitting, RequeueSteps, MoveSteps
  <2>2. CASE Goto(p, "orphans") /\ UNCHANGED job
    <3>1. Untouched(p) /\ pc'[p] = "orphans"
      BY <1>0, <1>4, <2>2 DEF NextStaff, Goto, SetJob, SetRequeue, TasksOK, Untouched
    <3> QED  BY <1>1, <1>2, <3>1 DEF Goes, FlagKept, Fitting, RequeueSteps, MoveSteps
  <2> QED  BY <1>4, <2>1, <2>2 DEF NextStaff
<1>5. CASE Orphans(p)
  <2>1. Untouched(p) /\ pc'[p] \in {"orphans", "drain"}
    BY <1>0, <1>5 DEF Orphans, Goto, SetRequeue, TasksOK, Untouched
  <2> QED  BY <1>1, <1>2, <2>1 DEF Goes, FlagKept, Fitting, RequeueSteps, MoveSteps
<1> QED  BY <1>3, <1>4, <1>5

LEMMA RequestGoes ==
  ASSUME TypeOK, NEW p \in Procs, Fitting(p), Request(p) \/ Rebalance(p)
  PROVE  Goes(p)
<1>0. TasksOK  BY DEF TypeOK
<1>1. ~drain[p].on
  BY NotDraining
     DEF Request, Rebalance, Call, Message, Close, Claim, Reply, Transfer, SetAvailability, SetLimit,
         PresenceChange, DrainSteps, AutoSteps
<1>2. draining' = draining
  BY DEF Request, Rebalance, Message, Close, Claim, Reply, Transfer, SetAvailability, SetLimit,
         PresenceChange
<1>3. CASE \E s \in {"read", "close", "claim_reserve", "reply_read", "status"}, j \in JobType :
             StepWith(p, s, j)
  BY <1>0, <1>1, <1>2, <1>3, StepWithGoes, PlainLabels
<1>4. ASSUME NEW c \in Chats, NEW to \in Agents \cup {None}, Transfer(p, c, to)
      PROVE  Goes(p)
  <2>1. /\ Untouched(p) /\ pc'[p] \in MoveSteps /\ job'[p] = Job(c, to, assignee[c], FALSE)
        /\ drain'[p] = drain[p] /\ assignee[c] # to
    BY <1>0, <1>4 DEF Transfer, StepWith, Goto, SetJob, TasksOK, Untouched, MoveSteps
  <2>2. job'[p].from # job'[p].agent  BY <2>1 DEF Job
  <2> QED  BY <1>1, <1>2, <2>1, <2>2 DEF Goes, FlagKept, Fitting, RequeueSteps, MoveSteps
<1>5. CASE Rebalance(p)
  BY <1>0, <1>1, <1>2, <1>5, StepGoes, PlainLabels DEF Rebalance
<1>6. \A c \in Chats : assignee[c] \in Agents \cup {None}
  BY DEF TypeOK, DataOK
<1>7. ASSUME NEW c \in Chats, Message(p, c) \/ Close(p, c) PROVE Goes(p)
  BY <1>3, <1>6, <1>7, JobIsTyped DEF Message, Close
<1>8. ASSUME NEW c \in Chats, NEW a \in Agents, Claim(p, c, a) \/ Reply(p, c, a) PROVE Goes(p)
  BY <1>3, <1>8, JobIsTyped DEF Claim, Reply
<1>9. ASSUME NEW a \in Agents, StepWith(p, "status", Job(None, a, None, FALSE)) PROVE Goes(p)
  BY <1>3, <1>9, JobIsTyped
<1> QED
  BY <1>4, <1>5, <1>7, <1>8, <1>9 DEF Request, SetAvailability, SetLimit, PresenceChange

LEMMA FailureGoes ==
  ASSUME TypeOK, NEW p \in Procs, Fitting(p), Abort(p) \/ DrainFails(p)
  PROVE  Goes(p)
<1>0. TasksOK /\ drain[p].on \in BOOLEAN  BY DEF TypeOK, TasksOK, QueueType
<1>1. CASE Abort(p)
  <2>1. Untouched(p) /\ pc'[p] = "idle" /\ drain'[p].on = FALSE
    BY <1>0, <1>1, EndFacts DEF Abort
  <2> QED
    BY <1>0, <1>1, <2>1 DEF Abort, Goes, FlagKept, FlagLowered, Fitting, RequeueSteps, MoveSteps
<1>2. CASE DrainFails(p)
  BY <1>0, <1>2, DrainReturnGoes DEF DrainFails
<1> QED  BY <1>1, <1>2

-----------------------------------------------------------------------------
(* The invariant of the draining flag *)

Drainers(s) == {p \in Procs : ServerOf[p] = s /\ drain[p].on}
FlagTells(s) == IF draining[s] THEN \E p \in Procs : Drainers(s) = {p} ELSE Drainers(s) = {}
DrainInv == TasksFit /\ \A s \in Servers : FlagTells(s)

LEMMA GoesKeepsFlags ==
  ASSUME TypeOK, DrainInv, NEW p \in Procs, Goes(p)
  PROVE  DrainInv'
<1>0. /\ drain \in [Procs -> QueueType] /\ draining \in [Servers -> BOOLEAN] /\ ServerOf[p] \in Servers
      /\ \A q \in Procs \ {p} : drain'[q] = drain[q]
  BY DEF TypeOK, TasksOK, DataOK, Goes, Untouched
<1>1. TasksFit'
  <2>1. ASSUME NEW q \in Procs \ {p} PROVE Fitting(q)'
    BY <2>1 DEF DrainInv, TasksFit, Goes, Untouched, Fitting
  <2>2. Fitting(p)'  BY DEF Goes
  <2> QED  BY <2>1, <2>2 DEF TasksFit
<1>2. ASSUME NEW s \in Servers, s # ServerOf[p] PROVE FlagTells(s)'
  <2>1. draining'[s] = draining[s]
    BY <1>0, <1>2 DEF Goes, FlagKept, FlagRaised, FlagLowered
  <2>2. Drainers(s)' = Drainers(s)
    BY <1>0, <1>2 DEF Drainers
  <2>3. FlagTells(s)  BY DEF DrainInv
  <2> QED  BY <2>1, <2>2, <2>3 DEF FlagTells
<1>3. FlagTells(ServerOf[p])'
  <2> DEFINE s == ServerOf[p]
  <2>0. FlagTells(s)  BY <1>0 DEF DrainInv
  <2>1. CASE FlagKept(p)
    <3>1. Drainers(s)' = Drainers(s)  BY <1>0, <2>1 DEF Drainers, FlagKept
    <3> QED  BY <2>0, <2>1, <3>1 DEF FlagTells, FlagKept
  <2>2. CASE FlagRaised(p)
    <3>1. Drainers(s) = {}  BY <2>0, <2>2 DEF FlagTells, FlagRaised
    <3>2. Drainers(s)' = {p}  BY <1>0, <2>2, <3>1 DEF Drainers, FlagRaised
    <3>3. draining'[s] = TRUE  BY <1>0, <2>2 DEF FlagRaised
    <3> QED  BY <3>2, <3>3 DEF FlagTells
  <2>3. CASE FlagLowered(p)
    <3>1. p \in Drainers(s)  BY <2>3 DEF Drainers, FlagLowered
    <3>2. Drainers(s) = {p}  BY <2>0, <3>1 DEF FlagTells
    <3>3. Drainers(s)' = {}  BY <1>0, <2>3, <3>2 DEF Drainers, FlagLowered
    <3>4. draining'[s] = FALSE  BY <1>0, <2>3 DEF FlagLowered
    <3> QED  BY <3>3, <3>4 DEF FlagTells
  <2> QED  BY <2>1, <2>2, <2>3 DEF Goes
<1> QED  BY <1>1, <1>2, <1>3 DEF DrainInv

LEMMA NextGoes ==
  ASSUME TypeOK, TasksFit, Next
  PROVE  (\E p \in Procs : Goes(p)) \/ UNCHANGED <<pc, locals, draining>>
<1>1. ASSUME NEW p \in Procs, Request(p) \/ Work(p) \/ Rebalance(p) \/ Abort(p) \/ DrainFails(p)
      PROVE  Goes(p)
  <2>1. Fitting(p)  BY DEF TasksFit
  <2> QED
    BY <1>1, <2>1, RequestGoes, AutoGoes, DrainGoes, ClaimGoes, MoveGoes, RequeueGoes, RebalanceGoes,
       FailureGoes DEF Work
<1>2. ASSUME \/ \E a \in Agents : Elapse(a) \/ SetRole(a)
             \/ LockExpires \/ Quiet
      PROVE  UNCHANGED <<pc, locals, draining>>
  BY <1>2 DEF Elapse, SetRole, LockExpires, Quiet, vars, locals
<1> QED  BY <1>1, <1>2 DEF Next

LEMMA InvariantDrainInv == Spec => []DrainInv
<1>1. Init => DrainInv
  <2> SUFFICES ASSUME Init PROVE DrainInv  OBVIOUS
  <2>1. \A p \in Procs : pc[p] = "idle" /\ drain[p].on = FALSE  BY DEF Init, NoQueue, Queue
  <2>2. \A s \in Servers : Drainers(s) = {} /\ draining[s] = FALSE  BY <2>1 DEF Init, Drainers
  <2> QED  BY <2>1, <2>2 DEF DrainInv, TasksFit, Fitting, FlagTells, RequeueSteps, MoveSteps
<1>2. TypeOK /\ DrainInv /\ [Next]_vars => DrainInv'
  <2> SUFFICES ASSUME TypeOK, DrainInv, [Next]_vars PROVE DrainInv'  OBVIOUS
  <2>1. CASE UNCHANGED <<pc, locals, draining>>
    BY <2>1 DEF DrainInv, TasksFit, Fitting, FlagTells, Drainers, locals
  <2>2. CASE UNCHANGED vars
    BY <2>1, <2>2 DEF vars, locals
  <2> QED  BY <2>1, <2>2, NextGoes, GoesKeepsFlags DEF DrainInv
<1> QED  BY <1>1, <1>2, TypeCorrect, PTL DEF Spec

\* The draining flag of a server is up exactly while one task there is inside drainQueue, also when
\* a call in it throws (assignment.service.ts, drainQueue and its finally).
THEOREM FlagHeld == Spec => []DrainFlagHeld
<1>1. DrainInv => DrainFlagHeld
  <2> SUFFICES ASSUME DrainInv, NEW s \in Servers
               PROVE  Cardinality(Drainers(s)) = IF draining[s] THEN 1 ELSE 0
    BY DEF DrainFlagHeld, Drainers
  <2> QED  BY FS_EmptySet, FS_Singleton DEF DrainInv, FlagTells
<1> QED  BY <1>1, InvariantDrainInv, PTL

-----------------------------------------------------------------------------
(* The slots of an agent *)

Load(a) == Cardinality(ChatsOf(a)) + Cardinality(SlotHolders(a))

\* What a step of p does to the chats of a, to a's counter and to the slot p may hold.  Only an
\* automatic assignment takes a slot of somebody who is not excused, and it stays below the
\* capacity it has read.
Kept(p, a) ==
  active'[a] = active[a] /\ ChatsOf(a)' = ChatsOf(a) /\ (HoldsSlot(p, a)' <=> HoldsSlot(p, a))
Takes(p, a) ==
  /\ active'[a] = active[a] + 1 /\ ChatsOf(a)' = ChatsOf(a) /\ ~HoldsSlot(p, a) /\ HoldsSlot(p, a)'
  /\ a \in excused' \/ (pc[p] = "reserve" /\ job[p].agent = a /\ active[a] < auto[p].room)
Frees(p, a) ==
  /\ active'[a] = IF active[a] > 0 THEN active[a] - 1 ELSE active[a]
  /\ ChatsOf(a)' = ChatsOf(a) /\ HoldsSlot(p, a) /\ ~HoldsSlot(p, a)'
Wins(p, a) ==
  /\ active'[a] = active[a] /\ HoldsSlot(p, a) /\ ~HoldsSlot(p, a)'
  /\ \E c \in Chats \ ChatsOf(a) : ChatsOf(a)' = ChatsOf(a) \cup {c}
Loses(p, a) ==
  /\ active'[a] = active[a] /\ ~HoldsSlot(p, a) /\ HoldsSlot(p, a)'
  /\ \E c \in ChatsOf(a) : ChatsOf(a)' = ChatsOf(a) \ {c}
Balanced(p, a) == Kept(p, a) \/ Takes(p, a) \/ Frees(p, a) \/ Wins(p, a) \/ Loses(p, a)

\* A rebalance overwrites the counter with the right number.
Recounted(p, a) ==
  active'[a] = Load(a) /\ ChatsOf(a)' = ChatsOf(a) /\ (HoldsSlot(p, a)' <=> HoldsSlot(p, a))

SlotStep(p) ==
  /\ excused \subseteq excused'
  /\ \A a \in Agents :
       /\ limit'[a] = limit[a] \/ a \in excused'
       /\ a \in drifted' \/ Recounted(p, a) \/ (a \notin drifted /\ Balanced(p, a))

LEMMA Bounded ==
  ASSUME UNCHANGED limit, drifted \subseteq drifted', excused \subseteq excused', NEW p,
         \A a \in Agents : a \in drifted' \/ Balanced(p, a)
  PROVE  SlotStep(p)
BY DEF SlotStep

\* Whose slot a task holds at which step.
LEMMA Holding ==
  ASSUME NEW p, NEW a
  PROVE  /\ pc[p] \notin HoldSteps => ~HoldsSlot(p, a)
         /\ pc'[p] \notin HoldSteps => ~HoldsSlot(p, a)'
         /\ pc[p] \in HoldSteps \ {"move_free", "close_free"} => (HoldsSlot(p, a) <=> job[p].agent = a)
         /\ pc'[p] \in HoldSteps \ {"move_free", "close_free"} => (HoldsSlot(p, a)' <=> job'[p].agent = a)
         /\ pc[p] \in {"move_free", "close_free"} => (HoldsSlot(p, a) <=> job[p].from = a)
         /\ pc'[p] \in {"move_free", "close_free"} => (HoldsSlot(p, a)' <=> job'[p].from = a)
BY DEF HoldsSlot, HoldSteps

\* What happens to the chats of an agent when one conversation changes.
LEMMA ChatGiven ==
  ASSUME TypeOK, NEW c \in Chats, status[c] = "open", NEW x \in Agents \cup {None}, SetAssignee(c, x),
         NEW a
  PROVE  /\ a # x /\ a # assignee[c] => ChatsOf(a)' = ChatsOf(a)
         /\ a = x /\ a # assignee[c] => c \notin ChatsOf(a) /\ ChatsOf(a)' = ChatsOf(a) \cup {c}
         /\ a # x /\ a = assignee[c] => c \in ChatsOf(a) /\ ChatsOf(a)' = ChatsOf(a) \ {c}
BY DEF TypeOK, DataOK, SetAssignee, ChatsOf

LEMMA ChatClosed ==
  ASSUME TypeOK, NEW c \in Chats, status[c] = "open", NEW a \in Agents,
         status' = [status EXCEPT ![c] = "closed"], assignee' = [assignee EXCEPT ![c] = None]
  PROVE  /\ a # assignee[c] => ChatsOf(a)' = ChatsOf(a)
         /\ a = assignee[c] => c \in ChatsOf(a) /\ ChatsOf(a)' = ChatsOf(a) \ {c}
BY DEF TypeOK, DataOK, ChatsOf

LEMMA ChatReopened ==
  ASSUME TypeOK, ClosedIsUnassigned, NEW c \in Chats, ReopenIfClosed(c), NEW a \in Agents
  PROVE  ChatsOf(a)' = ChatsOf(a)
BY DEF TypeOK, DataOK, ClosedIsUnassigned, ReopenIfClosed, ChatsOf

LEMMA SameChats ==
  ASSUME UNCHANGED db, NEW a
  PROVE  ChatsOf(a)' = ChatsOf(a)
BY DEF db, ChatsOf

-----------------------------------------------------------------------------
(* The kinds of steps *)

\* No slot before, none after.
LEMMA NoSlot ==
  ASSUME NEW p, NEW a, pc[p] \notin HoldSteps, pc'[p] \notin HoldSteps,
         active' = active, ChatsOf(a)' = ChatsOf(a)
  PROVE  Balanced(p, a)
BY Holding DEF Balanced, Kept

LEMMA ReserveBalanced ==
  ASSUME TypeOK, NEW p \in Procs, job[p].agent \in Agents, Reserve(job[p].agent), UNCHANGED db,
         pc[p] \notin HoldSteps, pc'[p] \in {"assign", "claim_assign", "move"}, job'[p] = job[p],
         \/ job[p].agent \in excused'
         \/ pc[p] = "reserve" /\ active[job[p].agent] < auto[p].room,
         NEW a \in Agents
  PROVE  Balanced(p, a)
<1>1. ~HoldsSlot(p, a) /\ (HoldsSlot(p, a)' <=> job[p].agent = a)
  BY Holding DEF HoldSteps
<1>2. active'[a] = IF a = job[p].agent THEN active[a] + 1 ELSE active[a]
  BY DEF Reserve, TypeOK, DataOK
<1> QED  BY <1>1, <1>2, SameChats DEF Balanced, Kept, Takes

LEMMA ReleaseBalanced ==
  ASSUME TypeOK, NEW p \in Procs, NEW x \in Agents, ReleaseSlot(x), UNCHANGED db,
         pc'[p] \notin HoldSteps, NEW a \in Agents, HoldsSlot(p, a) <=> a = x
  PROVE  Balanced(p, a)
<1>1. ~HoldsSlot(p, a)'  BY Holding
<1>2. active'[a] = IF a = x THEN IF active[a] > 0 THEN active[a] - 1 ELSE active[a] ELSE active[a]
  BY DEF ReleaseSlot, TypeOK, DataOK
<1> QED  BY <1>1, <1>2, SameChats DEF Balanced, Kept, Frees

\* An assignment turns the slot into a chat.
LEMMA AssignBalanced ==
  ASSUME TypeOK, NEW p \in Procs, NEW c \in Chats, Unassigned(c), NEW x \in Agents, SetAssignee(c, x),
         active' = active, pc'[p] \notin HoldSteps, NEW a \in Agents, HoldsSlot(p, a) <=> a = x
  PROVE  Balanced(p, a)
<1>1. ~HoldsSlot(p, a)'  BY Holding
<1>2. status[c] = "open" /\ a # assignee[c]  BY DEF Unassigned
<1>3. IF a = x THEN c \in Chats \ ChatsOf(a) /\ ChatsOf(a)' = ChatsOf(a) \cup {c}
               ELSE ChatsOf(a)' = ChatsOf(a)
  BY <1>2, ChatGiven
<1> QED  BY <1>1, <1>3 DEF Balanced, Kept, Wins

\* The slot in hand goes on to the step that returns it.
LEMMA HandOver ==
  ASSUME NEW p, pc[p] \in {"assign", "claim_assign", "move"}, pc'[p] \in {"undo", "give_back"},
         job'[p] = job[p], active' = active, UNCHANGED db, NEW a
  PROVE  Balanced(p, a)
<1>1. HoldsSlot(p, a)' <=> HoldsSlot(p, a)  BY Holding DEF HoldSteps
<1> QED  BY <1>1, SameChats DEF Balanced, Kept

-----------------------------------------------------------------------------
(* Counting *)

LEMMA Finite ==
  \A a : /\ IsFiniteSet(ChatsOf(a)) /\ IsFiniteSet(SlotHolders(a))
         /\ IsFiniteSet(ChatsOf(a)') /\ IsFiniteSet(SlotHolders(a)')
         /\ Cardinality(ChatsOf(a)) \in Nat /\ Cardinality(SlotHolders(a)) \in Nat
<1>1. \A a : /\ ChatsOf(a) \subseteq Chats /\ SlotHolders(a) \subseteq Procs
             /\ ChatsOf(a)' \subseteq Chats /\ SlotHolders(a)' \subseteq Procs
  BY DEF ChatsOf, SlotHolders
<1> QED  BY <1>1, FiniteAssumption, FS_Subset, FS_CardinalityType

\* The holders of a's slots change by p at most.
LEMMA HoldersChange ==
  ASSUME NEW p \in Procs, Untouched(p), NEW a
  PROVE  SlotHolders(a)' = IF HoldsSlot(p, a)' THEN SlotHolders(a) \cup {p} ELSE SlotHolders(a) \ {p}
<1>1. ASSUME NEW q \in Procs \ {p} PROVE HoldsSlot(q, a)' <=> HoldsSlot(q, a)
  BY <1>1 DEF Untouched, HoldsSlot
<1> QED  BY <1>1 DEF SlotHolders

LEMMA HolderCount ==
  ASSUME NEW p \in Procs, Untouched(p), NEW a
  PROVE  /\ (HoldsSlot(p, a)' <=> HoldsSlot(p, a)) => SlotHolders(a)' = SlotHolders(a)
         /\ ~HoldsSlot(p, a) /\ HoldsSlot(p, a)'
              => Cardinality(SlotHolders(a)') = Cardinality(SlotHolders(a)) + 1
         /\ HoldsSlot(p, a) /\ ~HoldsSlot(p, a)'
              => /\ Cardinality(SlotHolders(a)') = Cardinality(SlotHolders(a)) - 1
                 /\ Cardinality(SlotHolders(a)) > 0
<1>1. HoldsSlot(p, a) <=> p \in SlotHolders(a)  BY DEF SlotHolders
<1>2. CASE HoldsSlot(p, a)' <=> HoldsSlot(p, a)
  BY <1>1, <1>2, HoldersChange
<1>3. CASE ~HoldsSlot(p, a) /\ HoldsSlot(p, a)'
  BY <1>1, <1>3, HoldersChange, Finite, FS_AddElement
<1>4. CASE HoldsSlot(p, a) /\ ~HoldsSlot(p, a)'
  <2>1. Cardinality(SlotHolders(a)) # 0  BY <1>1, <1>4, Finite, FS_EmptySet
  <2> QED  BY <1>1, <1>4, <2>1, HoldersChange, Finite, FS_RemoveElement
<1> QED  BY <1>2, <1>3, <1>4

LEMMA StaysExact ==
  ASSUME TypeOK, NEW p \in Procs, Untouched(p), NEW a \in Agents, Balanced(p, a), Exact(a)
  PROVE  Exact(a)'
<1>0. /\ active[a] \in Nat /\ active[a] = Cardinality(ChatsOf(a)) + Cardinality(SlotHolders(a))
      /\ Cardinality(ChatsOf(a)) \in Nat /\ Cardinality(SlotHolders(a)) \in Nat
  BY Finite DEF TypeOK, DataOK, Exact
<1> SUFFICES active'[a] = Cardinality(ChatsOf(a)') + Cardinality(SlotHolders(a)')
  BY DEF Exact
<1>1. CASE Kept(p, a)
  BY <1>0, <1>1, HolderCount DEF Kept
<1>2. CASE Takes(p, a)
  BY <1>0, <1>2, HolderCount DEF Takes
<1>3. CASE Frees(p, a)
  BY <1>0, <1>3, HolderCount DEF Frees
<1>4. CASE Wins(p, a)
  <2>1. Cardinality(ChatsOf(a)') = Cardinality(ChatsOf(a)) + 1
    BY <1>4, Finite, FS_AddElement DEF Wins
  <2>2. Cardinality(SlotHolders(a)') = Cardinality(SlotHolders(a)) - 1
    BY <1>4, HolderCount DEF Wins
  <2> QED  BY <1>0, <1>4, <2>1, <2>2 DEF Wins
<1>5. CASE Loses(p, a)
  <2>1. Cardinality(ChatsOf(a)') = Cardinality(ChatsOf(a)) - 1
    BY <1>5, Finite, FS_RemoveElement DEF Loses
  <2>2. Cardinality(SlotHolders(a)') = Cardinality(SlotHolders(a)) + 1
    BY <1>5, HolderCount DEF Loses
  <2> QED  BY <1>0, <1>5, <2>1, <2>2 DEF Loses
<1> QED  BY <1>1, <1>2, <1>3, <1>4, <1>5 DEF Balanced

LEMMA BecomesExact ==
  ASSUME NEW p \in Procs, Untouched(p), NEW a \in Agents, Recounted(p, a)
  PROVE  Exact(a)'
<1>1. SlotHolders(a)' = SlotHolders(a)  BY HolderCount DEF Recounted
<1> QED  BY <1>1 DEF Recounted, Load, Exact

-----------------------------------------------------------------------------
(* What each action does to the slots *)

LEMMA AutoSlots ==
  ASSUME TypeOK, NEW p \in Procs, Goes(p),
         AutoRead(p) \/ Rank(p) \/ Pick(p) \/ AutoReserve(p) \/ AutoAssign(p) \/ AutoUndo(p)
  PROVE  SlotStep(p)
<1>0. TasksOK /\ DataOK  BY DEF TypeOK
<1>1. UNCHANGED <<limit, drifted, excused>>
  BY DEF AutoRead, Rank, Pick, AutoReserve, AutoAssign, AutoUndo, env, history
<1> SUFFICES ASSUME NEW a \in Agents PROVE Balanced(p, a)
  BY <1>1, Bounded
<1>2. CASE AutoRead(p) \/ Rank(p) \/ Pick(p)
  <2>1. pc[p] \notin HoldSteps /\ UNCHANGED <<active, db>>
    BY <1>2 DEF AutoRead, Rank, Pick, HoldSteps
  <2>2. pc'[p] \in {"rank", "next", "idle", "pick", "reserve", "staff"}
    <3>1. CASE AutoRead(p)
      BY <1>0, <3>1, StepFacts, AutoEndFacts DEF AutoRead
    <3>2. CASE Rank(p)
      BY <1>0, <3>2 DEF Rank, Goto, TasksOK
    <3>3. CASE Pick(p)
      BY <1>0, <3>3, EndFacts, ReturnFacts DEF Pick, DrainReturn, Goto, TasksOK
    <3> QED  BY <1>2, <3>1, <3>2, <3>3
  <2> QED  BY <2>1, <2>2, NoSlot, SameChats DEF HoldSteps
<1>3. CASE AutoReserve(p)
  <2>0. /\ pc[p] = "reserve" /\ pc[p] \notin HoldSteps /\ UNCHANGED db
        /\ job[p].agent \in Agents
    BY <1>0, <1>3, JobParts DEF AutoReserve, HoldSteps, Fits, AgentSteps
  <2>1. CASE active[job[p].agent] < auto[p].room
    <3>1. Reserve(job[p].agent) /\ pc'[p] = "assign" /\ job'[p] = job[p]
      BY <1>0, <1>3, <2>1, StepFacts DEF AutoReserve
    <3> QED  BY <2>0, <2>1, <3>1, ReserveBalanced
  <2>2. CASE ~(active[job[p].agent] < auto[p].room)
    <3>1. active' = active /\ pc'[p] = "pick"
      BY <1>0, <1>3, <2>2, StepWithFacts DEF AutoReserve
    <3> QED  BY <2>0, <3>1, NoSlot, SameChats DEF HoldSteps
  <2> QED  BY <2>1, <2>2
<1>4. CASE AutoAssign(p)
  <2>0. /\ pc[p] = "assign" /\ active' = active
        /\ job[p].chat \in Chats /\ job[p].agent \in Agents
        /\ (HoldsSlot(p, a) <=> a = job[p].agent)
    BY <1>0, <1>4, JobParts, Holding DEF AutoAssign, HoldSteps, Fits, AgentSteps, ChatSteps, AutoSteps
  <2>1. CASE Unassigned(job[p].chat)
    <3>1. SetAssignee(job[p].chat, job[p].agent) /\ pc'[p] \in {"idle", "next"}
      BY <1>0, <1>4, <2>1, AutoEndFacts DEF AutoAssign
    <3>2. pc'[p] \notin HoldSteps  BY <3>1 DEF HoldSteps
    <3> QED  BY <2>0, <2>1, <3>1, <3>2, AssignBalanced
  <2>2. CASE ~Unassigned(job[p].chat)
    BY <1>0, <1>4, <2>0, <2>2, StepFacts, HandOver DEF AutoAssign
  <2> QED  BY <2>1, <2>2
<1>5. CASE AutoUndo(p)
  <2>1. /\ ReleaseSlot(job[p].agent) /\ UNCHANGED db /\ pc'[p] \notin HoldSteps
    BY <1>0, <1>5, AutoEndFacts DEF AutoUndo, HoldSteps
  <2>2. job[p].agent \in Agents /\ (HoldsSlot(p, a) <=> a = job[p].agent)
    BY <1>0, <1>5, JobParts, Holding DEF AutoUndo, HoldSteps, Fits, AgentSteps
  <2> QED  BY <2>1, <2>2, ReleaseBalanced
<1> QED  BY <1>2, <1>3, <1>4, <1>5

LEMMA DrainSlots ==
  ASSUME TypeOK, NEW p \in Procs, Drain(p) \/ DrainNext(p)
  PROVE  SlotStep(p)
<1>0. TasksOK  BY DEF TypeOK
<1>1. UNCHANGED <<limit, drifted, excused, active, db>> /\ pc[p] \notin HoldSteps
  BY DEF Drain, DrainNext, env, history, HoldSteps
<1>2. pc'[p] \in {"idle", "staff", "next", "read"}
  BY <1>0, ReturnFacts DEF Drain, DrainNext, DrainReturn, Goto, TasksOK
<1>3. \A a \in Agents : Balanced(p, a)
  BY <1>1, <1>2, NoSlot, SameChats DEF HoldSteps
<1> QED  BY <1>1, <1>3, Bounded

LEMMA ClaimSlots ==
  ASSUME TypeOK, NEW p \in Procs,
         ReplyRead(p) \/ ClaimRead(p) \/ ClaimReserve(p) \/ ClaimAssign(p) \/ GiveBack(p) \/ SaveReply(p)
  PROVE  SlotStep(p)
<1>0. TasksOK /\ DataOK  BY DEF TypeOK
<1>1. UNCHANGED <<limit, drifted>> /\ excused \subseteq excused'
  BY DEF ReplyRead, ClaimRead, ClaimReserve, ClaimAssign, GiveBack, SaveReply, env, history, Excuse
<1> SUFFICES ASSUME NEW a \in Agents PROVE Balanced(p, a)
  BY <1>1, Bounded
<1>2. CASE ReplyRead(p) \/ ClaimRead(p) \/ SaveReply(p)
  <2>1. pc[p] \notin HoldSteps /\ UNCHANGED <<active, db>>
    BY <1>2 DEF ReplyRead, ClaimRead, SaveReply, HoldSteps
  <2>2. pc'[p] \in {"save", "claim_read", "claim_reserve", "idle"}
    BY <1>0, <1>2, StepFacts, EndFacts DEF ReplyRead, ClaimRead, SaveReply
  <2> QED  BY <2>1, <2>2, NoSlot, SameChats DEF HoldSteps
<1>3. CASE ClaimReserve(p)
  <2>1. /\ Reserve(job[p].agent) /\ UNCHANGED db /\ job[p].agent \in excused' /\ pc[p] \notin HoldSteps
        /\ pc'[p] = "claim_assign" /\ job'[p] = job[p]
    BY <1>0, <1>3, StepFacts DEF ClaimReserve, Excuse, HoldSteps
  <2>2. job[p].agent \in Agents
    BY <1>0, <1>3, JobParts DEF ClaimReserve, Fits, AgentSteps
  <2> QED  BY <2>1, <2>2, ReserveBalanced
<1>4. CASE ClaimAssign(p)
  <2>0. /\ pc[p] = "claim_assign" /\ active' = active
        /\ job[p].chat \in Chats /\ job[p].agent \in Agents
        /\ (HoldsSlot(p, a) <=> a = job[p].agent)
    BY <1>0, <1>4, JobParts, Holding DEF ClaimAssign, HoldSteps, Fits, AgentSteps, ChatSteps
  <2>1. CASE Unassigned(job[p].chat)
    <3>1. SetAssignee(job[p].chat, job[p].agent) /\ pc'[p] \in {"idle", "save"}
      BY <1>0, <1>4, <2>1, StepFacts, EndFacts DEF ClaimAssign
    <3>2. pc'[p] \notin HoldSteps  BY <3>1 DEF HoldSteps
    <3> QED  BY <2>0, <2>1, <3>1, <3>2, AssignBalanced
  <2>2. CASE ~Unassigned(job[p].chat)
    BY <1>0, <1>4, <2>0, <2>2, StepFacts, HandOver DEF ClaimAssign
  <2> QED  BY <2>1, <2>2
<1>5. CASE GiveBack(p)
  <2>1. ReleaseSlot(job[p].agent) /\ UNCHANGED db /\ pc'[p] \notin HoldSteps
    BY <1>0, <1>5, EndFacts DEF GiveBack, HoldSteps
  <2>2. job[p].agent \in Agents /\ (HoldsSlot(p, a) <=> a = job[p].agent)
    BY <1>0, <1>5, JobParts, Holding DEF GiveBack, HoldSteps, Fits, AgentSteps
  <2> QED  BY <2>1, <2>2, ReleaseBalanced
<1> QED  BY <1>2, <1>3, <1>4, <1>5

\* A transfer that succeeds takes the chat from one agent and turns the slot of another into it.
LEMMA MoveSlots ==
  ASSUME TypeOK, NEW p \in Procs, Fitting(p),
         MoveCheck(p) \/ MoveReserve(p) \/ Move(p) \/ MoveFree(p)
  PROVE  SlotStep(p)
<1>0. TasksOK /\ DataOK  BY DEF TypeOK
<1>1. UNCHANGED <<limit, drifted>> /\ excused \subseteq excused'
  BY DEF MoveCheck, MoveReserve, Move, MoveFree, env, history, Excuse
<1> SUFFICES ASSUME NEW a \in Agents PROVE Balanced(p, a)
  BY <1>1, Bounded
<1>e. MoveEnd(p) => pc'[p] \in {"read", "idle"}
  BY <1>0, StepWithFacts, EndFacts DEF MoveEnd
<1>2. CASE MoveCheck(p)
  <2>1. pc[p] \notin HoldSteps /\ UNCHANGED <<active, db>> /\ pc'[p] \in {"move_reserve", "idle"}
    BY <1>0, <1>2, StepFacts, EndFacts DEF MoveCheck, HoldSteps
  <2> QED  BY <2>1, NoSlot, SameChats DEF HoldSteps
<1>3. CASE MoveReserve(p)
  <2>1. /\ Reserve(job[p].agent) /\ UNCHANGED db /\ job[p].agent \in excused' /\ pc[p] \notin HoldSteps
        /\ pc'[p] = "move" /\ job'[p] = job[p]
    BY <1>0, <1>3, StepFacts DEF MoveReserve, Excuse, HoldSteps
  <2>2. job[p].agent \in Agents
    BY <1>0, <1>3, JobParts DEF MoveReserve, Fits, AgentSteps
  <2> QED  BY <2>1, <2>2, ReserveBalanced
<1>4. CASE Move(p)
  <2>0. /\ pc[p] = "move" /\ active' = active /\ job[p].chat \in Chats
        /\ job[p].from # job[p].agent /\ (HoldsSlot(p, a) <=> a = job[p].agent)
        /\ job[p].agent \in Agents \cup {None}
    BY <1>0, <1>4, JobParts, Holding DEF Move, Fitting, MoveSteps, HoldSteps, Fits, ChatSteps
  <2>1. CASE HeldBy(job[p].chat, job[p].from)
    <3>1. /\ SetAssignee(job[p].chat, job[p].agent)
          /\ status[job[p].chat] = "open" /\ assignee[job[p].chat] = job[p].from
      BY <1>4, <2>1 DEF Move, HeldBy
    <3>2. IF job[p].from # None THEN pc'[p] = "move_free" /\ job'[p] = job[p]
                                ELSE pc'[p] \in {"read", "idle"}
      BY <1>0, <1>e, <1>4, <2>1, StepFacts DEF Move
    <3>3. HoldsSlot(p, a)' <=> a = job[p].from
      BY <3>2, Holding DEF HoldSteps
    <3>4. /\ a # job[p].agent /\ a # job[p].from => ChatsOf(a)' = ChatsOf(a)
          /\ a = job[p].agent => job[p].chat \in Chats \ ChatsOf(a)
                                 /\ ChatsOf(a)' = ChatsOf(a) \cup {job[p].chat}
          /\ a = job[p].from => job[p].chat \in ChatsOf(a) /\ ChatsOf(a)' = ChatsOf(a) \ {job[p].chat}
      BY <2>0, <3>1, ChatGiven
    <3> QED  BY <2>0, <3>3, <3>4 DEF Balanced, Kept, Wins, Loses
  <2>2. CASE ~HeldBy(job[p].chat, job[p].from) /\ job[p].agent # None
    BY <1>0, <1>4, <2>0, <2>2, StepFacts, HandOver DEF Move
  <2>3. CASE ~HeldBy(job[p].chat, job[p].from) /\ job[p].agent = None
    <3>1. UNCHANGED db /\ pc'[p] = "idle"
      BY <1>0, <1>4, <2>3, EndFacts DEF Move
    <3>2. ~HoldsSlot(p, a) /\ ~HoldsSlot(p, a)'
      BY <2>0, <2>3, <3>1, Holding DEF HoldSteps
    <3> QED  BY <2>0, <3>1, <3>2, SameChats DEF Balanced, Kept
  <2> QED  BY <2>1, <2>2, <2>3
<1>5. CASE MoveFree(p)
  <2>1. ReleaseSlot(job[p].from) /\ UNCHANGED db /\ pc'[p] \notin HoldSteps
    BY <1>e, <1>5 DEF MoveFree, HoldSteps
  <2>2. job[p].from \in Agents /\ (HoldsSlot(p, a) <=> a = job[p].from)
    BY <1>0, <1>5, JobParts, Holding DEF MoveFree, Fits
  <2> QED  BY <2>1, <2>2, ReleaseBalanced
<1> QED  BY <1>2, <1>3, <1>4, <1>5

\* A close takes the chat from the agent who has it; the slot it will return is that agent's, or
\* both agents drift.
LEMMA CloseSlots ==
  ASSUME TypeOK, NEW p \in Procs, CloseWrite(p) \/ CloseFree(p)
  PROVE  SlotStep(p)
<1>0. TasksOK /\ DataOK  BY DEF TypeOK
<1>1. UNCHANGED limit /\ drifted \subseteq drifted' /\ excused \subseteq excused'
  BY DEF CloseWrite, CloseFree, env, history, Drift
<1> SUFFICES ASSUME NEW a \in Agents, a \notin drifted' PROVE Balanced(p, a)
  BY <1>1, Bounded
<1>2. CASE CloseWrite(p)
  <2>0. /\ pc[p] = "close" /\ active' = active /\ job[p].chat \in Chats /\ ~HoldsSlot(p, a)
    BY <1>0, <1>2, JobParts, Holding DEF CloseWrite, Fits, ChatSteps, HoldSteps
  <2>1. CASE status[job[p].chat] = "open"
    <3>1. /\ status' = [status EXCEPT ![job[p].chat] = "closed"]
          /\ assignee' = [assignee EXCEPT ![job[p].chat] = None]
          /\ Drift(IF assignee[job[p].chat] = job[p].from THEN {}
                   ELSE {assignee[job[p].chat], job[p].from} \ {None})
          /\ Step(p, IF job[p].from = None THEN "drain" ELSE "close_free")
      BY <1>2, <2>1 DEF CloseWrite
    <3>2. (a = assignee[job[p].chat]) <=> (a = job[p].from)
      BY <3>1 DEF Drift
    <3>3. HoldsSlot(p, a)' <=> a = job[p].from
      <4>1. job'[p] = job[p] /\ pc'[p] = IF job[p].from = None THEN "drain" ELSE "close_free"
        BY <1>0, <3>1, StepFacts
      <4>2. CASE job[p].from = None
        <5>1. pc'[p] \notin HoldSteps  BY <4>1, <4>2 DEF HoldSteps
        <5> QED  BY <4>2, <5>1, Holding
      <4>3. CASE job[p].from # None
        BY <4>1, <4>3, Holding
      <4> QED  BY <4>2, <4>3
    <3>4. /\ a # assignee[job[p].chat] => ChatsOf(a)' = ChatsOf(a)
          /\ a = assignee[job[p].chat] =>
               job[p].chat \in ChatsOf(a) /\ ChatsOf(a)' = ChatsOf(a) \ {job[p].chat}
      BY <2>0, <2>1, <3>1, ChatClosed
    <3> QED  BY <2>0, <3>2, <3>3, <3>4 DEF Balanced, Kept, Loses
  <2>2. CASE status[job[p].chat] # "open"
    <3>1. UNCHANGED db /\ pc'[p] = "idle"
      BY <1>0, <1>2, <2>2, EndFacts DEF CloseWrite
    <3> QED  BY <2>0, <3>1, NoSlot, SameChats DEF HoldSteps
  <2> QED  BY <2>1, <2>2
<1>3. CASE CloseFree(p)
  <2>1. ReleaseSlot(job[p].from) /\ UNCHANGED db /\ pc'[p] \notin HoldSteps
    BY <1>0, <1>3, StepWithFacts DEF CloseFree, HoldSteps
  <2>2. job[p].from \in Agents /\ (HoldsSlot(p, a) <=> a = job[p].from)
    BY <1>0, <1>3, JobParts, Holding DEF CloseFree, Fits
  <2> QED  BY <2>1, <2>2, ReleaseBalanced
<1> QED  BY <1>2, <1>3

\* A requeue takes a chat from the agent at hand and returns that agent's slot next.
LEMMA RequeueSlots ==
  ASSUME TypeOK, NEW p \in Procs, Fitting(p),
         Status(p) \/ Offline(p) \/ Requeue(p) \/ RequeueNext(p) \/ RequeueFree(p)
  PROVE  SlotStep(p)
<1>0. TasksOK /\ DataOK  BY DEF TypeOK
<1>1. UNCHANGED <<limit, drifted, excused>>
  BY DEF Status, Offline, Requeue, RequeueNext, RequeueFree, env, history
<1> SUFFICES ASSUME NEW a \in Agents PROVE Balanced(p, a)
  BY <1>1, Bounded
<1>2. CASE Status(p) \/ Offline(p) \/ Requeue(p)
  <2>1. pc[p] \notin HoldSteps /\ UNCHANGED <<active, db>>
    BY <1>2 DEF Status, Offline, Requeue, HoldSteps
  <2>2. pc'[p] \in {"drain", "offline", "idle", "requeue", "requeue_next"}
    <3>1. CASE Status(p)
      <4>1. StepWith(p, "drain", NoJob) \/ Step(p, "offline") \/ End(p)  BY <3>1 DEF Status
      <4>2. CASE StepWith(p, "drain", NoJob)  BY <1>0, <4>2, StepWithFacts
      <4>3. CASE Step(p, "offline")  BY <1>0, <4>3, StepFacts
      <4>4. CASE End(p)  BY <1>0, <4>4, EndFacts
      <4> QED  BY <4>1, <4>2, <4>3, <4>4
    <3>2. CASE Offline(p)
      BY <1>0, <3>2, StepFacts, EndFacts DEF Offline
    <3>3. CASE Requeue(p)
      BY <1>0, <3>3 DEF Requeue, Goto, TasksOK
    <3> QED  BY <1>2, <3>1, <3>2, <3>3
  <2> QED  BY <2>1, <2>2, NoSlot, SameChats DEF HoldSteps
<1>3. CASE RequeueNext(p)
  <2>0. pc[p] = "requeue_next" /\ active' = active /\ requeue[p].todo \in SUBSET (Chats \X Agents)
        /\ \A w \in requeue[p].todo : w[2] = job[p].agent
    BY <1>0, <1>3 DEF RequeueNext, TasksOK, PairsType, Fitting, RequeueSteps
  <2>1. CASE UNCHANGED db /\ pc'[p] \in {"requeue_next", "drain", "idle", "staff"}
    BY <2>0, <2>1, NoSlot, SameChats DEF HoldSteps
  <2>2. CASE /\ requeue[p].todo = {}
             /\ IF requeue[p].moved THEN Step(p, "drain") ELSE Return(p)
             /\ UNCHANGED db
    BY <1>0, <2>1, <2>2, StepFacts, ReturnFacts
  <2>3. ASSUME NEW w \in requeue[p].todo, HeldBy(w[1], w[2]), SetAssignee(w[1], None),
               Goto(p, "requeue_free"), UNCHANGED job
        PROVE  Balanced(p, a)
    <3>1. /\ w[1] \in Chats /\ status[w[1]] = "open" /\ assignee[w[1]] = job[p].agent
      BY <2>0, <2>3 DEF HeldBy
    <3>2. pc'[p] = "requeue_free" /\ job'[p] = job[p]
      BY <1>0, <2>3 DEF Goto, TasksOK
    <3>3. ~HoldsSlot(p, a) /\ (HoldsSlot(p, a)' <=> a = job[p].agent)
      BY <2>0, <3>2, Holding DEF HoldSteps
    <3>4. /\ a # job[p].agent => ChatsOf(a)' = ChatsOf(a)
          /\ a = job[p].agent => w[1] \in ChatsOf(a) /\ ChatsOf(a)' = ChatsOf(a) \ {w[1]}
      BY <2>3, <3>1, ChatGiven
    <3> QED  BY <2>0, <3>3, <3>4 DEF Balanced, Kept, Loses
  <2>4. CASE UNCHANGED <<db, pc>>
    BY <2>0, <2>1, <2>4
  <2> QED  BY <1>3, <2>2, <2>3, <2>4 DEF RequeueNext
<1>4. CASE RequeueFree(p)
  <2>1. ReleaseSlot(job[p].agent) /\ UNCHANGED db /\ pc'[p] \notin HoldSteps
    BY <1>0, <1>4, StepFacts DEF RequeueFree, HoldSteps
  <2>2. job[p].agent \in Agents /\ (HoldsSlot(p, a) <=> a = job[p].agent)
    BY <1>0, <1>4, JobParts, Holding DEF RequeueFree, HoldSteps, Fits, AgentSteps
  <2> QED  BY <2>1, <2>2, ReleaseBalanced
<1> QED  BY <1>2, <1>3, <1>4

\* An overwritten counter is right, or its agent has drifted.
LEMMA SyncSlots ==
  ASSUME TypeOK, NEW p \in Procs, Sync(p)
  PROVE  SlotStep(p)
<1>0. TasksOK /\ DataOK  BY DEF TypeOK
<1>1. UNCHANGED <<limit, db>> /\ pc[p] \notin HoldSteps
  BY DEF Sync, env, HoldSteps
<1>2. PICK x \in round[p].staff :
        /\ active' = [active EXCEPT ![x] = round[p].counts[x]]
        /\ IF round[p].counts[x] = Load(x) THEN drifted' = drifted \ {x} /\ UNCHANGED excused ELSE Drift({x})
        /\ pc'[p] \in {"presence", "sync"}
  BY <1>0 DEF Sync, Load, Goto, TasksOK
<1>3. excused \subseteq excused' /\ drifted \subseteq drifted' \cup {x}
  BY <1>2 DEF Drift
<1>4. pc'[p] \notin HoldSteps  BY <1>2 DEF HoldSteps
<1>5. ASSUME NEW a \in Agents, a # x, a \notin drifted' PROVE a \notin drifted /\ Balanced(p, a)
  <2>1. active'[a] = active[a]  BY <1>0, <1>2, <1>5 DEF DataOK
  <2> QED  BY <1>1, <1>3, <1>4, <1>5, <2>1, Holding, SameChats DEF Balanced, Kept
<1>6. ASSUME x \in Agents, x \notin drifted' PROVE Recounted(p, x)
  <2>1. round[p].counts[x] = Load(x)  BY <1>2, <1>6 DEF Drift
  <2>2. active'[x] = Load(x)  BY <1>0, <1>2, <1>6, <2>1 DEF DataOK
  <2> QED  BY <1>1, <1>4, <2>2, Holding, SameChats DEF Recounted
<1> QED  BY <1>1, <1>3, <1>5, <1>6 DEF SlotStep

LEMMA RebalanceSlots ==
  ASSUME TypeOK, NEW p \in Procs,
         Roster(p) \/ Count(p) \/ Snapshot(p) \/ NextStaff(p) \/ Orphans(p)
  PROVE  SlotStep(p)
<1>0. TasksOK /\ DataOK  BY DEF TypeOK
<1>1. /\ UNCHANGED <<limit, active>> /\ drifted \subseteq drifted' /\ excused \subseteq excused'
      /\ pc[p] \notin HoldSteps
  BY DEF Roster, Count, Snapshot, NextStaff, Orphans, env, history, HoldSteps, Drift
<1> SUFFICES ASSUME NEW a \in Agents, a \notin drifted' PROVE Balanced(p, a)
  BY <1>1, Bounded
<1>2. pc'[p] \in {"count", "sync", "presence", "staff", "requeue_next", "orphans", "drain"}
  BY <1>0 DEF Roster, Count, Snapshot, NextStaff, Orphans, Goto, TasksOK
<1>3. pc'[p] \notin HoldSteps  BY <1>2 DEF HoldSteps
<1>4. CASE UNCHANGED db
  BY <1>1, <1>3, <1>4, NoSlot, SameChats
<1>5. CASE Orphans(p) /\ ~UNCHANGED db
  <2>1. PICK w \in requeue[p].todo : HeldBy(w[1], w[2]) /\ SetAssignee(w[1], None) /\ Drift({w[2]})
    BY <1>5 DEF Orphans
  <2>2. /\ w[1] \in Chats /\ status[w[1]] = "open" /\ a # assignee[w[1]]
    BY <1>0, <2>1 DEF TasksOK, PairsType, HeldBy, Drift
  <2>3. ChatsOf(a)' = ChatsOf(a)  BY <2>1, <2>2, ChatGiven
  <2> QED  BY <1>1, <1>3, <2>3, NoSlot
<1> QED  BY <1>4, <1>5 DEF Roster, Count, Snapshot, NextStaff

LEMMA RequestSlots ==
  ASSUME TypeOK, ClosedIsUnassigned, NEW p \in Procs, Request(p) \/ Rebalance(p)
  PROVE  SlotStep(p)
<1>0. TasksOK /\ DataOK  BY DEF TypeOK
<1>1. /\ active' = active /\ drifted' = drifted /\ excused \subseteq excused' /\ pc[p] \notin HoldSteps
      /\ \A a \in Agents : limit'[a] = limit[a] \/ a \in excused'
  BY <1>0
     DEF Request, Rebalance, Call, Message, Close, Claim, Reply, Transfer, SetAvailability, SetLimit,
         PresenceChange, env, history, Excuse, HoldSteps, DataOK
<1> SUFFICES ASSUME NEW a \in Agents PROVE Balanced(p, a)
  BY <1>1 DEF SlotStep
<1>2. ChatsOf(a)' = ChatsOf(a)
  BY SameChats, ChatReopened
     DEF Request, Rebalance, Message, Close, Claim, Reply, Transfer, SetAvailability, SetLimit,
         PresenceChange
<1>3. CASE \E j : \E s \in {"read", "close", "claim_reserve", "reply_read", "status", "move_check"} :
             StepWith(p, s, j)
  <2>1. pc'[p] \notin HoldSteps  BY <1>0, <1>3, StepWithFacts DEF HoldSteps
  <2> QED  BY <1>1, <1>2, <2>1, NoSlot
<1>4. CASE Rebalance(p)
  <2>1. pc'[p] \notin HoldSteps  BY <1>0, <1>4, StepFacts DEF Rebalance, HoldSteps
  <2> QED  BY <1>1, <1>2, <2>1, NoSlot
<1>5. ASSUME NEW c \in Chats, Transfer(p, c, None) PROVE Balanced(p, a)
  <2>1. pc'[p] = "move" /\ job'[p] = Job(c, None, assignee[c], FALSE)
    BY <1>0, <1>5 DEF Transfer, StepWith, Goto, SetJob, TasksOK
  <2>2. job'[p].agent = None  BY <2>1 DEF Job
  <2>3. ~HoldsSlot(p, a) /\ ~HoldsSlot(p, a)'
    BY <1>1, <2>1, <2>2, Holding DEF HoldSteps
  <2> QED  BY <1>1, <1>2, <2>3 DEF Balanced, Kept
<1>6. ASSUME NEW c \in Chats, NEW to \in Agents, Transfer(p, c, to) PROVE Balanced(p, a)
  BY <1>3, <1>6 DEF Transfer
<1> QED
  BY <1>3, <1>4, <1>5, <1>6
     DEF Request, Message, Close, Claim, Reply, SetAvailability, SetLimit, PresenceChange

\* A task that fails makes those drift whose slot it holds.
LEMMA FailureSlots ==
  ASSUME TypeOK, NEW p \in Procs, Abort(p) \/ DrainFails(p)
  PROVE  SlotStep(p)
<1>0. TasksOK  BY DEF TypeOK
<1>1. /\ UNCHANGED <<limit, active, db>> /\ drifted \subseteq drifted' /\ excused \subseteq excused'
      /\ \A a \in Agents : HoldsSlot(p, a) => a \in drifted'
  BY DEF Abort, DrainFails, env, SlotLost, Drift
<1>2. pc'[p] \in {"idle", "staff"}
  BY <1>0, EndFacts, ReturnFacts DEF Abort, DrainFails, DrainReturn
<1>3. ASSUME NEW a \in Agents, a \notin drifted' PROVE Balanced(p, a)
  <2>1. ~HoldsSlot(p, a)'  BY <1>2, Holding DEF HoldSteps
  <2> QED  BY <1>1, <1>3, <2>1, SameChats DEF Balanced, Kept
<1> QED  BY <1>1, <1>3, Bounded

-----------------------------------------------------------------------------
(* The invariant of the slots *)

\* Whoever is not excused is not above the limit, and what a task has read of it still holds.
WithinLimit(a) ==
  /\ active[a] <= limit[a]
  /\ \A p \in Procs : pc[p] = "reserve" /\ job[p].agent = a => auto[p].room = limit[a]
SlotInv == DrainInv /\ CounterExact /\ \A a \in Agents \ excused : WithinLimit(a)

LEMMA NextSlots ==
  ASSUME TypeOK, ClosedIsUnassigned, DrainInv, Next
  PROVE  \/ \E p \in Procs : Goes(p) /\ SlotStep(p)
         \/ UNCHANGED <<db, active, limit, pc, locals, draining, history>>
<1>1. ASSUME NEW p \in Procs, Request(p) \/ Work(p) \/ Rebalance(p) \/ Abort(p) \/ DrainFails(p)
      PROVE  Goes(p) /\ SlotStep(p)
  <2>1. Fitting(p)  BY DEF DrainInv, TasksFit
  <2>2. Goes(p)
    BY <1>1, <2>1, RequestGoes, AutoGoes, DrainGoes, ClaimGoes, MoveGoes, RequeueGoes, RebalanceGoes,
       FailureGoes DEF Work
  <2>3. SlotStep(p)
    BY <1>1, <2>1, <2>2, RequestSlots, AutoSlots, DrainSlots, ClaimSlots, MoveSlots, CloseSlots,
       RequeueSlots, SyncSlots, RebalanceSlots, FailureSlots DEF Work
  <2> QED  BY <2>2, <2>3
<1>2. ASSUME \/ \E a \in Agents : Elapse(a) \/ SetRole(a)
             \/ LockExpires \/ Quiet
      PROVE  UNCHANGED <<db, active, limit, pc, locals, draining, history>>
  BY <1>2 DEF Elapse, SetRole, LockExpires, Quiet, vars, db, locals, history
<1> QED  BY <1>1, <1>2 DEF Next

LEMMA SlotStepExact ==
  ASSUME TypeOK, CounterExact, NEW p \in Procs, Goes(p), SlotStep(p)
  PROVE  CounterExact'
<1>1. ASSUME NEW a \in Agents, a \notin drifted' PROVE Exact(a)'
  <2>1. Untouched(p)  BY DEF Goes
  <2>2. CASE Recounted(p, a)
    BY <2>1, <2>2, BecomesExact
  <2>3. CASE a \notin drifted /\ Balanced(p, a)
    BY <2>1, <2>3, StaysExact DEF CounterExact
  <2> QED  BY <1>1, <2>2, <2>3 DEF SlotStep
<1> QED  BY <1>1 DEF CounterExact

LEMMA SlotStepWithin ==
  ASSUME TypeOK, TypeOK', CounterExact, NEW p \in Procs, Goes(p), SlotStep(p),
         NEW a \in Agents, a \notin excused', WithinLimit(a)
  PROVE  WithinLimit(a)'
<1>0. /\ active[a] \in Nat /\ limit[a] \in Nat
      /\ a \notin drifted' /\ a \notin excused /\ a \notin drifted /\ limit'[a] = limit[a]
  BY LimitsAssumption DEF TypeOK, DataOK, SlotStep
<1>1. active[a] <= limit[a] /\ active[a] = Load(a)
  BY <1>0 DEF WithinLimit, CounterExact, Exact, Load
<1>2. active'[a] <= limit[a]
  <2>1. CASE Recounted(p, a)
    BY <1>1, <2>1 DEF Recounted
  <2>2. CASE Takes(p, a)
    <3>1. pc[p] = "reserve" /\ job[p].agent = a /\ active[a] < auto[p].room /\ active'[a] = active[a] + 1
      BY <1>0, <2>2 DEF Takes
    <3>2. auto[p].room = limit[a]  BY <3>1 DEF WithinLimit
    <3> QED  BY <1>0, <3>1, <3>2
  <2>3. CASE Kept(p, a) \/ Wins(p, a) \/ Loses(p, a)
    BY <1>1, <2>3 DEF Kept, Wins, Loses
  <2>4. CASE Frees(p, a)
    BY <1>0, <1>1, <2>4 DEF Frees
  <2> QED  BY <1>0, <2>1, <2>2, <2>3, <2>4 DEF SlotStep, Balanced
<1>3. ASSUME NEW q \in Procs, pc'[q] = "reserve", job'[q].agent = a PROVE auto'[q].room = limit[a]
  BY <1>3 DEF Goes, Untouched, WithinLimit
<1> QED  BY <1>0, <1>2, <1>3 DEF WithinLimit

LEMMA InitSlotInv == Init => CounterExact /\ \A a \in Agents \ excused : WithinLimit(a)
<1> SUFFICES ASSUME Init, NEW a \in Agents PROVE Exact(a) /\ WithinLimit(a)
  BY DEF CounterExact
<1>1. /\ active[a] = 0 /\ limit[a] \in Nat
      /\ \A p \in Procs : pc[p] = "idle"
      /\ \A c \in Chats : assignee[c] = None
  BY LimitsAssumption DEF Init
<1>2. SlotHolders(a) = {} /\ ChatsOf(a) = {}
  BY <1>1 DEF SlotHolders, HoldsSlot, ChatsOf
<1>3. Exact(a)  BY <1>1, <1>2, FS_EmptySet DEF Exact
<1>4. WithinLimit(a)  BY <1>1 DEF WithinLimit
<1> QED  BY <1>3, <1>4

LEMMA InvariantSlotInv == Spec => []SlotInv
<1> DEFINE Rest == CounterExact /\ \A a \in Agents \ excused : WithinLimit(a)
<1>1. TypeOK /\ TypeOK' /\ ClosedIsUnassigned /\ DrainInv /\ Rest /\ [Next]_vars => Rest'
  <2> SUFFICES ASSUME TypeOK, TypeOK', ClosedIsUnassigned, DrainInv, Rest, [Next]_vars PROVE Rest'
    OBVIOUS
  <2>1. CASE UNCHANGED <<db, active, limit, pc, locals, draining, history>>
    BY <2>1
       DEF CounterExact, Exact, ChatsOf, SlotHolders, HoldsSlot, WithinLimit, db, locals, history
  <2>2. CASE UNCHANGED vars
    BY <2>1, <2>2 DEF vars, db, locals, history
  <2>3. ASSUME NEW p \in Procs, Goes(p), SlotStep(p) PROVE Rest'
    <3>1. CounterExact'  BY <2>3, SlotStepExact
    <3>2. ASSUME NEW a \in Agents \ excused' PROVE WithinLimit(a)'
      <4>1. a \in Agents \ excused  BY <2>3 DEF SlotStep
      <4> QED  BY <2>3, <4>1, SlotStepWithin
    <3> QED  BY <3>1, <3>2
  <2> QED  BY <2>1, <2>2, <2>3, NextSlots
<1>2. Init => Rest  BY InitSlotInv
<1> HIDE DEF Rest
<1>3. Spec => []Rest
  BY <1>1, <1>2, TypeCorrect, ClosedNeverAssigned, InvariantDrainInv, PTL DEF Spec
<1>4. DrainInv /\ Rest => SlotInv  BY DEF SlotInv, Rest
<1> QED  BY <1>3, <1>4, InvariantDrainInv, PTL

\* The counter of an agent is the number of their open chats and of the slots that tasks hold for
\* them, unless the agent has drifted: the increments and decrements of agents.service.ts
\* (reserveSlot, releaseSlot) pair up with the assignments, however tasks interleave.
THEOREM SlotsCounted == Spec => []CounterExact
<1>1. SlotInv => CounterExact  BY DEF SlotInv
<1> QED  BY <1>1, InvariantSlotInv, PTL

\* Automatic assignment gives nobody more chats than their capacity, on however many servers it
\* runs: the slot is reserved, below the limit, before the chat is assigned (assignNow).
THEOREM LimitRespected == Spec => []CapacityRespected
<1>1. TypeOK /\ SlotInv => CapacityRespected
  <2> SUFFICES ASSUME TypeOK, SlotInv, NEW a \in Agents \ excused
               PROVE  Cardinality(ChatsOf(a)) <= limit[a]
    BY DEF CapacityRespected
  <2>1. Exact(a) /\ active[a] <= limit[a] /\ limit[a] \in Nat
    BY LimitsAssumption DEF TypeOK, DataOK, SlotInv, CounterExact, WithinLimit
  <2> QED  BY <2>1, Finite DEF Exact
<1> QED  BY <1>1, InvariantSlotInv, TypeCorrect, PTL
=============================================================================

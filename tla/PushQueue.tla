------------------------------ MODULE PushQueue ------------------------------
(***************************************************************************)
(* Web Push for one chat message.  A message job works out whom to notify  *)
(* and adds one deliver job per device of that user; every deliver job is  *)
(* retried on its own.  The queue (BullMQ) is shared by all servers and    *)
(* runs a job at least once: a job whose worker dies is run again from its *)
(* first step, a job that failed is run again until its attempts are used  *)
(* up, and a job added under an id that the queue still knows is ignored.  *)
(*                                                                         *)
(* Modelled from src/modules/push/services/push-queue.service.ts, with the *)
(* subscription rows as the deliveries see them and the answers of the     *)
(* push service as inputs.  A call to the database, to Redis or to a push  *)
(* service is one step.                                                    *)
(*                                                                         *)
(* Abstractions.  Jobs of different messages share no state but the rows,  *)
(* so one message is followed.  Delays and backoff only say when a job may *)
(* run again: here it may at once.  Payload, encryption and the columns    *)
(* lastSuccessAt and failureCount, which nothing reads, are left out; that *)
(* writing them can fail is not.  "Variant" marks a slip that a property    *)
(* notices.                                                                *)
(***************************************************************************)
EXTENDS Integers

CONSTANTS
  Users,
  Rows,             \* subscription ids; an id is used for one row only
  Endpoint,         \* the browser a row belongs to
  Answers,          \* what the push service of a row may answer
  Steady,           \* rows that stay subscribed by the same user
  Subscribed,       \* who subscribed each row before the message is sent
  None,
  MessageAttempts,  \* 3 in the code
  DeliverAttempts,  \* 5 in the code
  MaxFaults,        \* bound: calls that fail (the push service apart)
  MaxCrashes,       \* bound: workers that die with a job
  MaxForgotten,     \* bound: jobs that have ended and are evicted
  MaxChanges        \* bound: changes by users while the jobs run

Outcomes == {"sent", "gone", "rejected", "retry"}

ASSUME RowsAssumption ==
  /\ Answers \in [Rows -> SUBSET Outcomes]
  /\ Steady \subseteq Rows
  /\ None \notin Users
  /\ Subscribed \in [Rows -> Users \cup {None}]
ASSUME AttemptsAssumption ==
  /\ MessageAttempts \in Nat \ {0} /\ DeliverAttempts \in Nat \ {0}
  /\ MaxFaults \in Nat /\ MaxCrashes \in Nat /\ MaxForgotten \in Nat /\ MaxChanges \in Nat

VARIABLES
  msg,        \* the message job
  job,        \* the deliver job of a row
  owner,      \* userId of a row, None when there is no such row
  used,       \* rows that exist or existed
  expired,    \* rows whose expiresAt has passed
  target,     \* the other side of the chat: the customer, or the assigned agent
  viewing,    \* users with the chat open in some tab on some server
  sent,       \* notifications the push service accepted for a row
  redo,       \* of these, how many the queue did not hear about
  added,      \* times the queue took in a deliver job for a row
  failed,     \* recordPush('failed') for a row
  misread,    \* a notification was accepted for a row of somebody else
  intruded,   \* a notification was accepted for a user looking at the chat
  faults, crashes, forgotten, changes

rowVars == <<owner, used, expired>>
chatVars == <<target, viewing>>
bookVars == <<sent, redo, added, failed, misread, intruded>>
boundVars == <<faults, crashes, forgotten, changes>>
vars == <<msg, job, rowVars, chatVars, bookVars, boundVars>>

States == {"none", "waiting", "active", "completed", "failed"}
MsgSteps == {"start", "viewers", "list", "add", "finish"}
JobSteps == {"start", "send", "mark", "purge"}

MsgJob(state, made, step, to, list) ==
  [state |-> state, made |-> made, step |-> step, to |-> to, list |-> list]
RowJob(state, made, step, for) ==
  [state |-> state, made |-> made, step |-> step, for |-> for]

TypeOK ==
  /\ msg \in [state : States, made : 0..MessageAttempts, step : MsgSteps,
              to : Users \cup {None}, list : SUBSET Rows]
  /\ job \in [Rows -> [state : States, made : 0..DeliverAttempts, step : JobSteps,
                       for : Users \cup {None}]]
  /\ owner \in [Rows -> Users \cup {None}]
  /\ used \in SUBSET Rows
  /\ expired \in SUBSET Rows
  /\ target \in Users \cup {None}
  /\ viewing \in SUBSET Users
  /\ sent \in [Rows -> Nat] /\ redo \in [Rows -> Nat]
  /\ added \in [Rows -> Nat] /\ failed \in [Rows -> Nat]
  /\ misread \in BOOLEAN /\ intruded \in BOOLEAN
  /\ faults \in 0..MaxFaults /\ crashes \in 0..MaxCrashes
  /\ forgotten \in 0..MaxForgotten /\ changes \in 0..MaxChanges

Init ==
  /\ msg = MsgJob("none", 0, "start", None, {})
  /\ job = [r \in Rows |-> RowJob("none", 0, "start", None)]
  /\ owner = Subscribed
  /\ used = {r \in Rows : Subscribed[r] # None}
  /\ expired = {}
  /\ target \in Users
  /\ viewing = {}
  /\ sent = [r \in Rows |-> 0] /\ redo = [r \in Rows |-> 0]
  /\ added = [r \in Rows |-> 0] /\ failed = [r \in Rows |-> 0]
  /\ misread = FALSE /\ intruded = FALSE
  /\ faults = 0 /\ crashes = 0 /\ forgotten = 0 /\ changes = 0

-----------------------------------------------------------------------------
(* The message job *)

MsgAt(step) == msg.state = "active" /\ msg.step = step
MsgGoes(step) == msg' = MsgJob("active", msg.made, step, msg.to, msg.list)
MsgDone == msg' = MsgJob("completed", msg.made, "start", msg.to, msg.list)

\* enqueueForMessage, for a message that was really created.
Enqueue ==
  /\ msg.state = "none"
  /\ msg' = MsgJob("waiting", 0, "start", None, {})
  /\ UNCHANGED <<job, rowVars, chatVars, bookVars, boundVars>>

\* The conversation is read; a chat nobody is assigned to has nobody to notify.
Who ==
  /\ msg.state = "waiting"
  /\ msg' = IF target = None THEN MsgJob("completed", msg.made, "start", None, {})
            ELSE MsgJob("active", msg.made, "viewers", target, {})
  /\ UNCHANGED <<job, rowVars, chatVars, bookVars, boundVars>>

\* fetchSockets of the chat's room, on every server.
Viewers ==
  /\ MsgAt("viewers")
  /\ IF msg.to \in viewing THEN MsgDone ELSE MsgGoes("list")
  /\ UNCHANGED <<job, rowVars, chatVars, bookVars, boundVars>>

\* listForUser.
List ==
  /\ MsgAt("list")
  /\ LET devices == {r \in Rows : owner[r] = msg.to}
     IN  IF devices = {} THEN MsgDone
         ELSE msg' = MsgJob("active", msg.made, "add", msg.to, devices)
  /\ UNCHANGED <<job, rowVars, chatVars, bookVars, boundVars>>

\* Variant: jobs without ids of their own; those of a fan-out that is run again are new.
AddJobsAgain(rows) ==
  /\ job' = [r \in Rows |-> IF r \in rows THEN RowJob("waiting", 0, "start", msg.to) ELSE job[r]]
  /\ added' = [r \in Rows |-> IF r \in rows THEN added[r] + 1 ELSE added[r]]

\* addBulk: one job per device, under an id made of the message and the row.
Unknown(rows) == {r \in rows : job[r].state = "none"}
AddJobs(rows) ==
  /\ job' = [r \in Rows |-> IF r \in Unknown(rows) THEN RowJob("waiting", 0, "start", msg.to) ELSE job[r]]
  /\ added' = [r \in Rows |-> IF r \in Unknown(rows) THEN added[r] + 1 ELSE added[r]]

Add ==
  /\ MsgAt("add")
  /\ AddJobs(msg.list)
  /\ MsgGoes("finish")
  /\ UNCHANGED <<rowVars, chatVars, sent, redo, failed, misread, intruded, boundVars>>

\* The worker tells the queue that the job is done.
Finish ==
  /\ MsgAt("finish") /\ MsgDone
  /\ UNCHANGED <<job, rowVars, chatVars, bookVars, boundVars>>

\* A call of the job fails (addBulk with or without effect): the attempt is over.
MsgFails ==
  /\ msg.state \in {"waiting", "active"} /\ msg.step # "finish"
  /\ faults < MaxFaults /\ faults' = faults + 1
  /\ msg' = MsgJob(IF msg.made + 1 >= MessageAttempts THEN "failed" ELSE "waiting",
                   msg.made + 1, "start", None, {})
  /\ \/ MsgAt("add") /\ AddJobs(msg.list)
     \/ UNCHANGED <<job, added>>
  /\ UNCHANGED <<rowVars, chatVars, sent, redo, failed, misread, intruded, crashes, forgotten, changes>>

\* The worker dies; the queue gives the stalled job to another one.
MsgCrash ==
  /\ msg.state = "active"
  /\ crashes < MaxCrashes /\ crashes' = crashes + 1
  /\ msg' = MsgJob("waiting", msg.made, "start", None, {})
  /\ UNCHANGED <<job, rowVars, chatVars, bookVars, faults, forgotten, changes>>

-----------------------------------------------------------------------------
(* A deliver job *)

JobAt(r, step) == job[r].state = "active" /\ job[r].step = step
JobTo(r, state, step) == job' = [job EXCEPT ![r] = RowJob(state, job[r].made, step, job[r].for)]

\* Variant: the handler takes only an attempt beyond the last for final.
FinalNever(r) == job[r].made >= DeliverAttempts

\* The attempt failed: retried, unless it was the last.  The 'failed' handler
\* counts the last one only.
Final(r) == job[r].made + 1 >= DeliverAttempts

\* Variant: jobs without attempts, the first failure is the last.
AttemptFailsOnce(r) ==
  /\ job' = [job EXCEPT ![r] = RowJob("failed", job[r].made + 1, "start", job[r].for)]
  /\ failed' = [failed EXCEPT ![r] = @ + 1]

AttemptFails(r) ==
  /\ job' = [job EXCEPT ![r] = RowJob(IF job[r].made + 1 >= DeliverAttempts THEN "failed" ELSE "waiting",
                                      job[r].made + 1, "start", job[r].for)]
  /\ failed' = IF Final(r) THEN [failed EXCEPT ![r] = @ + 1] ELSE failed

\* UnrecoverableError: no further attempt.
GivesUp(r) ==
  /\ job' = [job EXCEPT ![r] = RowJob("failed", job[r].made + 1, "start", job[r].for)]
  /\ failed' = [failed EXCEPT ![r] = @ + 1]

\* findById: no row, nothing to do; an expired one is deleted.
Find(r) ==
  /\ job[r].state = "waiting"
  /\ \/ owner[r] = None /\ JobTo(r, "completed", "start")
     \/ owner[r] # None /\ r \in expired /\ JobTo(r, "active", "purge")
     \/ owner[r] # None /\ r \notin expired /\ JobTo(r, "active", "send")
  /\ UNCHANGED <<msg, rowVars, chatVars, bookVars, boundVars>>

\* The push service takes the notification for row r.
Accepted(r) ==
  /\ sent' = [sent EXCEPT ![r] = @ + 1]
  /\ misread' = (misread \/ owner[r] \notin {None, job[r].for})
  /\ intruded' = (intruded \/ job[r].for \in viewing)

Send(r, outcome) ==
  /\ JobAt(r, "send") /\ outcome \in Answers[r]
  /\ \/ /\ outcome = "sent" /\ Accepted(r) /\ JobTo(r, "active", "mark") /\ UNCHANGED failed
     \/ /\ outcome = "gone" /\ JobTo(r, "active", "purge")
        /\ UNCHANGED <<sent, misread, intruded, failed>>
     \/ /\ outcome = "rejected" /\ GivesUp(r) /\ UNCHANGED <<sent, misread, intruded>>
     \/ /\ outcome = "retry" /\ AttemptFails(r) /\ UNCHANGED <<sent, misread, intruded>>
  /\ UNCHANGED <<msg, rowVars, chatVars, redo, added, boundVars>>

\* markSuccess, then the job is done.
Mark(r) ==
  /\ JobAt(r, "mark") /\ JobTo(r, "completed", "start")
  /\ UNCHANGED <<msg, rowVars, chatVars, bookVars, boundVars>>

\* deleteById.
Purge(r) ==
  /\ JobAt(r, "purge")
  /\ owner' = [owner EXCEPT ![r] = None]
  /\ JobTo(r, "completed", "start")
  /\ UNCHANGED <<msg, used, expired, chatVars, bookVars, boundVars>>

\* A database call of the job fails.  After "sent" the notification is out.
JobFails(r) ==
  /\ job[r].state = "waiting" \/ JobAt(r, "mark") \/ JobAt(r, "purge")
  /\ faults < MaxFaults /\ faults' = faults + 1
  /\ AttemptFails(r)
  /\ redo' = IF JobAt(r, "mark") THEN [redo EXCEPT ![r] = @ + 1] ELSE redo
  /\ UNCHANGED <<msg, rowVars, chatVars, sent, added, misread, intruded, crashes, forgotten, changes>>

\* The worker dies, perhaps with the request to the push service under way.
JobCrash(r) ==
  /\ job[r].state = "active"
  /\ crashes < MaxCrashes /\ crashes' = crashes + 1
  /\ JobTo(r, "waiting", "start")
  /\ \/ /\ JobAt(r, "send") /\ "sent" \in Answers[r]
        /\ Accepted(r) /\ redo' = [redo EXCEPT ![r] = @ + 1]
     \/ /\ redo' = IF JobAt(r, "mark") THEN [redo EXCEPT ![r] = @ + 1] ELSE redo
        /\ UNCHANGED <<sent, misread, intruded>>
  /\ UNCHANGED <<msg, rowVars, chatVars, added, failed, faults, forgotten, changes>>

\* removeOnComplete and removeOnFail keep the last jobs that ended: an older one
\* is gone, and its id with it.
Forget(r) ==
  /\ job[r].state \in {"completed", "failed"}
  /\ forgotten < MaxForgotten /\ forgotten' = forgotten + 1
  /\ JobTo(r, "none", "start")
  /\ UNCHANGED <<msg, rowVars, chatVars, bookVars, faults, crashes, changes>>

-----------------------------------------------------------------------------
(* What users do meanwhile *)

Change == changes < MaxChanges /\ changes' = changes + 1

\* save(): one row per browser, which another user may take over.
Subscribe(r, u) ==
  /\ r \notin Steady /\ Change
  /\ \/ owner[r] # None
     \/ r \notin used /\ \A q \in Rows : Endpoint[q] = Endpoint[r] => owner[q] = None
  /\ owner' = [owner EXCEPT ![r] = u]
  /\ used' = used \cup {r}
  /\ expired' = expired \ {r}
  /\ UNCHANGED <<msg, job, chatVars, bookVars, faults, crashes, forgotten>>

\* remove() by the owner, or the database's own deletion of an expired row.
Unsubscribe(r) ==
  /\ r \notin Steady /\ owner[r] # None /\ Change
  /\ owner' = [owner EXCEPT ![r] = None]
  /\ UNCHANGED <<msg, job, used, expired, chatVars, bookVars, faults, crashes, forgotten>>

Expire(r) ==
  /\ r \notin Steady \cup expired /\ owner[r] # None /\ Change
  /\ expired' = expired \cup {r}
  /\ UNCHANGED <<msg, job, owner, used, chatVars, bookVars, faults, crashes, forgotten>>

\* A user opens or closes the chat.
Watch(u) ==
  /\ Change
  /\ viewing' = IF u \in viewing THEN viewing \ {u} ELSE viewing \cup {u}
  /\ UNCHANGED <<msg, job, rowVars, target, bookVars, faults, crashes, forgotten>>

\* The chat is assigned, transferred or released.
Reassign(t) ==
  /\ t # target /\ Change
  /\ target' = t
  /\ UNCHANGED <<msg, job, rowVars, viewing, bookVars, faults, crashes, forgotten>>

-----------------------------------------------------------------------------

MsgNext == Enqueue \/ Who \/ Viewers \/ List \/ Add \/ Finish \/ MsgFails \/ MsgCrash

JobNext == \E r \in Rows :
  \/ Find(r)
  \/ \E outcome \in Outcomes : Send(r, outcome)
  \/ Mark(r) \/ Purge(r)
  \/ JobFails(r) \/ JobCrash(r) \/ Forget(r)

UserNext ==
  \/ \E r \in Rows, u \in Users : Subscribe(r, u)
  \/ \E r \in Rows : Unsubscribe(r) \/ Expire(r)
  \/ \E u \in Users : Watch(u)
  \/ \E t \in Users \cup {None} : Reassign(t)

Next == MsgNext \/ JobNext \/ UserNext

Spec == Init /\ [][Next]_vars

\* Some worker runs every job the queue holds.
Fairness ==
  /\ WF_vars(Who \/ Viewers \/ List \/ Add \/ Finish)
  /\ \A r \in Rows : WF_vars(Find(r) \/ Mark(r) \/ Purge(r) \/ \E o \in Outcomes : Send(r, o))

FairSpec == Spec /\ Fairness

-----------------------------------------------------------------------------
(* Properties *)

\* "One flaky device never causes duplicate notifications on the others": a
\* device is notified once more only for each time its own delivery was
\* accepted without the queue learning of it; neither another device's failures
\* nor a fan-out that is run again reach it a second time.
OthersOnce == forgotten = 0 => \A r \in Rows : sent[r] <= 1 + redo[r]

\* A delivery that fails for good is counted as failed exactly once, whether it
\* ran out of attempts or could not be retried, and no other is.
FailuresCounted == forgotten = 0 => \A r \in Rows :
  failed[r] = (IF job[r].state = "failed" THEN 1 ELSE 0)

\* Every steady device of the user to be notified, whose push service takes
\* what it is given, gets the message, whatever its other devices answer and
\* although workers die and calls fail, fewer times than there are attempts;
\* unless the fan-out found nobody to notify.
Delivered == \A r \in Steady :
  msg.state = "waiting" /\ target = owner[r] ~>
    (msg.state = "completed" /\ msg.list = {}) \/ sent[r] >= 1

-----------------------------------------------------------------------------
(* What comments and docs say and the code does not do: each of these fails *)

\* "Job ids are derived from message ids, so the same message is never queued
\* twice."
QueuedOnce == \A r \in Rows : added[r] <= 1

\* "The server only pushes when the recipient is not looking at that
\* conversation."
PushOnlyUnwatched == ~intruded

\* "works out WHO to notify (the other side of the chat ...)": the notification
\* goes to devices of that user only.
RightReader == ~misread
=============================================================================

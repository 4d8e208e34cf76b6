--------------------------- MODULE PushQueueProofs ---------------------------
(***************************************************************************)
(* Proofs about PushQueue.  As long as the queue has forgotten no job, a   *)
(* device's job is added once and goes through its attempts one after the  *)
(* other: what was accepted in an attempt that did not end well, the queue *)
(* did not learn of.                                                       *)
(***************************************************************************)
EXTENDS PushQueue, TLAPS

JobType == [state : States, made : Nat, step : JobSteps, for : Users \cup {None}]

Typed ==
  /\ job \in [Rows -> JobType]
  /\ sent \in [Rows -> Nat] /\ redo \in [Rows -> Nat] /\ failed \in [Rows -> Nat]
  /\ forgotten \in Nat
  /\ msg.to \in Users \cup {None} /\ target \in Users \cup {None}

\* The job's present attempt may have notified the device already.
Notified(r) == job[r].state \in {"completed", "failed"} \/ JobAt(r, "mark")

\* Of what was accepted, the queue did not hear about all but one.
Heard(r) == sent[r] <= redo[r] + (IF Notified(r) THEN 1 ELSE 0)

\* A job that failed for good was counted once, and no other was.
Counted(r) == failed[r] = (IF job[r].state = "failed" THEN 1 ELSE 0)

QInv == Typed /\ (forgotten = 0 => \A r \in Rows : Heard(r) /\ Counted(r))

-----------------------------------------------------------------------------

LEMMA JobParts ==
  ASSUME NEW state \in States, NEW made \in Nat, NEW step \in JobSteps, NEW for \in Users \cup {None}
  PROVE  /\ RowJob(state, made, step, for) \in JobType
         /\ RowJob(state, made, step, for).state = state
         /\ RowJob(state, made, step, for).made = made
         /\ RowJob(state, made, step, for).step = step
         /\ RowJob(state, made, step, for).for = for
  BY DEF RowJob, JobType

LEMMA MsgParts ==
  ASSUME NEW state, NEW made, NEW step, NEW to, NEW list
  PROVE  MsgJob(state, made, step, to, list).to = to
  BY DEF MsgJob

LEMMA JobFields ==
  ASSUME Typed, NEW r \in Rows
  PROVE  /\ job[r] \in JobType /\ job[r].state \in States /\ job[r].made \in Nat
         /\ job[r].step \in JobSteps /\ job[r].for \in Users \cup {None}
         /\ sent[r] \in Nat /\ redo[r] \in Nat /\ failed[r] \in Nat
  BY DEF Typed, JobType

LEMMA InitQInv == Init => QInv
<1> SUFFICES ASSUME Init PROVE QInv  OBVIOUS
<1>1. ASSUME NEW r \in Rows
      PROVE  job[r] \in JobType /\ job[r].state = "none" /\ sent[r] = 0 /\ redo[r] = 0 /\ failed[r] = 0
  <2>1. "none" \in States /\ 0 \in Nat /\ "start" \in JobSteps /\ None \in Users \cup {None}
    BY DEF States, JobSteps
  <2>2. job[r] = RowJob("none", 0, "start", None)  BY DEF Init
  <2> QED  BY <2>1, <2>2, JobParts DEF Init
<1>2. job \in [Rows -> JobType]
  <2>1. job = [r \in Rows |-> job[r]]  BY DEF Init
  <2> QED  BY <1>1, <2>1
<1>3. msg.to = None  BY MsgParts DEF Init
<1>4. Typed  BY <1>2, <1>3 DEF Init, Typed
<1>5. ASSUME NEW r \in Rows PROVE Heard(r) /\ Counted(r)
  <2>1. ~Notified(r)  BY <1>1 DEF Notified, JobAt
  <2> QED  BY <1>1, <2>1 DEF Heard, Counted
<1> QED  BY <1>4, <1>5 DEF QInv

-----------------------------------------------------------------------------
(* What a step does to the job of a row, as far as QInv is concerned *)

\* The attempt of r goes from one step to the next, before its notification is accepted.
Goes(r) ==
  /\ job[r].state \in {"waiting", "active"} /\ job'[r].state = "active"
  /\ ~Notified(r)
  /\ sent'[r] = sent[r] /\ redo'[r] = redo[r] /\ failed'[r] = failed[r]

\* The notification is accepted.
Accepts(r) ==
  /\ JobAt(r, "send") /\ Notified(r)' /\ job'[r].state = "active"
  /\ sent'[r] = sent[r] + 1 /\ redo'[r] = redo[r] /\ failed'[r] = failed[r]

\* The job is done.
Ends(r) ==
  /\ job[r].state \in {"waiting", "active"} /\ job'[r].state = "completed"
  /\ sent'[r] = sent[r] /\ redo'[r] = redo[r] /\ failed'[r] = failed[r]

\* The job failed for good.
Dies(r) ==
  /\ job[r].state \in {"waiting", "active"} /\ job'[r].state = "failed"
  /\ sent'[r] = sent[r] /\ redo'[r] \in Nat /\ redo'[r] >= redo[r] /\ failed'[r] = failed[r] + 1

\* The job has to be run again; what was accepted meanwhile, the queue did not hear about.
Retried(r) ==
  /\ job[r].state \in {"waiting", "active"} /\ job'[r].state = "waiting"
  /\ failed'[r] = failed[r]
  /\ \/ Notified(r) /\ sent'[r] = sent[r] /\ redo'[r] = redo[r] + 1
     \/ ~Notified(r) /\ sent'[r] = sent[r] /\ redo'[r] = redo[r]
     \/ ~Notified(r) /\ sent'[r] = sent[r] + 1 /\ redo'[r] = redo[r] + 1

\* The queue takes the job in.
Taken(r) ==
  /\ job[r].state = "none" /\ job'[r].state = "waiting"
  /\ sent'[r] = sent[r] /\ redo'[r] = redo[r] /\ failed'[r] = failed[r]

Same(r) == job'[r] = job[r] /\ sent'[r] = sent[r] /\ redo'[r] = redo[r] /\ failed'[r] = failed[r]

Moves(r) == Goes(r) \/ Accepts(r) \/ Ends(r) \/ Dies(r) \/ Retried(r) \/ Taken(r) \/ Same(r)

\* Every kind of step keeps the two claims about the row.
LEMMA MovesKeep ==
  ASSUME Typed, NEW r \in Rows, Moves(r), Heard(r), Counted(r)
  PROVE  Heard(r)' /\ Counted(r)'
<1> USE JobFields
<1>1. CASE Goes(r)
  BY <1>1 DEF Goes, Heard, Counted, Notified
<1>2. CASE Accepts(r)
  <2>1. ~Notified(r)  BY <1>2 DEF Accepts, Notified, JobAt
  <2> QED  BY <1>2, <2>1 DEF Accepts, Heard, Counted, JobAt
<1>3. CASE Ends(r)
  BY <1>3 DEF Ends, Heard, Counted, Notified
<1>4. CASE Dies(r)
  BY <1>4 DEF Dies, Heard, Counted, Notified
<1>5. CASE Retried(r)
  <2>1. ~Notified(r)'  BY <1>5 DEF Retried, Notified, JobAt
  <2> QED  BY <1>5, <2>1 DEF Retried, Heard, Counted
<1>6. CASE Taken(r)
  BY <1>6 DEF Taken, Heard, Counted, Notified, JobAt
<1>7. CASE Same(r)
  BY <1>7 DEF Same, Heard, Counted, Notified, JobAt
<1> QED  BY <1>1, <1>2, <1>3, <1>4, <1>5, <1>6, <1>7 DEF Moves

-----------------------------------------------------------------------------
(* The actions *)

\* A step that changes the job of one row, and its counters, keeps the types.
LEMMA OneRow ==
  ASSUME Typed, NEW r \in Rows, NEW state \in States, NEW made \in Nat, NEW step \in JobSteps,
         job' = [job EXCEPT ![r] = RowJob(state, made, step, job[r].for)],
         sent' = sent \/ sent' = [sent EXCEPT ![r] = @ + 1],
         redo' = redo \/ redo' = [redo EXCEPT ![r] = @ + 1],
         failed' = failed \/ failed' = [failed EXCEPT ![r] = @ + 1],
         msg' = msg, forgotten' \in Nat, target' \in Users \cup {None}
  PROVE  /\ Typed'
         /\ job'[r].state = state /\ job'[r].step = step
         /\ \A q \in Rows : q # r => Same(q)
<1>1. job[r].for \in Users \cup {None} /\ sent[r] \in Nat /\ redo[r] \in Nat /\ failed[r] \in Nat
  BY JobFields
<1> DEFINE new == RowJob(state, made, step, job[r].for)
<1>2. new \in JobType /\ new.state = state /\ new.step = step  BY <1>1, JobParts
<1>3. job' = [job EXCEPT ![r] = new]  OBVIOUS
<1> HIDE DEF new
<1>4. job' \in [Rows -> JobType] /\ job'[r] = new /\ \A q \in Rows : q # r => job'[q] = job[q]
  BY <1>2, <1>3 DEF Typed
<1>5. /\ sent' \in [Rows -> Nat] /\ \A q \in Rows : q # r => sent'[q] = sent[q]
  BY <1>1 DEF Typed
<1>6. /\ redo' \in [Rows -> Nat] /\ \A q \in Rows : q # r => redo'[q] = redo[q]
  BY <1>1 DEF Typed
<1>7. /\ failed' \in [Rows -> Nat] /\ \A q \in Rows : q # r => failed'[q] = failed[q]
  BY <1>1 DEF Typed
<1>8. Typed'  BY <1>4, <1>5, <1>6, <1>7 DEF Typed
<1>9. \A q \in Rows : q # r => Same(q)  BY <1>4, <1>5, <1>6, <1>7 DEF Same
<1> QED  BY <1>2, <1>4, <1>5, <1>6, <1>7, <1>8, <1>9

\* Jobs, their counters and the message's recipient stay what they are.
Idle ==
  /\ job' = job /\ sent' = sent /\ redo' = redo /\ failed' = failed
  /\ forgotten' = forgotten /\ msg'.to \in Users \cup {None} /\ target' \in Users \cup {None}

LEMMA IdleMoves == ASSUME Typed, Idle PROVE Typed' /\ forgotten' = forgotten /\ \A r \in Rows : Moves(r)
  BY DEF Typed, Idle, Moves, Same

\* What holds of every step but Forget.
Kept == Typed' /\ forgotten' = forgotten /\ \A r \in Rows : Moves(r)

\* addBulk touches only the rows whose id the queue does not know.
LEMMA AddJobsMoves ==
  ASSUME Typed, AddJobs(msg.list), sent' = sent, redo' = redo, failed' = failed,
         forgotten' = forgotten, msg'.to \in Users \cup {None}, target' = target
  PROVE  Kept
<1> DEFINE new == RowJob("waiting", 0, "start", msg.to)
<1>1. new \in JobType /\ new.state = "waiting"
  BY JobParts DEF Typed, States, JobSteps
<1>2. job' = [r \in Rows |-> IF r \in Unknown(msg.list) THEN new ELSE job[r]]  BY DEF AddJobs
<1> HIDE DEF new
<1>3. job' \in [Rows -> JobType]  BY <1>1, <1>2 DEF Typed
<1>4. ASSUME NEW r \in Rows PROVE Moves(r)
  <2>1. CASE r \in Unknown(msg.list)
    <3>1. job'[r].state = "waiting" /\ job[r].state = "none"  BY <1>1, <1>2, <2>1 DEF Unknown
    <3> QED  BY <3>1 DEF Moves, Taken
  <2>2. CASE r \notin Unknown(msg.list)
    BY <1>2, <2>2 DEF Moves, Same
  <2> QED  BY <2>1, <2>2
<1> QED  BY <1>3, <1>4 DEF Kept, Typed

LEMMA MsgNextKept == ASSUME Typed, MsgNext PROVE Kept
<1>1. msg.to \in Users \cup {None} /\ target \in Users \cup {None} /\ None \in Users \cup {None}  BY DEF Typed
<1>2. CASE Enqueue
  BY <1>1, <1>2, IdleMoves, MsgParts DEF Enqueue, Idle, Kept, bookVars, boundVars, chatVars
<1>3. CASE Who
  BY <1>1, <1>3, IdleMoves, MsgParts DEF Who, Idle, Kept, bookVars, boundVars, chatVars
<1>4. CASE Viewers
  BY <1>1, <1>4, IdleMoves, MsgParts DEF Viewers, MsgDone, MsgGoes, Idle, Kept, bookVars, boundVars, chatVars
<1>5. CASE List
  BY <1>1, <1>5, IdleMoves, MsgParts DEF List, MsgDone, Idle, Kept, bookVars, boundVars, chatVars
<1>6. CASE Add
  <2>1. msg'.to = msg.to  BY <1>6, MsgParts DEF Add, MsgGoes
  <2> QED  BY <1>1, <1>6, <2>1, AddJobsMoves DEF Add, chatVars, boundVars
<1>7. CASE Finish
  BY <1>1, <1>7, IdleMoves, MsgParts DEF Finish, MsgDone, Idle, Kept, bookVars, boundVars, chatVars
<1>8. CASE MsgFails
  <2>1. msg'.to = None  BY <1>8, MsgParts DEF MsgFails
  <2>2. target' = target /\ sent' = sent /\ redo' = redo /\ failed' = failed /\ forgotten' = forgotten
    BY <1>8 DEF MsgFails, chatVars
  <2>3. CASE AddJobs(msg.list)
    BY <1>1, <2>1, <2>2, <2>3, AddJobsMoves
  <2>4. CASE job' = job
    BY <1>1, <2>1, <2>2, <2>4, IdleMoves DEF Idle, Kept
  <2> QED  BY <1>8, <2>3, <2>4 DEF MsgFails
<1>9. CASE MsgCrash
  BY <1>1, <1>9, IdleMoves, MsgParts DEF MsgCrash, Idle, Kept, bookVars, boundVars, chatVars
<1> QED  BY <1>2, <1>3, <1>4, <1>5, <1>6, <1>7, <1>8, <1>9 DEF MsgNext

LEMMA UserNextKept == ASSUME Typed, UserNext PROVE Kept
<1>1. target \in Users \cup {None} /\ msg.to \in Users \cup {None}  BY DEF Typed
<1>2. ASSUME NEW r \in Rows, NEW u \in Users, Subscribe(r, u) PROVE Idle
  BY <1>1, <1>2 DEF Subscribe, Idle, chatVars, bookVars
<1>3. ASSUME NEW r \in Rows, Unsubscribe(r) \/ Expire(r) PROVE Idle
  BY <1>1, <1>3 DEF Unsubscribe, Expire, Idle, chatVars, bookVars
<1>4. ASSUME NEW u \in Users, Watch(u) PROVE Idle
  BY <1>1, <1>4 DEF Watch, Idle, chatVars, bookVars
<1>5. ASSUME NEW t \in Users \cup {None}, Reassign(t) PROVE Idle
  BY <1>1, <1>5 DEF Reassign, Idle, bookVars
<1>6. Idle  BY <1>2, <1>3, <1>4, <1>5, Zenon DEF UserNext
<1> QED  BY <1>6, IdleMoves DEF Kept

LEMMA AttemptFailsMoves ==
  ASSUME Typed, NEW r \in Rows, AttemptFails(r), job[r].state \in {"waiting", "active"},
         sent' = sent, redo' = (IF JobAt(r, "mark") THEN [redo EXCEPT ![r] = @ + 1] ELSE redo),
         msg' = msg, forgotten' = forgotten, target' = target
  PROVE  Kept
<1>1. /\ job[r].made \in Nat /\ redo[r] \in Nat /\ redo \in [Rows -> Nat] /\ failed \in [Rows -> Nat]
      /\ failed[r] \in Nat /\ forgotten \in Nat /\ target \in Users \cup {None}
  BY JobFields DEF Typed
<1> DEFINE state == IF job[r].made + 1 >= DeliverAttempts THEN "failed" ELSE "waiting"
           made == job[r].made + 1
<1>2. state \in States /\ made \in Nat /\ "start" \in JobSteps  BY <1>1 DEF States, JobSteps
<1>3. job' = [job EXCEPT ![r] = RowJob(state, made, "start", job[r].for)]  BY DEF AttemptFails
<1>4. failed' = IF state = "failed" THEN [failed EXCEPT ![r] = @ + 1] ELSE failed  BY DEF AttemptFails, Final
<1>5. state \in {"failed", "waiting"}  OBVIOUS
<1> HIDE DEF state, made
<1>6. /\ Typed' /\ job'[r].state = state /\ \A q \in Rows : q # r => Same(q)
  BY <1>1, <1>2, <1>3, <1>4, OneRow
<1>7. redo'[r] = IF JobAt(r, "mark") THEN redo[r] + 1 ELSE redo[r]  BY <1>1
<1>8. failed'[r] = IF state = "failed" THEN failed[r] + 1 ELSE failed[r]  BY <1>1, <1>4
<1>9. Notified(r) <=> JobAt(r, "mark")  BY DEF Notified
<1>10. CASE state = "failed"
  <2>1. Dies(r)  BY <1>1, <1>6, <1>7, <1>8, <1>10 DEF Dies
  <2> QED  BY <1>6, <2>1 DEF Kept, Moves
<1>11. CASE state = "waiting"
  <2>1. Retried(r)  BY <1>6, <1>7, <1>8, <1>9, <1>11 DEF Retried
  <2> QED  BY <1>6, <2>1 DEF Kept, Moves
<1> QED  BY <1>5, <1>10, <1>11

\* A step that only moves the job of r on.
LEMMA JobToMoves ==
  ASSUME Typed, NEW r \in Rows, NEW state \in {"completed", "active"}, NEW step \in JobSteps, JobTo(r, state, step),
         job[r].state \in {"waiting", "active"}, state = "active" => ~Notified(r),
         sent' = sent, redo' = redo, failed' = failed, msg' = msg, forgotten' = forgotten, target' = target
  PROVE  Kept
<1>1. job[r].made \in Nat /\ state \in States /\ forgotten \in Nat /\ target \in Users \cup {None}
  BY JobFields DEF States, Typed
<1>2. job' = [job EXCEPT ![r] = RowJob(state, job[r].made, step, job[r].for)]  BY DEF JobTo
<1>3. /\ Typed' /\ job'[r].state = state /\ \A q \in Rows : q # r => Same(q)
  BY <1>1, <1>2, OneRow
<1>4. Goes(r) \/ Ends(r)  BY <1>3 DEF Goes, Ends
<1> QED  BY <1>3, <1>4 DEF Kept, Moves

LEMMA FindKept == ASSUME Typed, NEW r \in Rows, Find(r) PROVE Kept
<1>1. /\ sent' = sent /\ redo' = redo /\ failed' = failed /\ msg' = msg /\ forgotten' = forgotten /\ target' = target
      /\ job[r].state = "waiting"
  BY DEF Find, chatVars, bookVars, boundVars
<1>2. "start" \in JobSteps /\ "purge" \in JobSteps /\ "send" \in JobSteps  BY DEF JobSteps
<1>3. ~Notified(r)  BY <1>1 DEF Notified, JobAt
<1>4. JobTo(r, "completed", "start") \/ JobTo(r, "active", "purge") \/ JobTo(r, "active", "send")  BY DEF Find
<1> QED  BY <1>1, <1>2, <1>3, <1>4, JobToMoves

LEMMA SendKept == ASSUME Typed, NEW r \in Rows, NEW outcome, Send(r, outcome) PROVE Kept
<1>1. /\ redo' = redo /\ msg' = msg /\ forgotten' = forgotten /\ target' = target
      /\ job[r].state = "active" /\ job[r].step = "send" /\ ~Notified(r)
  BY DEF Send, JobAt, Notified, chatVars, boundVars
<1>2. /\ job[r].made \in Nat /\ forgotten \in Nat /\ target \in Users \cup {None}
      /\ sent[r] \in Nat /\ failed[r] \in Nat /\ sent \in [Rows -> Nat] /\ failed \in [Rows -> Nat]
  BY JobFields DEF Typed
<1>3. /\ "start" \in JobSteps /\ "purge" \in JobSteps /\ "mark" \in JobSteps
      /\ "active" \in States /\ "failed" \in States
  BY DEF JobSteps, States
<1>4. CASE Accepted(r) /\ JobTo(r, "active", "mark") /\ failed' = failed
  <2>1. sent' = [sent EXCEPT ![r] = @ + 1]  BY <1>4 DEF Accepted
  <2>2. job' = [job EXCEPT ![r] = RowJob("active", job[r].made, "mark", job[r].for)]  BY <1>4 DEF JobTo
  <2>3. /\ Typed' /\ job'[r].state = "active" /\ job'[r].step = "mark" /\ \A q \in Rows : q # r => Same(q)
    <3>1. failed' = failed /\ forgotten' \in Nat /\ target' \in Users \cup {None}  BY <1>1, <1>2, <1>4
    <3> QED  BY <1>1, <1>2, <1>3, <2>1, <2>2, <3>1, OneRow
  <2>4. sent'[r] = sent[r] + 1  BY <1>2, <2>1
  <2>5. Accepts(r)  BY <1>1, <1>4, <2>3, <2>4 DEF Accepts, JobAt, Notified
  <2> QED  BY <1>1, <2>3, <2>5 DEF Kept, Moves
<1>5. CASE JobTo(r, "active", "purge") /\ sent' = sent /\ failed' = failed
  BY <1>1, <1>3, <1>5, JobToMoves
<1>6. CASE GivesUp(r) /\ sent' = sent
  <2>1. /\ job' = [job EXCEPT ![r] = RowJob("failed", job[r].made + 1, "start", job[r].for)]
        /\ failed' = [failed EXCEPT ![r] = @ + 1]
    BY <1>6 DEF GivesUp
  <2>2. job[r].made + 1 \in Nat  BY <1>2
  <2>3. /\ Typed' /\ job'[r].state = "failed" /\ \A q \in Rows : q # r => Same(q)
    BY <1>1, <1>2, <1>3, <1>6, <2>1, <2>2, OneRow
  <2>4. failed'[r] = failed[r] + 1  BY <1>2, <2>1
  <2>5. redo[r] \in Nat  BY JobFields
  <2>6. Dies(r)  BY <1>1, <1>6, <2>3, <2>4, <2>5 DEF Dies
  <2> QED  BY <1>1, <2>3, <2>6 DEF Kept, Moves
<1>7. CASE AttemptFails(r) /\ sent' = sent
  <2>1. ~JobAt(r, "mark")  BY <1>1 DEF JobAt
  <2> QED  BY <1>1, <1>7, <2>1, AttemptFailsMoves
<1> QED  BY <1>4, <1>5, <1>6, <1>7 DEF Send

LEMMA MarkKept == ASSUME Typed, NEW r \in Rows, Mark(r) \/ Purge(r) PROVE Kept
<1>1. /\ sent' = sent /\ redo' = redo /\ failed' = failed /\ msg' = msg /\ forgotten' = forgotten /\ target' = target
      /\ job[r].state = "active" /\ JobTo(r, "completed", "start")
  BY DEF Mark, Purge, JobAt, chatVars, bookVars, boundVars
<1>2. "start" \in JobSteps  BY DEF JobSteps
<1> QED  BY <1>1, <1>2, JobToMoves

LEMMA JobFailsKept == ASSUME Typed, NEW r \in Rows, JobFails(r) PROVE Kept
<1>1. job[r].state \in {"waiting", "active"}  BY DEF JobFails, JobAt
<1>2. /\ AttemptFails(r) /\ sent' = sent /\ msg' = msg /\ forgotten' = forgotten /\ target' = target
      /\ redo' = (IF JobAt(r, "mark") THEN [redo EXCEPT ![r] = @ + 1] ELSE redo)
  BY DEF JobFails, chatVars
<1> QED  BY <1>1, <1>2, AttemptFailsMoves

LEMMA JobCrashKept == ASSUME Typed, NEW r \in Rows, JobCrash(r) PROVE Kept
<1>1. /\ job[r].state = "active" /\ failed' = failed /\ msg' = msg /\ forgotten' = forgotten /\ target' = target
      /\ job' = [job EXCEPT ![r] = RowJob("waiting", job[r].made, "start", job[r].for)]
  BY DEF JobCrash, JobTo, chatVars
<1>2. /\ job[r].made \in Nat /\ forgotten \in Nat /\ target \in Users \cup {None}
      /\ sent[r] \in Nat /\ redo[r] \in Nat /\ sent \in [Rows -> Nat] /\ redo \in [Rows -> Nat]
  BY JobFields DEF Typed
<1>3. "waiting" \in States /\ "start" \in JobSteps  BY DEF States, JobSteps
<1>4. \/ JobAt(r, "send") /\ sent' = [sent EXCEPT ![r] = @ + 1] /\ redo' = [redo EXCEPT ![r] = @ + 1]
      \/ JobAt(r, "mark") /\ sent' = sent /\ redo' = [redo EXCEPT ![r] = @ + 1]
      \/ ~JobAt(r, "mark") /\ sent' = sent /\ redo' = redo
  BY DEF JobCrash, Accepted
<1>5. /\ Typed' /\ job'[r].state = "waiting" /\ \A q \in Rows : q # r => Same(q)
  BY <1>1, <1>2, <1>3, <1>4, OneRow
<1>6. Notified(r) <=> JobAt(r, "mark")  BY <1>1 DEF Notified
<1>7. JobAt(r, "send") => ~JobAt(r, "mark")  BY DEF JobAt
<1>8. Retried(r)  BY <1>1, <1>2, <1>4, <1>5, <1>6, <1>7 DEF Retried
<1> QED  BY <1>1, <1>5, <1>8 DEF Kept, Moves

\* Once the queue has forgotten a job it is no use to look at its id any more.
LEMMA ForgetQInv == ASSUME QInv, NEW r \in Rows, Forget(r) PROVE QInv'
<1>1. Typed  BY DEF QInv
<1>2. /\ sent' = sent /\ redo' = redo /\ failed' = failed /\ msg' = msg /\ target' = target
      /\ forgotten' = forgotten + 1 /\ job' = [job EXCEPT ![r] = RowJob("none", job[r].made, "start", job[r].for)]
  BY DEF Forget, JobTo, bookVars, chatVars
<1>3. job[r].made \in Nat /\ "none" \in States /\ "start" \in JobSteps /\ forgotten' \in Nat /\ forgotten' # 0
  BY <1>1, <1>2, JobFields DEF States, JobSteps, Typed
<1>4. Typed'
  <2>1. target' \in Users \cup {None}  BY <1>1, <1>2 DEF Typed
  <2> QED  BY <1>1, <1>2, <1>3, <2>1, OneRow
<1> QED  BY <1>3, <1>4 DEF QInv

LEMMA KeptQInv == ASSUME QInv, Kept PROVE QInv'
<1>1. ASSUME forgotten' = 0, NEW r \in Rows PROVE Heard(r)' /\ Counted(r)'
  BY <1>1, MovesKeep DEF QInv, Kept
<1> QED  BY <1>1 DEF QInv, Kept

LEMMA StepQInv == QInv /\ [Next]_vars => QInv'
<1> SUFFICES ASSUME QInv, [Next]_vars PROVE QInv'  OBVIOUS
<1>1. Typed  BY DEF QInv
<1>2. CASE MsgNext  BY <1>1, <1>2, MsgNextKept, KeptQInv
<1>3. CASE UserNext  BY <1>1, <1>3, UserNextKept, KeptQInv
<1>4. CASE JobNext
  <2>1. PICK r \in Rows :
          \/ Find(r) \/ (\E outcome \in Outcomes : Send(r, outcome))
          \/ Mark(r) \/ Purge(r) \/ JobFails(r) \/ JobCrash(r) \/ Forget(r)
    BY <1>4, Zenon DEF JobNext
  <2>2. CASE Find(r)  BY <1>1, <2>2, FindKept, KeptQInv
  <2>3. ASSUME NEW outcome \in Outcomes, Send(r, outcome) PROVE QInv'  BY <1>1, <2>3, SendKept, KeptQInv
  <2>4. CASE Mark(r) \/ Purge(r)  BY <1>1, <2>4, MarkKept, KeptQInv
  <2>5. CASE JobFails(r)  BY <1>1, <2>5, JobFailsKept, KeptQInv
  <2>6. CASE JobCrash(r)  BY <1>1, <2>6, JobCrashKept, KeptQInv
  <2>7. CASE Forget(r)  BY <2>7, ForgetQInv
  <2> QED  BY <2>1, <2>2, <2>3, <2>4, <2>5, <2>6, <2>7, Zenon
<1>5. CASE UNCHANGED vars
  <2>1. Idle  BY <1>1, <1>5 DEF vars, bookVars, chatVars, boundVars, Idle, Typed
  <2> QED  BY <1>1, <2>1, IdleMoves, KeptQInv DEF Kept
<1> QED  BY <1>2, <1>3, <1>4, <1>5 DEF Next

LEMMA AlwaysQInv == Spec => []QInv
<1> HIDE DEF QInv, Init, Next
<1> QED  BY InitQInv, StepQInv, PTL DEF Spec

-----------------------------------------------------------------------------
(* Type correctness *)

MsgFit == [state : States, made : 0..MessageAttempts, step : MsgSteps, to : Users \cup {None}, list : SUBSET Rows]
JobFit == [state : States, made : 0..DeliverAttempts, step : JobSteps, for : Users \cup {None}]

\* A job that is to be run, or runs, has an attempt left.
MsgFits == msg \in MsgFit /\ (msg.state \in {"waiting", "active"} => msg.made < MessageAttempts)
JobFits ==
  /\ job \in [Rows -> JobFit]
  /\ \A r \in Rows : job[r].state \in {"waiting", "active"} => job[r].made < DeliverAttempts

RowsFit ==
  /\ owner \in [Rows -> Users \cup {None}] /\ used \in SUBSET Rows /\ expired \in SUBSET Rows
  /\ target \in Users \cup {None} /\ viewing \in SUBSET Users

BooksFit == added \in [Rows -> Nat] /\ misread \in BOOLEAN /\ intruded \in BOOLEAN
BoundsFit ==
  /\ faults \in 0..MaxFaults /\ crashes \in 0..MaxCrashes
  /\ forgotten \in 0..MaxForgotten /\ changes \in 0..MaxChanges

Fits == MsgFits /\ JobFits /\ RowsFit /\ BooksFit /\ BoundsFit

LEMMA MsgRecord ==
  ASSUME NEW state \in States, NEW made \in 0..MessageAttempts, NEW step \in MsgSteps,
         NEW to \in Users \cup {None}, NEW list \in SUBSET Rows,
         state \in {"waiting", "active"} => made < MessageAttempts,
         msg' = MsgJob(state, made, step, to, list)
  PROVE  MsgFits'
  BY DEF MsgJob, MsgFits, MsgFit

LEMMA JobRecord ==
  ASSUME NEW state \in States, NEW made \in 0..DeliverAttempts, NEW step \in JobSteps, NEW for \in Users \cup {None}
  PROVE  /\ RowJob(state, made, step, for) \in JobFit
         /\ RowJob(state, made, step, for).state = state /\ RowJob(state, made, step, for).made = made
  BY DEF RowJob, JobFit

\* What the fields of the message job are.
LEMMA MsgFields ==
  ASSUME MsgFits
  PROVE  /\ msg.made \in 0..MessageAttempts /\ msg.to \in Users \cup {None} /\ msg.list \in SUBSET Rows
         /\ msg.state \in {"waiting", "active"} => msg.made + 1 \in 0..MessageAttempts
<1>1. msg.made \in 0..MessageAttempts /\ msg.to \in Users \cup {None} /\ msg.list \in SUBSET Rows
  BY DEF MsgFits, MsgFit
<1>2. msg.state \in {"waiting", "active"} => msg.made < MessageAttempts  BY DEF MsgFits
<1> QED  BY <1>1, <1>2, AttemptsAssumption

LEMMA InitFits == ASSUME Init PROVE Fits
<1>1. /\ "none" \in States /\ "start" \in JobSteps /\ "start" \in MsgSteps /\ None \in Users \cup {None}
      /\ 0 \in 0..MessageAttempts /\ 0 \in 0..DeliverAttempts
  BY AttemptsAssumption DEF States, JobSteps, MsgSteps
<1>2. MsgFits
  <2>1. msg = MsgJob("none", 0, "start", None, {})  BY DEF Init
  <2> QED  BY <1>1, <2>1 DEF MsgJob, MsgFits, MsgFit
<1>3. JobFits
  <2> DEFINE first == RowJob("none", 0, "start", None)
  <2>1. first \in JobFit /\ first.state = "none"  BY <1>1, JobRecord
  <2>2. job = [r \in Rows |-> first]  BY DEF Init
  <2> HIDE DEF first
  <2> QED  BY <2>1, <2>2 DEF JobFits
<1>4. RowsFit  BY RowsAssumption DEF Init, RowsFit
<1>5. BooksFit  BY DEF Init, BooksFit
<1>6. BoundsFit  BY AttemptsAssumption DEF Init, BoundsFit
<1> QED  BY <1>2, <1>3, <1>4, <1>5, <1>6 DEF Fits

LEMMA MsgNextFits == ASSUME MsgFits, RowsFit, MsgNext PROVE MsgFits'
<1>1. /\ {"waiting", "active", "completed", "failed"} \subseteq States
      /\ {"start", "viewers", "list", "add", "finish"} \subseteq MsgSteps
      /\ None \in Users \cup {None} /\ {} \in SUBSET Rows
      /\ 0 \in 0..MessageAttempts /\ 0 < MessageAttempts
  BY AttemptsAssumption DEF States, MsgSteps
<1>2. msg.made \in 0..MessageAttempts /\ msg.to \in Users \cup {None} /\ msg.list \in SUBSET Rows
  BY MsgFields
<1>3. ASSUME MsgDone PROVE MsgFits'  BY <1>1, <1>2, <1>3, MsgRecord DEF MsgDone
<1>4. ASSUME NEW step \in MsgSteps, msg.state = "active", MsgGoes(step) PROVE MsgFits'
  <2>1. msg.made < MessageAttempts  BY <1>4 DEF MsgFits
  <2> QED  BY <1>1, <1>2, <1>4, <2>1, MsgRecord DEF MsgGoes
<1>5. CASE Enqueue  BY <1>1, <1>5, MsgRecord DEF Enqueue
<1>6. CASE Who
  <2>1. msg.state = "waiting" /\ target \in Users \cup {None}  BY <1>6 DEF Who, RowsFit
  <2>2. msg.made < MessageAttempts  BY <2>1 DEF MsgFits
  <2>3. CASE msg' = MsgJob("completed", msg.made, "start", None, {})  BY <1>1, <1>2, <2>3, MsgRecord
  <2>4. CASE msg' = MsgJob("active", msg.made, "viewers", target, {})  BY <1>1, <1>2, <2>1, <2>2, <2>4, MsgRecord
  <2> QED  BY <1>6, <2>3, <2>4 DEF Who
<1>7. CASE Viewers  BY <1>1, <1>3, <1>4, <1>7 DEF Viewers, MsgAt
<1>8. CASE List
  <2> DEFINE devices == {r \in Rows : owner[r] = msg.to}
  <2>1. msg.state = "active" /\ devices \in SUBSET Rows  BY <1>8 DEF List, MsgAt
  <2>2. msg.made < MessageAttempts  BY <2>1 DEF MsgFits
  <2>3. MsgDone \/ msg' = MsgJob("active", msg.made, "add", msg.to, devices)  BY <1>8 DEF List
  <2> HIDE DEF devices
  <2>4. CASE msg' = MsgJob("active", msg.made, "add", msg.to, devices)
    BY <1>1, <1>2, <2>1, <2>2, <2>4, MsgRecord
  <2> QED  BY <1>3, <2>3, <2>4
<1>9. CASE Add  BY <1>1, <1>4, <1>9 DEF Add, MsgAt
<1>10. CASE Finish  BY <1>3, <1>10 DEF Finish
<1>11. CASE MsgFails
  <2> DEFINE made == msg.made + 1
             state == IF made >= MessageAttempts THEN "failed" ELSE "waiting"
  <2>1. msg' = MsgJob(state, made, "start", None, {}) /\ msg.state \in {"waiting", "active"}
    BY <1>11 DEF MsgFails
  <2>2. made \in 0..MessageAttempts  BY <2>1, MsgFields
  <2>3. state \in States  BY <1>1
  <2>4. state \in {"waiting", "active"} => made < MessageAttempts  BY <2>2, AttemptsAssumption
  <2> HIDE DEF made, state
  <2> QED  BY <1>1, <2>1, <2>2, <2>3, <2>4, MsgRecord
<1>12. CASE MsgCrash
  <2>1. msg.state = "active" /\ msg' = MsgJob("waiting", msg.made, "start", None, {})  BY <1>12 DEF MsgCrash
  <2>2. msg.made < MessageAttempts  BY <2>1 DEF MsgFits
  <2> QED  BY <1>1, <1>2, <2>1, <2>2, MsgRecord
<1> QED  BY <1>5, <1>6, <1>7, <1>8, <1>9, <1>10, <1>11, <1>12, Zenon DEF MsgNext

\* The job of one row is put into a state it fits.
LEMMA OneFits ==
  ASSUME JobFits, NEW r \in Rows, NEW state \in States, NEW made \in 0..DeliverAttempts, NEW step \in JobSteps,
         state \in {"waiting", "active"} => made < DeliverAttempts,
         job' = [job EXCEPT ![r] = RowJob(state, made, step, job[r].for)]
  PROVE  JobFits'
<1> DEFINE new == RowJob(state, made, step, job[r].for)
<1>1. job[r].for \in Users \cup {None}  BY DEF JobFits, JobFit
<1>2. new \in JobFit /\ new.state = state /\ new.made = made  BY <1>1, JobRecord
<1>3. job' = [job EXCEPT ![r] = new]  OBVIOUS
<1> HIDE DEF new
<1> QED  BY <1>2, <1>3 DEF JobFits

LEMMA AddFits ==
  ASSUME MsgFits, JobFits, BooksFit, AddJobs(msg.list)
  PROVE  JobFits' /\ added' \in [Rows -> Nat]
<1> DEFINE new == RowJob("waiting", 0, "start", msg.to)
<1>1. "waiting" \in States /\ "start" \in JobSteps /\ 0 \in 0..DeliverAttempts /\ 0 < DeliverAttempts
  BY AttemptsAssumption DEF States, JobSteps
<1>2. new \in JobFit /\ new.made = 0  BY <1>1, MsgFields, JobRecord
<1>3. job' = [r \in Rows |-> IF r \in Unknown(msg.list) THEN new ELSE job[r]]  BY DEF AddJobs
<1> HIDE DEF new
<1>4. JobFits'  BY <1>1, <1>2, <1>3 DEF JobFits
<1>5. added' \in [Rows -> Nat]  BY DEF AddJobs, BooksFit
<1> QED  BY <1>4, <1>5

LEMMA AttemptFits ==
  ASSUME JobFits, NEW r \in Rows, job[r].state \in {"waiting", "active"}, AttemptFails(r) \/ GivesUp(r)
  PROVE  JobFits'
<1> DEFINE made == job[r].made + 1
           state == IF made >= DeliverAttempts THEN "failed" ELSE "waiting"
<1>1. job[r].made \in 0..DeliverAttempts /\ job[r].made < DeliverAttempts  BY DEF JobFits, JobFit
<1>2. made \in 0..DeliverAttempts  BY <1>1, AttemptsAssumption
<1>3. /\ state \in States /\ "failed" \in States /\ "start" \in JobSteps
      /\ state \in {"waiting", "active"} => made < DeliverAttempts
  BY <1>2, AttemptsAssumption DEF States, JobSteps
<1>4. \/ job' = [job EXCEPT ![r] = RowJob(state, made, "start", job[r].for)]
      \/ job' = [job EXCEPT ![r] = RowJob("failed", made, "start", job[r].for)]
  BY DEF AttemptFails, GivesUp
<1> HIDE DEF made, state
<1> QED  BY <1>2, <1>3, <1>4, OneFits

LEMMA JobNextFits == ASSUME JobFits, JobNext PROVE JobFits'
<1>1. PICK r \in Rows :
        \/ Find(r) \/ (\E outcome \in Outcomes : Send(r, outcome))
        \/ Mark(r) \/ Purge(r) \/ JobFails(r) \/ JobCrash(r) \/ Forget(r)
  BY Zenon DEF JobNext
<1>2. job[r].made \in 0..DeliverAttempts  BY DEF JobFits, JobFit
<1>3. ASSUME NEW state \in States, NEW step \in JobSteps, JobTo(r, state, step),
             job[r].state \in {"waiting", "active"} \/ state \in {"none", "completed"}
      PROVE  JobFits'
  <2>1. state \in {"waiting", "active"} => job[r].made < DeliverAttempts  BY <1>3 DEF JobFits
  <2> QED  BY <1>2, <1>3, <2>1, OneFits DEF JobTo
<1>4. States = {"none", "waiting", "active", "completed", "failed"} /\ JobSteps = {"start", "send", "mark", "purge"}
  BY DEF States, JobSteps
<1>5. CASE Find(r)  BY <1>3, <1>4, <1>5 DEF Find
<1>6. ASSUME NEW outcome \in Outcomes, Send(r, outcome) PROVE JobFits'
  <2>1. job[r].state = "active"  BY <1>6 DEF Send, JobAt
  <2>2. CASE JobTo(r, "active", "mark") \/ JobTo(r, "active", "purge")  BY <1>3, <1>4, <2>1, <2>2
  <2>3. CASE AttemptFails(r) \/ GivesUp(r)  BY <2>1, <2>3, AttemptFits
  <2> QED  BY <1>6, <2>2, <2>3 DEF Send
<1>7. CASE Mark(r) \/ Purge(r)  BY <1>3, <1>4, <1>7 DEF Mark, Purge
<1>8. CASE JobFails(r)
  <2>1. job[r].state \in {"waiting", "active"} /\ AttemptFails(r)  BY <1>8 DEF JobFails, JobAt
  <2> QED  BY <2>1, AttemptFits
<1>9. CASE JobCrash(r)  BY <1>3, <1>4, <1>9 DEF JobCrash
<1>10. CASE Forget(r)  BY <1>3, <1>4, <1>10 DEF Forget
<1> QED  BY <1>1, <1>5, <1>6, <1>7, <1>8, <1>9, <1>10, Zenon

LEMMA NextRowsFit == ASSUME RowsFit, Next PROVE RowsFit'
<1>1. CASE MsgNext
  BY <1>1 DEF MsgNext, Enqueue, Who, Viewers, List, Add, Finish, MsgFails, MsgCrash, RowsFit, rowVars, chatVars
<1>2. ASSUME NEW r \in Rows,
             \/ Find(r) \/ (\E outcome \in Outcomes : Send(r, outcome))
             \/ Mark(r) \/ JobFails(r) \/ JobCrash(r) \/ Forget(r)
      PROVE  RowsFit'
  BY <1>2 DEF Find, Send, Mark, JobFails, JobCrash, Forget, RowsFit, rowVars, chatVars
<1>3. ASSUME NEW r \in Rows, Purge(r) PROVE RowsFit'
  BY <1>3 DEF Purge, RowsFit, chatVars
<1>4. ASSUME NEW r \in Rows, (\E u \in Users : Subscribe(r, u)) \/ Unsubscribe(r) \/ Expire(r) PROVE RowsFit'
  BY <1>4 DEF Subscribe, Unsubscribe, Expire, RowsFit, chatVars
<1>5. ASSUME NEW u \in Users, Watch(u) PROVE RowsFit'  BY <1>5 DEF Watch, RowsFit, rowVars
<1>6. ASSUME NEW t \in Users \cup {None}, Reassign(t) PROVE RowsFit'  BY <1>6 DEF Reassign, RowsFit, rowVars
<1> QED  BY <1>1, <1>2, <1>3, <1>4, <1>5, <1>6, Zenon DEF Next, JobNext, UserNext

\* At most one of the bounded counters is counted up, and not beyond its bound.
LEMMA NextBoundsFit == ASSUME BoundsFit, Next PROVE BoundsFit'
<1> DEFINE Steps(x, y, max) == y = x \/ (x < max /\ y = x + 1)
<1>1. ASSUME NEW x, NEW y, NEW max \in Nat, x \in 0..max, Steps(x, y, max) PROVE y \in 0..max  BY <1>1
<1>2. ASSUME Steps(faults, faults', MaxFaults), Steps(crashes, crashes', MaxCrashes),
             Steps(forgotten, forgotten', MaxForgotten), Steps(changes, changes', MaxChanges)
      PROVE  BoundsFit'
  <2>1. faults' \in 0..MaxFaults  BY <1>1, <1>2, AttemptsAssumption DEF BoundsFit
  <2>2. crashes' \in 0..MaxCrashes  BY <1>1, <1>2, AttemptsAssumption DEF BoundsFit
  <2>3. forgotten' \in 0..MaxForgotten  BY <1>1, <1>2, AttemptsAssumption DEF BoundsFit
  <2>4. changes' \in 0..MaxChanges  BY <1>1, <1>2, AttemptsAssumption DEF BoundsFit
  <2> QED  BY <2>1, <2>2, <2>3, <2>4 DEF BoundsFit
<1>3. CASE MsgNext
  BY <1>2, <1>3 DEF MsgNext, Enqueue, Who, Viewers, List, Add, Finish, MsgFails, MsgCrash, boundVars
<1>4. ASSUME NEW r \in Rows,
             \/ Find(r) \/ (\E outcome \in Outcomes : Send(r, outcome))
             \/ Mark(r) \/ Purge(r) \/ JobFails(r) \/ JobCrash(r) \/ Forget(r)
      PROVE  BoundsFit'
  BY <1>2, <1>4 DEF Find, Send, Mark, Purge, JobFails, JobCrash, Forget, boundVars
<1>5. CASE UserNext
  BY <1>2, <1>5 DEF UserNext, Subscribe, Unsubscribe, Expire, Watch, Reassign, Change
<1> HIDE DEF Steps
<1> QED  BY <1>3, <1>4, <1>5, Zenon DEF Next, JobNext

LEMMA NextBooksFit == ASSUME MsgFits, JobFits, BooksFit, Next PROVE BooksFit'
<1>1. CASE MsgNext
  <2>1. misread' = misread /\ intruded' = intruded
    BY <1>1, Zenon DEF MsgNext, Enqueue, Who, Viewers, List, Add, Finish, MsgFails, MsgCrash, bookVars
  <2>2. added' = added \/ AddJobs(msg.list)
    BY <1>1 DEF MsgNext, Enqueue, Who, Viewers, List, Add, Finish, MsgFails, MsgCrash, bookVars
  <2>3. added' \in [Rows -> Nat]  BY <2>2, AddFits DEF BooksFit
  <2> QED  BY <2>1, <2>3, Zenon DEF BooksFit
<1>2. ASSUME NEW r \in Rows,
             \/ Find(r) \/ (\E outcome \in Outcomes : Send(r, outcome))
             \/ Mark(r) \/ Purge(r) \/ JobFails(r) \/ JobCrash(r) \/ Forget(r)
      PROVE  BooksFit'
  <2>1. added' = added
    BY <1>2 DEF Find, Send, Mark, Purge, JobFails, JobCrash, Forget, bookVars
  <2>2. Accepted(r) \/ (misread' = misread /\ intruded' = intruded)
    BY <1>2, Zenon DEF Find, Send, Mark, Purge, JobFails, JobCrash, Forget, bookVars
  <2>3. misread' \in BOOLEAN /\ intruded' \in BOOLEAN  BY <2>2, Zenon DEF Accepted, BooksFit
  <2> QED  BY <2>1, <2>3, Zenon DEF BooksFit
<1>3. CASE UserNext
  <2>1. added' = added /\ misread' = misread /\ intruded' = intruded
    BY <1>3, Zenon DEF UserNext, Subscribe, Unsubscribe, Expire, Watch, Reassign, bookVars
  <2> QED  BY <2>1, Zenon DEF BooksFit
<1> QED  BY <1>1, <1>2, <1>3, Zenon DEF Next, JobNext

LEMMA NextFits == ASSUME Fits, Next PROVE Fits'
<1>1. RowsFit' /\ BoundsFit' /\ BooksFit'  BY NextRowsFit, NextBoundsFit, NextBooksFit DEF Fits
<1>2. CASE MsgNext
  <2>1. MsgFits'  BY <1>2, MsgNextFits DEF Fits
  <2>2. job' = job \/ AddJobs(msg.list)
    BY <1>2 DEF MsgNext, Enqueue, Who, Viewers, List, Add, Finish, MsgFails, MsgCrash
  <2>3. JobFits'  BY <2>2, AddFits DEF Fits, JobFits
  <2> QED  BY <1>1, <2>1, <2>3 DEF Fits
<1>3. CASE JobNext
  <2>1. msg' = msg  BY <1>3 DEF JobNext, Find, Send, Mark, Purge, JobFails, JobCrash, Forget
  <2>2. MsgFits'  BY <2>1 DEF Fits, MsgFits
  <2> QED  BY <1>1, <1>3, <2>2, JobNextFits DEF Fits
<1>4. CASE UserNext
  <2>1. msg' = msg /\ job' = job  BY <1>4 DEF UserNext, Subscribe, Unsubscribe, Expire, Watch, Reassign
  <2>2. MsgFits' /\ JobFits'  BY <2>1 DEF Fits, MsgFits, JobFits
  <2> QED  BY <1>1, <2>2 DEF Fits
<1> QED  BY <1>2, <1>3, <1>4 DEF Next

LEMMA StepFits == Fits /\ [Next]_vars => Fits'
<1> SUFFICES ASSUME Fits, [Next]_vars PROVE Fits'  OBVIOUS
<1>1. CASE Next  BY <1>1, NextFits
<1>2. CASE UNCHANGED vars
  <2>1. MsgFits' /\ JobFits' /\ RowsFit' /\ BoundsFit'
    BY <1>2 DEF vars, rowVars, chatVars, boundVars, Fits, MsgFits, JobFits, RowsFit, BoundsFit
  <2>2. BooksFit'  BY <1>2, Zenon DEF vars, bookVars, Fits, BooksFit
  <2> QED  BY <2>1, <2>2 DEF Fits
<1> QED  BY <1>1, <1>2

-----------------------------------------------------------------------------
(* The theorems *)

\* In every state of the queue the jobs are well formed, and one that waits or runs has an attempt
\* left: neither a retry nor a worker that dies gives back a job whose attempts are used up.
THEOREM QueueTyped == Spec => []TypeOK
<1>1. Init => Fits  BY InitFits
<1>2. QInv /\ Fits => TypeOK
  <2> SUFFICES ASSUME Typed, Fits PROVE TypeOK  BY DEF QInv
  <2>1. /\ msg \in [state : States, made : 0..MessageAttempts, step : MsgSteps,
                     to : Users \cup {None}, list : SUBSET Rows]
        /\ job \in [Rows -> [state : States, made : 0..DeliverAttempts, step : JobSteps,
                              for : Users \cup {None}]]
    BY Zenon DEF Fits, MsgFits, MsgFit, JobFits, JobFit
  <2>2. RowsFit /\ BooksFit /\ BoundsFit  BY DEF Fits
  <2>3. sent \in [Rows -> Nat] /\ redo \in [Rows -> Nat] /\ failed \in [Rows -> Nat]  BY DEF Typed
  <2> QED  BY <2>1, <2>2, <2>3, Zenon DEF RowsFit, BooksFit, BoundsFit, TypeOK
<1> HIDE DEF QInv, Fits, TypeOK, Init, Next
<1> QED  BY AlwaysQInv, StepFits, <1>1, <1>2, PTL DEF Spec

\* While the queue forgets no job, a device is notified once more only for each time its own
\* delivery was accepted without the queue learning of it.
THEOREM NotifiedOnce == Spec => []OthersOnce
<1>1. QInv => OthersOnce
  <2> SUFFICES ASSUME QInv, forgotten = 0, NEW r \in Rows PROVE sent[r] <= 1 + redo[r]  BY DEF OthersOnce
  <2>1. Heard(r) /\ sent[r] \in Nat /\ redo[r] \in Nat  BY JobFields DEF QInv
  <2> QED  BY <2>1 DEF Heard
<1> HIDE DEF QInv, OthersOnce
<1> QED  BY <1>1, AlwaysQInv, PTL

\* A delivery that fails for good is counted exactly once, and no other is.
THEOREM FailuresAreCounted == Spec => []FailuresCounted
<1>1. QInv => FailuresCounted  BY DEF QInv, FailuresCounted, Counted
<1> HIDE DEF QInv, FailuresCounted
<1> QED  BY <1>1, AlwaysQInv, PTL
=============================================================================

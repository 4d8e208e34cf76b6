--------------------------- MODULE MessagesProofs ---------------------------
(***************************************************************************)
(* For any messages, sockets and handlers: Messages implements Receipts,   *)
(* nobody looks at a message that stays 'sent', and the newest message is  *)
(* on top.  None of them is inductive alone: what a handler between its    *)
(* insert and its announcement may do rests on it being the only one at    *)
(* that message (Alone), on the message being there and not announced yet  *)
(* (Pending), and on what it holds of it being true (Held).                *)
(***************************************************************************)
EXTENDS Messages, TLAPS, FiniteSetTheorems

USE MessagesAssumption

\* From the insert to the announcement.
PreEmit == {"touch", "look", "deliver", "emit"}

-----------------------------------------------------------------------------
(* Steps of one handler *)

Untouched(p) == \A q \in Procs : q # p => pc'[q] = pc[q] /\ job'[q] = job[q]

LEMMA GoesOn ==
  ASSUME TypeOK, NEW p \in Procs, NEW s, NEW j, StepWith(p, s, j)
  PROVE  pc'[p] = s /\ job'[p] = j /\ Untouched(p)
  BY DEF StepWith, Goto, SetJob, TypeOK, Untouched

LEMMA KeepsJob ==
  ASSUME TypeOK, NEW p \in Procs, NEW s, Step(p, s)
  PROVE  pc'[p] = s /\ job'[p] = job[p] /\ Untouched(p)
  BY DEF Step, Goto, TypeOK, Untouched

LEMMA Ends ==
  ASSUME TypeOK, NEW p \in Procs, End(p)
  PROVE  pc'[p] = "idle" /\ job'[p] = NoJob /\ Untouched(p)
  BY GoesOn DEF End

LEMMA JobTyped ==
  ASSUME NEW m \in Msgs \cup {None}, NEW s \in Sockets \cup {None}, NEW t \in Nat,
         NEW st \in Statuses, NEW ms \in SUBSET Msgs, NEW fs \in SUBSET Msgs, NEW sd \in Sides,
         NEW n \in Nat
  PROVE  Job(m, s, t, st, ms, fs, sd, n) \in JobType
  BY DEF Job, JobType

LEMMA NoJobTyped == NoJob \in JobType
<1>1. None \in Msgs \cup {None} /\ None \in Sockets \cup {None} /\ 0 \in Nat /\ "none" \in Statuses
      /\ {} \in SUBSET Msgs /\ "staff" \in Sides
  BY DEF Statuses, Sides
<1> QED  BY <1>1, JobTyped DEF NoJob

LEMMA JobParts ==
  ASSUME NEW j \in JobType
  PROVE  /\ j.msg \in Msgs \cup {None} /\ j.sock \in Sockets \cup {None} /\ j.stamp \in Nat
         /\ j.status \in Statuses /\ j.mine \in SUBSET Msgs /\ j.found \in SUBSET Msgs
         /\ j.side \in Sides /\ j.unread \in Nat
  BY DEF JobType

LEMMA GoesOnTyped ==
  ASSUME TypeOK, NEW p \in Procs, NEW s \in Steps, NEW j \in JobType, StepWith(p, s, j)
  PROVE  pc' \in [Procs -> Steps] /\ job' \in [Procs -> JobType]
<1>1. pc \in [Procs -> Steps] /\ job \in [Procs -> JobType]  BY DEF TypeOK
<1>2. pc' \in [Procs -> Steps]  BY <1>1 DEF StepWith, Goto
<1>3. job' = [job EXCEPT ![p] = j]  BY DEF StepWith, SetJob
<1>4. job' \in [Procs -> JobType]  BY <1>1, <1>3, Zenon
<1> QED  BY <1>2, <1>4

LEMMA KeepsJobTyped ==
  ASSUME TypeOK, NEW p \in Procs, NEW s \in Steps, Step(p, s)
  PROVE  pc' \in [Procs -> Steps] /\ job' \in [Procs -> JobType]
<1>1. pc \in [Procs -> Steps] /\ job \in [Procs -> JobType] /\ job' = job  BY DEF TypeOK, Step
<1>2. pc' \in [Procs -> Steps]  BY <1>1 DEF Step, Goto
<1> QED  BY <1>1, <1>2, Zenon

LEMMA EndsTyped ==
  ASSUME TypeOK, NEW p \in Procs, End(p)
  PROVE  pc' \in [Procs -> Steps] /\ job' \in [Procs -> JobType]
<1>1. "idle" \in Steps  BY DEF Steps
<1> QED  BY <1>1, NoJobTyped, GoesOnTyped DEF End

LEMMA Side ==
  ASSUME NEW sd \in Sides
  PROVE  Other(sd) \in Sides /\ Other(sd) # sd /\ (\A x \in Sides : x # sd => x = Other(sd))
  BY DEF Sides, Other

LEMMA AuthorSide == ASSUME NEW m \in Msgs PROVE Author(m) \in Sides /\ From[m] \in Sockets
  BY DEF Author

\* The unread messages can be counted.
LEMMA UnreadCounted == ASSUME NEW sd PROVE Cardinality(Unread(sd)) \in Nat
<1>1. Unread(sd) \subseteq Msgs  BY DEF Unread, SentTo
<1> QED  BY <1>1, FS_Subset, FS_CardinalityType

-----------------------------------------------------------------------------
(* Types *)

\* What TypeOK says beside the tasks.
DataOK ==
  /\ status \in [Msgs -> Statuses] /\ at \in [Msgs -> Nat] /\ deliveredAt \in [Msgs -> Nat]
  /\ top \in Msgs \cup {None}
  /\ room \subseteq Sockets
  /\ now \in Nat /\ calls \in Nat /\ faults \in Nat
  /\ announced \in [Msgs -> Nat] /\ told \in [Msgs -> Statuses] /\ badge \in [Sides -> Nat]
  /\ excused \subseteq Msgs
TasksOK == pc \in [Procs -> Steps] /\ job \in [Procs -> JobType]

LEMMA Split == (TypeOK <=> DataOK /\ TasksOK) /\ (TypeOK' <=> DataOK' /\ TasksOK')
  BY DEF TypeOK, DataOK, TasksOK

\* Which job a step needs: a message, with the stamp it was saved with.
Held ==
  \A p \in Procs :
    /\ pc[p] \in PreEmit \cup {"insert", "seen", "mark", "receipt"} => job[p].msg \in Msgs
    /\ pc[p] \in PreEmit => Stored(job[p].msg)
    /\ pc[p] \in PreEmit \cup {"insert"} => job[p].side = Other(Author(job[p].msg))
    /\ pc[p] = "touch" => job[p].stamp = at[job[p].msg]

LEMMA InitTyped == Init => TypeOK
<1> SUFFICES ASSUME Init PROVE TypeOK  OBVIOUS
<1>1. TasksOK
  <2>1. "idle" \in Steps  BY DEF Steps
  <2> QED  BY <2>1, NoJobTyped, Zenon DEF Init, TasksOK
<1>2. DataOK
  BY DEF Init, DataOK, Statuses, Sides
<1> QED  BY <1>1, <1>2, Split

LEMMA NextTyped == TypeOK /\ Held /\ [Next]_vars => TypeOK'
<1> SUFFICES ASSUME TypeOK, Held, [Next]_vars PROVE TypeOK'  OBVIOUS
<1> USE DEF stored, screens, bounds
<1>0. DataOK /\ TasksOK  BY Split
<1>1. ASSUME NEW p \in Procs, NEW m \in Msgs, Send(p, m) PROVE TypeOK'
  <2>1. Job(m, From[m], now, "none", {}, {}, Other(Author(m)), 0) \in JobType
    <3>1. Other(Author(m)) \in Sides /\ From[m] \in Sockets  BY AuthorSide, Side
    <3>2. now \in Nat /\ "none" \in Statuses /\ {} \in SUBSET Msgs  BY <1>0 DEF DataOK, Statuses
    <3> QED  BY <3>1, <3>2, JobTyped
  <2>2. TasksOK'  BY <1>1, <2>1, GoesOnTyped DEF Send, TasksOK, Steps
  <2>3. DataOK'  BY <1>1, <1>0 DEF Send, Event, DataOK
  <2> QED  BY <2>2, <2>3, Split
<1>2. ASSUME NEW p \in Procs, NEW s \in Sockets, Join(p, s) PROVE TypeOK'
  <2>1. Job(None, s, now, "none", {}, {}, SideOf[s], 0) \in JobType
    <3>1. SideOf[s] \in Sides  OBVIOUS
    <3>2. now \in Nat /\ "none" \in Statuses /\ {} \in SUBSET Msgs  BY <1>0 DEF DataOK, Statuses
    <3> QED  BY <3>1, <3>2, JobTyped
  <2>2. TasksOK'  BY <1>2, <2>1, GoesOnTyped DEF Join, TasksOK, Steps
  <2>3. DataOK'  BY <1>2, <1>0 DEF Join, Event, DataOK
  <2> QED  BY <2>2, <2>3, Split
<1>3. ASSUME NEW p \in Procs, NEW s \in Sockets, NEW m \in Msgs, Read(p, s, m) PROVE TypeOK'
  <2>1. Job(m, s, now, "none", {}, {}, SideOf[s], 0) \in JobType
    <3>1. SideOf[s] \in Sides  OBVIOUS
    <3>2. now \in Nat /\ "none" \in Statuses /\ {} \in SUBSET Msgs  BY <1>0 DEF DataOK, Statuses
    <3> QED  BY <3>1, <3>2, JobTyped
  <2>2. TasksOK'  BY <1>3, <2>1, GoesOnTyped DEF Read, TasksOK, Steps
  <2>3. DataOK'  BY <1>3, <1>0 DEF Read, Event, DataOK
  <2> QED  BY <2>2, <2>3, Split
<1>4. ASSUME NEW p \in Procs, Insert(p) PROVE TypeOK'
  <2>1. TasksOK'  BY <1>4, KeepsJobTyped, EndsTyped DEF Insert, TasksOK, Steps
  <2>2. job[p].stamp \in Nat  BY <1>0, JobParts DEF TasksOK
  <2>3. DataOK'  BY <1>4, <1>0, <2>2 DEF Insert, DataOK, Statuses
  <2> QED  BY <2>1, <2>3, Split
<1>5. ASSUME NEW p \in Procs, Touch(p) PROVE TypeOK'
  <2>1. TasksOK'  BY <1>5, KeepsJobTyped DEF Touch, TasksOK, Steps
  <2>2. job[p].msg \in Msgs  BY <1>5 DEF Held, Touch, PreEmit
  <2>3. DataOK'  BY <1>5, <1>0, <2>2 DEF Touch, DataOK
  <2> QED  BY <2>1, <2>3, Split
<1>6. ASSUME NEW p \in Procs, Look(p) PROVE TypeOK'
  <2>1. Job(job[p].msg, job[p].sock, job[p].stamp, "sent", {}, {}, job[p].side, 0) \in JobType
    <3>1. job[p] \in JobType  BY <1>0 DEF TasksOK
    <3>2. "sent" \in Statuses /\ {} \in SUBSET Msgs  BY DEF Statuses
    <3> QED  BY <3>1, <3>2, JobTyped, JobParts
  <2>2. TasksOK'  BY <1>6, <2>1, GoesOnTyped DEF Look, TasksOK, Steps
  <2>3. DataOK'  BY <1>6, <1>0 DEF Look, DataOK
  <2> QED  BY <2>2, <2>3, Split
<1>7. ASSUME NEW p \in Procs, Deliver(p) PROVE TypeOK'
  <2>1. Job(job[p].msg, job[p].sock, job[p].stamp, "delivered", {}, {}, job[p].side, 0) \in JobType
    <3>1. job[p] \in JobType  BY <1>0 DEF TasksOK
    <3>2. "delivered" \in Statuses /\ {} \in SUBSET Msgs  BY DEF Statuses
    <3> QED  BY <3>1, <3>2, JobTyped, JobParts
  <2>2. TasksOK'  BY <1>7, <2>1, GoesOnTyped, KeepsJobTyped DEF Deliver, TasksOK, Steps
  <2>3. DataOK'  BY <1>7, <1>0 DEF Deliver, DataOK, Statuses
  <2> QED  BY <2>2, <2>3, Split
<1>8. ASSUME NEW p \in Procs, Emit(p) PROVE TypeOK'
  <2>1. TasksOK'  BY <1>8, KeepsJobTyped DEF Emit, TasksOK, Steps
  <2>2. job[p].msg \in Msgs /\ announced \in [Msgs -> Nat]  BY <1>8, <1>0 DEF Held, Emit, PreEmit, DataOK
  <2>3. announced' \in [Msgs -> Nat]  BY <1>8, <2>2 DEF Emit
  <2>4. DataOK'  BY <1>8, <1>0, <2>3 DEF Emit, DataOK
  <2> QED  BY <2>1, <2>4, Split
<1>9. ASSUME NEW p \in Procs, Count(p) PROVE TypeOK'
  <2>1. Job(job[p].msg, job[p].sock, job[p].stamp, job[p].status, {}, {}, job[p].side,
            Cardinality(Unread(job[p].side))) \in JobType
    <3>1. job[p] \in JobType  BY <1>0 DEF TasksOK
    <3>2. {} \in SUBSET Msgs  OBVIOUS
    <3> QED  BY <3>1, <3>2, JobTyped, JobParts, UnreadCounted
  <2>2. TasksOK'  BY <1>9, <2>1, GoesOnTyped DEF Count, TasksOK, Steps
  <2>3. DataOK'  BY <1>9, <1>0 DEF Count, DataOK
  <2> QED  BY <2>2, <2>3, Split
<1>10. ASSUME NEW p \in Procs, Publish(p) PROVE TypeOK'
  <2>1. TasksOK'  BY <1>10, EndsTyped DEF Publish, TasksOK
  <2>2. job[p].unread \in Nat /\ job[p].status \in Statuses  BY <1>0, JobParts DEF TasksOK
  <2>3. DataOK'  BY <1>10, <1>0, <2>2 DEF Publish, DataOK
  <2> QED  BY <2>1, <2>3, Split
<1>11. ASSUME NEW p \in Procs, Receive(p) PROVE TypeOK'
  <2> DEFINE new == {m \in SentTo(job[p].side) : status[m] = "sent"}
  <2>1. new \in SUBSET Msgs  BY DEF SentTo
  <2>2. Job(None, job[p].sock, job[p].stamp, "none", new, {}, job[p].side, 0) \in JobType
    <3>1. job[p] \in JobType  BY <1>0 DEF TasksOK
    <3>2. "none" \in Statuses /\ {} \in SUBSET Msgs  BY DEF Statuses
    <3> HIDE DEF new
    <3> QED  BY <2>1, <3>1, <3>2, JobTyped, JobParts
  <2>3. TasksOK'  BY <1>11, <2>2, GoesOnTyped, EndsTyped DEF Receive, TasksOK, Steps
  <2>4. job[p].stamp \in Nat  BY <1>0, JobParts DEF TasksOK
  <2>5. DataOK'  BY <1>11, <1>0, <2>4 DEF Receive, DataOK, Statuses
  <2> QED  BY <2>3, <2>5, Split
<1>12. ASSUME NEW p \in Procs, Find(p) PROVE TypeOK'
  <2> DEFINE found == {m \in Msgs : status[m] = "delivered" /\ deliveredAt[m] = job[p].stamp}
  <2>1. found \in SUBSET Msgs  OBVIOUS
  <2>2. Job(None, job[p].sock, job[p].stamp, "none", job[p].mine, found, job[p].side, 0) \in JobType
    <3>1. job[p] \in JobType  BY <1>0 DEF TasksOK
    <3>2. "none" \in Statuses  BY DEF Statuses
    <3> HIDE DEF found
    <3> QED  BY <2>1, <3>1, <3>2, JobTyped, JobParts
  <2>3. TasksOK'  BY <1>12, <2>2, GoesOnTyped DEF Find, TasksOK, Steps
  <2>4. DataOK'  BY <1>12, <1>0 DEF Find, DataOK
  <2> QED  BY <2>3, <2>4, Split
<1>13. ASSUME NEW p \in Procs, Report(p) PROVE TypeOK'
  <2>1. TasksOK'  BY <1>13, EndsTyped DEF Report, TasksOK
  <2>2. DataOK'  BY <1>13, <1>0 DEF Report, Tell, DataOK, Statuses
  <2> QED  BY <2>1, <2>2, Split
<1>14. ASSUME NEW p \in Procs, MarkSeen(p) PROVE TypeOK'
  <2>1. TasksOK'  BY <1>14, KeepsJobTyped DEF MarkSeen, TasksOK, Steps
  <2>2. job[p].stamp \in Nat  BY <1>0, JobParts DEF TasksOK
  <2>3. DataOK'  BY <1>14, <1>0, <2>2 DEF MarkSeen, DataOK
  <2> QED  BY <2>1, <2>3, Split
<1>15. ASSUME NEW p \in Procs, MarkRead(p) PROVE TypeOK'
  <2>1. TasksOK'  BY <1>15, KeepsJobTyped, EndsTyped DEF MarkRead, TasksOK, Steps
  <2>2. DataOK'  BY <1>15, <1>0 DEF MarkRead, DataOK, Statuses
  <2> QED  BY <2>1, <2>2, Split
<1>16. ASSUME NEW p \in Procs, Receipt(p) PROVE TypeOK'
  <2>1. TasksOK'  BY <1>16, KeepsJobTyped DEF Receipt, TasksOK, Steps
  <2>2. DataOK'  BY <1>16, <1>0 DEF Receipt, Tell, DataOK, Statuses
  <2> QED  BY <2>1, <2>2, Split
<1>17. ASSUME NEW p \in Procs, Abort(p) PROVE TypeOK'
  <2>1. TasksOK'  BY <1>17, EndsTyped DEF Abort, TasksOK
  <2>2. excused' \subseteq Msgs
    <3>1. pc[p] \in {"touch", "look", "deliver", "emit"} => job[p].msg \in Msgs  BY DEF Held, PreEmit
    <3> QED  BY <1>17, <1>0, <3>1 DEF Abort, DataOK, SentTo
  <2>3. DataOK'  BY <1>17, <1>0, <2>2 DEF Abort, DataOK
  <2> QED  BY <2>1, <2>3, Split
<1>18. ASSUME NEW s \in Sockets, Leave(s) PROVE TypeOK'
  BY <1>18 DEF Leave, Event, TypeOK
<1>19. CASE Tick
  BY <1>19 DEF Tick, TypeOK
<1>20. CASE Quiet \/ UNCHANGED vars
  BY <1>20 DEF Quiet, vars, TypeOK
<1> QED
  BY <1>1, <1>2, <1>3, <1>4, <1>5, <1>6, <1>7, <1>8, <1>9, <1>10, <1>11, <1>12, <1>13, <1>14, <1>15,
     <1>16, <1>17, <1>18, <1>19, <1>20 DEF Next, Work

-----------------------------------------------------------------------------
(* What a step can be for the messages and the handlers at them *)

Kept == at' = at /\ \A m \in Msgs : Stored(m)' <=> Stored(m)

\* A message is saved by the handler that goes on with it.
Saves(p) ==
  /\ pc[p] = "insert" /\ ~Stored(job[p].msg)
  /\ status' = [status EXCEPT ![job[p].msg] = "sent"]
  /\ at' = [at EXCEPT ![job[p].msg] = job[p].stamp]
  /\ pc'[p] = "touch" /\ job'[p] = job[p] /\ Untouched(p)
  /\ announced' = announced

\* It is announced, and the handler has done with it.
Announces(p) ==
  /\ pc[p] = "emit" /\ pc'[p] = "count" /\ Untouched(p)
  /\ announced' = [announced EXCEPT ![job[p].msg] = @ + 1]
  /\ Kept

\* A handler stops, starts with something else or goes on at its message.
Moves(p) ==
  /\ Kept /\ announced' = announced /\ Untouched(p)
  /\ \/ pc'[p] \in {"idle", "receive", "find", "report", "count", "publish"}
     \/ /\ pc'[p] = "insert"
        /\ job'[p].msg \in Msgs /\ job'[p].side = Other(Author(job'[p].msg))
     \/ pc'[p] \in {"seen", "mark", "receipt"} /\ job'[p].msg \in Msgs
     \/ /\ pc[p] \in PreEmit /\ pc'[p] \in PreEmit \ {"touch"}
        /\ job'[p].msg = job[p].msg /\ job'[p].side = job[p].side

Rests == UNCHANGED <<status, at, announced, pc, job>>

LEMMA NextKinds ==
  ASSUME TypeOK, Held, [Next]_vars
  PROVE  Rests \/ \E p \in Procs : Saves(p) \/ Announces(p) \/ Moves(p)
<1> USE DEF stored, screens, bounds
<1> DEFINE Goal == Rests \/ \E p \in Procs : Saves(p) \/ Announces(p) \/ Moves(p)
<1>0. status \in [Msgs -> Statuses]  BY DEF TypeOK
<1>1. ASSUME NEW p \in Procs, NEW m \in Msgs, Send(p, m) PROVE Moves(p)
  <2>1. pc'[p] = "insert" /\ job'[p].msg = m /\ job'[p].side = Other(Author(m)) /\ Untouched(p)
    BY <1>1, GoesOn DEF Send, Job
  <2> QED  BY <1>1, <2>1 DEF Send, Moves, Kept, Stored
<1>2. ASSUME NEW p \in Procs, NEW s \in Sockets, Join(p, s) PROVE Moves(p)
  <2>1. pc'[p] = "receive" /\ Untouched(p)  BY <1>2, GoesOn DEF Join
  <2> QED  BY <1>2, <2>1 DEF Join, Moves, Kept, Stored
<1>3. ASSUME NEW p \in Procs, NEW s \in Sockets, NEW m \in Msgs, Read(p, s, m) PROVE Moves(p)
  <2>1. pc'[p] = "seen" /\ job'[p].msg = m /\ Untouched(p)  BY <1>3, GoesOn DEF Read, Job
  <2> QED  BY <1>3, <2>1 DEF Read, Moves, Kept, Stored
<1>4. ASSUME NEW p \in Procs, Insert(p) PROVE Saves(p) \/ Moves(p)
  <2>1. CASE ~Stored(job[p].msg)
    <3>1. pc'[p] = "touch" /\ job'[p] = job[p] /\ Untouched(p)  BY <1>4, <2>1, KeepsJob DEF Insert
    <3> QED  BY <1>4, <2>1, <3>1 DEF Insert, Saves
  <2>2. CASE Stored(job[p].msg)
    <3>1. pc'[p] = "idle" /\ Untouched(p)  BY <1>4, <2>2, Ends DEF Insert
    <3> QED  BY <1>4, <2>2, <3>1 DEF Insert, Moves, Kept, Stored
  <2> QED  BY <2>1, <2>2
<1>5. ASSUME NEW p \in Procs, Touch(p) PROVE Moves(p)
  <2>1. pc'[p] = "look" /\ job'[p] = job[p] /\ Untouched(p)  BY <1>5, KeepsJob DEF Touch
  <2> QED  BY <1>5, <2>1 DEF Touch, Moves, Kept, Stored, PreEmit
<1>6. ASSUME NEW p \in Procs, Look(p) PROVE Moves(p)
  <2>1. /\ pc'[p] \in {"deliver", "emit"} /\ Untouched(p)
        /\ job'[p].msg = job[p].msg /\ job'[p].side = job[p].side
    BY <1>6, GoesOn DEF Look, Job
  <2> QED  BY <1>6, <2>1 DEF Look, Moves, Kept, Stored, PreEmit
<1>7. ASSUME NEW p \in Procs, Deliver(p) PROVE Moves(p)
  <2>1. /\ pc'[p] = "emit" /\ Untouched(p)
        /\ job'[p].msg = job[p].msg /\ job'[p].side = job[p].side
    BY <1>7, GoesOn, KeepsJob DEF Deliver, Job
  <2>2. Kept  BY <1>0, <1>7 DEF Deliver, Kept, Stored
  <2> QED  BY <1>7, <2>1, <2>2 DEF Deliver, Moves, PreEmit
<1>8. ASSUME NEW p \in Procs, Emit(p) PROVE Announces(p)
  <2>1. pc'[p] = "count" /\ Untouched(p)  BY <1>8, KeepsJob DEF Emit
  <2> QED  BY <1>8, <2>1 DEF Emit, Announces, Kept, Stored
<1>9. ASSUME NEW p \in Procs, Count(p) PROVE Moves(p)
  <2>1. pc'[p] = "publish" /\ Untouched(p)  BY <1>9, GoesOn DEF Count
  <2> QED  BY <1>9, <2>1 DEF Count, Moves, Kept, Stored
<1>10. ASSUME NEW p \in Procs, Publish(p) PROVE Moves(p)
  <2>1. pc'[p] = "idle" /\ Untouched(p)  BY <1>10, Ends DEF Publish
  <2> QED  BY <1>10, <2>1 DEF Publish, Moves, Kept, Stored
<1>11. ASSUME NEW p \in Procs, Receive(p) PROVE Moves(p)
  <2>1. pc'[p] \in {"idle", "find"} /\ Untouched(p)  BY <1>11, GoesOn, Ends DEF Receive
  <2>2. Kept  BY <1>0, <1>11 DEF Receive, Kept, Stored
  <2> QED  BY <1>11, <2>1, <2>2 DEF Receive, Moves
<1>12. ASSUME NEW p \in Procs, Find(p) PROVE Moves(p)
  <2>1. pc'[p] = "report" /\ Untouched(p)  BY <1>12, GoesOn DEF Find
  <2> QED  BY <1>12, <2>1 DEF Find, Moves, Kept, Stored
<1>13. ASSUME NEW p \in Procs, Report(p) PROVE Moves(p)
  <2>1. pc'[p] = "idle" /\ Untouched(p)  BY <1>13, Ends DEF Report
  <2> QED  BY <1>13, <2>1 DEF Report, Moves, Kept, Stored
<1>14. ASSUME NEW p \in Procs, MarkSeen(p) PROVE Moves(p)
  <2>1. pc'[p] = "mark" /\ job'[p] = job[p] /\ Untouched(p)  BY <1>14, KeepsJob DEF MarkSeen
  <2>2. job[p].msg \in Msgs  BY <1>14 DEF MarkSeen, Held
  <2> QED  BY <1>14, <2>1, <2>2 DEF MarkSeen, Moves, Kept, Stored
<1>15. ASSUME NEW p \in Procs, MarkRead(p) PROVE Moves(p)
  <2>1. pc'[p] = "idle" \/ (pc'[p] = "receipt" /\ job'[p] = job[p])  BY <1>15, KeepsJob, Ends DEF MarkRead
  <2>2. Untouched(p)  BY <1>15, KeepsJob, Ends DEF MarkRead
  <2>3. job[p].msg \in Msgs  BY <1>15 DEF MarkRead, Held
  <2>4. Kept  BY <1>0, <1>15 DEF MarkRead, Kept, Stored, Unread, SentTo
  <2> QED  BY <1>15, <2>1, <2>2, <2>3, <2>4 DEF MarkRead, Moves
<1>16. ASSUME NEW p \in Procs, Receipt(p) PROVE Moves(p)
  <2>1. pc'[p] = "count" /\ Untouched(p)  BY <1>16, KeepsJob DEF Receipt
  <2> QED  BY <1>16, <2>1 DEF Receipt, Moves, Kept, Stored
<1>17. ASSUME NEW p \in Procs, Abort(p) PROVE Moves(p)
  <2>1. pc'[p] = "idle" /\ Untouched(p)  BY <1>17, Ends DEF Abort
  <2> QED  BY <1>17, <2>1 DEF Abort, Moves, Kept, Stored
<1>18. ASSUME NEW s \in Sockets, Leave(s) PROVE Rests
  BY <1>18 DEF Leave, Rests
<1>19. CASE Tick \/ Quiet \/ UNCHANGED vars
  BY <1>19 DEF Tick, Quiet, vars, Rests
<1> HIDE DEF Moves, Saves, Announces, Rests
<1> QED
  BY <1>1, <1>2, <1>3, <1>4, <1>5, <1>6, <1>7, <1>8, <1>9, <1>10, <1>11, <1>12, <1>13, <1>14, <1>15,
     <1>16, <1>17, <1>18, <1>19, Zenon DEF Next, Work

-----------------------------------------------------------------------------
(* The inductive invariant *)

\* One handler at most has a message between its insert and its announcement.
Alone ==
  \A p, q \in Procs :
    pc[p] \in PreEmit /\ pc[q] \in PreEmit /\ job[p].msg = job[q].msg => p = q

\* What is not saved, or still in the hands of its handler, is not announced.
Pending ==
  /\ \A m \in Msgs : ~Stored(m) => announced[m] = 0
  /\ \A p \in Procs : pc[p] \in PreEmit => announced[job[p].msg] = 0

IInv == TypeOK /\ Held /\ Alone /\ Pending

LEMMA InitIInv == Init => IInv
  BY InitTyped DEF Init, IInv, Held, Alone, Pending, PreEmit

LEMMA NextIInv == IInv /\ [Next]_vars => IInv'
<1> SUFFICES ASSUME IInv, [Next]_vars PROVE IInv'  OBVIOUS
<1>1. TypeOK /\ Held /\ Alone /\ Pending  BY DEF IInv
<1>2. TypeOK'  BY <1>1, NextTyped
<1>3. status \in [Msgs -> Statuses] /\ at \in [Msgs -> Nat] /\ announced \in [Msgs -> Nat]
  BY <1>1 DEF TypeOK
<1>4. CASE Rests
  BY <1>1, <1>2, <1>4 DEF Rests, IInv, Held, Alone, Pending, Stored
<1>5. ASSUME NEW p \in Procs, Saves(p) PROVE IInv'
  <2>1. job[p].msg \in Msgs /\ job[p].side = Other(Author(job[p].msg)) /\ ~Stored(job[p].msg)
    BY <1>1, <1>5 DEF Saves, Held
  <2>2. \A m \in Msgs : Stored(m) => Stored(m)'  BY <1>3, <1>5 DEF Saves, Stored
  <2>3. Stored(job[p].msg)' /\ at'[job[p].msg] = job[p].stamp  BY <1>3, <1>5, <2>1 DEF Saves, Stored
  <2>4. \A m \in Msgs \ {job[p].msg} : at'[m] = at[m]  BY <1>3, <1>5 DEF Saves
  <2>5. \A q \in Procs : pc[q] \in PreEmit => job[q].msg # job[p].msg  BY <1>1, <2>1 DEF Held
  <2>6. Held'
    <3> SUFFICES ASSUME NEW q \in Procs
                 PROVE /\ pc'[q] \in PreEmit \cup {"insert", "seen", "mark", "receipt"} => job'[q].msg \in Msgs
                       /\ pc'[q] \in PreEmit => status'[job'[q].msg] # "none"
                       /\ pc'[q] \in PreEmit \cup {"insert"} => job'[q].side = Other(Author(job'[q].msg))
                       /\ pc'[q] = "touch" => job'[q].stamp = at'[job'[q].msg]
      BY DEF Held, Stored
    <3>1. CASE q = p
      BY <1>5, <2>1, <2>3, <3>1 DEF Saves, PreEmit, Stored
    <3>2. CASE q # p
      <4>1. pc'[q] = pc[q] /\ job'[q] = job[q]  BY <1>5, <3>2 DEF Saves, Untouched
      <4> QED  BY <1>1, <2>2, <2>4, <2>5, <4>1 DEF Held, Stored, PreEmit
    <3> QED  BY <3>1, <3>2
  <2>7. Alone'  BY <1>1, <1>5, <2>5 DEF Alone, Saves, Untouched
  <2>8. Pending'
    BY <1>1, <1>5, <2>1, <2>2 DEF Pending, Saves, Untouched
  <2> QED  BY <1>2, <2>6, <2>7, <2>8 DEF IInv
<1>6. ASSUME NEW p \in Procs, Announces(p) PROVE IInv'
  <2>1. job[p].msg \in Msgs /\ Stored(job[p].msg)  BY <1>1, <1>6 DEF Announces, Held, PreEmit
  <2>2. Held'
    BY <1>1, <1>6 DEF Held, Announces, Kept, Untouched, PreEmit
  <2>3. Alone'
    BY <1>1, <1>6 DEF Alone, Announces, Untouched, PreEmit
  <2>4. \A q \in Procs \ {p} : pc[q] \in PreEmit => job[q].msg # job[p].msg
    BY <1>1, <1>6 DEF Alone, Announces, PreEmit
  <2>5. \A m \in Msgs \ {job[p].msg} : announced'[m] = announced[m]  BY <1>3, <1>6 DEF Announces
  <2>6. Pending'
    <3>1. \A m \in Msgs : ~Stored(m)' => announced'[m] = 0
      BY <1>1, <1>6, <2>1, <2>5 DEF Pending, Announces, Kept
    <3>2. ASSUME NEW q \in Procs, pc'[q] \in PreEmit PROVE announced'[job'[q].msg] = 0
      <4>1. q # p /\ pc[q] = pc'[q] /\ job'[q] = job[q]  BY <1>6, <3>2 DEF Announces, Untouched, PreEmit
      <4>2. job[q].msg \in Msgs \ {job[p].msg}  BY <1>1, <2>4, <3>2, <4>1 DEF Held
      <4> QED  BY <1>1, <2>5, <3>2, <4>1, <4>2 DEF Pending
    <3> QED  BY <3>1, <3>2 DEF Pending
  <2> QED  BY <1>2, <2>2, <2>3, <2>6 DEF IInv
<1>7. ASSUME NEW p \in Procs, Moves(p) PROVE IInv'
  <2>1. Held'
    <3> SUFFICES ASSUME NEW q \in Procs
                 PROVE /\ pc'[q] \in PreEmit \cup {"insert", "seen", "mark", "receipt"} => job'[q].msg \in Msgs
                       /\ pc'[q] \in PreEmit => status'[job'[q].msg] # "none"
                       /\ pc'[q] \in PreEmit \cup {"insert"} => job'[q].side = Other(Author(job'[q].msg))
                       /\ pc'[q] = "touch" => job'[q].stamp = at'[job'[q].msg]
      BY DEF Held, Stored
    <3>1. CASE q = p
      BY <1>1, <1>7, <3>1 DEF Moves, Held, Kept, Stored, PreEmit
    <3>2. CASE q # p
      <4>1. pc'[q] = pc[q] /\ job'[q] = job[q]  BY <1>7, <3>2 DEF Moves, Untouched
      <4> QED  BY <1>1, <1>7, <4>1 DEF Held, Stored, PreEmit, Moves, Kept
    <3> QED  BY <3>1, <3>2
  <2>2. Alone'
    BY <1>1, <1>7 DEF Alone, Moves, Untouched, PreEmit
  <2>3. Pending'
    BY <1>1, <1>7 DEF Pending, Moves, Kept, Untouched, PreEmit
  <2> QED  BY <1>2, <2>1, <2>2, <2>3 DEF IInv
<1> QED  BY <1>1, <1>4, <1>5, <1>6, <1>7, NextKinds

LEMMA InvariantIInv == Spec => []IInv
  BY InitIInv, NextIInv, PTL DEF Spec

-----------------------------------------------------------------------------
(* Receipts is implemented *)

LEMMA InitKeeps == Init => Promise!Init
  BY DEF Init, Promise!Init

LEMMA NextKeeps == IInv /\ [Next]_vars => [Promise!Next]_(Promise!vars)
<1> SUFFICES ASSUME IInv, [Next]_vars PROVE Promise!Next \/ UNCHANGED <<status, announced>>
  BY DEF Promise!vars
<1> USE DEF stored, screens, bounds
<1>0. TypeOK /\ Held /\ Pending  BY DEF IInv
<1>1. status \in [Msgs -> Statuses] /\ announced \in [Msgs -> Nat]  BY <1>0 DEF TypeOK
<1>3. ASSUME NEW p \in Procs, Insert(p), ~Stored(job[p].msg) PROVE Promise!Save(job[p].msg)
  <2>1. job[p].msg \in Msgs  BY <1>0, <1>3 DEF Insert, Held
  <2> QED  BY <1>1, <1>3, <2>1 DEF Insert, Promise!Save, Promise!Move, Stored
<1>4. ASSUME NEW p \in Procs, Deliver(p), status[job[p].msg] = "sent" PROVE Promise!Deliver({job[p].msg})
  BY <1>1, <1>4 DEF Deliver, Promise!Deliver, Promise!Move
<1>5. ASSUME NEW p \in Procs, Emit(p) PROVE Promise!Announce(job[p].msg)
  <2>1. Stored(job[p].msg) /\ announced[job[p].msg] = 0  BY <1>0, <1>5 DEF Emit, Held, Pending, PreEmit
  <2>2. job[p].msg \in Msgs  BY <1>0, <1>5 DEF Emit, Held, PreEmit
  <2> QED  BY <1>1, <1>5, <2>1, <2>2 DEF Emit, Promise!Announce, Stored
<1>6. ASSUME NEW p \in Procs, Receive(p)
      PROVE  Promise!Deliver({m \in SentTo(job[p].side) : status[m] = "sent"})
  BY <1>6 DEF Receive, Promise!Deliver, Promise!Move
<1>7. ASSUME NEW p \in Procs, MarkRead(p)
      PROVE  Promise!Read(Upto(job[p].side, job[p].msg) \cap Unread(job[p].side))
  <2>1. \A m \in Unread(job[p].side) : status[m] \in {"sent", "delivered"}
    BY <1>1 DEF Unread, SentTo, Stored, Statuses
  <2> QED  BY <1>7, <2>1 DEF MarkRead, Promise!Read, Promise!Move
<1>8. ASSUME NEW p \in Procs, Work(p) PROVE Promise!Next \/ UNCHANGED <<status, announced>>
  <2>1. CASE Insert(p)
    <3>1. CASE Stored(job[p].msg)
      BY <2>1, <3>1 DEF Insert
    <3>2. CASE ~Stored(job[p].msg)
      <4>1. job[p].msg \in Msgs  BY <1>0, <2>1 DEF Insert, Held
      <4> QED  BY <1>3, <2>1, <3>2, <4>1 DEF Promise!Next
    <3> QED  BY <3>1, <3>2
  <2>2. CASE Deliver(p)
    <3>1. CASE status[job[p].msg] = "sent"
      <4>1. {job[p].msg} \in SUBSET Msgs  BY <1>0, <2>2 DEF Deliver, Held, PreEmit
      <4> QED  BY <1>4, <2>2, <3>1, <4>1 DEF Promise!Next
    <3>2. CASE status[job[p].msg] # "sent"
      BY <2>2, <3>2 DEF Deliver
    <3> QED  BY <3>1, <3>2
  <2>3. CASE Emit(p)
    <3>1. job[p].msg \in Msgs  BY <1>0, <2>3 DEF Emit, Held, PreEmit
    <3> QED  BY <1>5, <2>3, <3>1 DEF Promise!Next
  <2>4. CASE Receive(p)
    <3>1. {m \in SentTo(job[p].side) : status[m] = "sent"} \in SUBSET Msgs  BY DEF SentTo
    <3> QED  BY <1>6, <2>4, <3>1 DEF Promise!Next
  <2>5. CASE MarkRead(p)
    <3>1. Upto(job[p].side, job[p].msg) \cap Unread(job[p].side) \in SUBSET Msgs  BY DEF Unread, SentTo
    <3> QED  BY <1>7, <2>5, <3>1 DEF Promise!Next
  <2>6. CASE Touch(p) \/ Look(p) \/ Count(p) \/ Publish(p) \/ Find(p)
    BY <2>6 DEF Touch, Look, Count, Publish, Find
  <2>7. CASE Report(p) \/ MarkSeen(p) \/ Receipt(p)
    BY <2>7 DEF Report, MarkSeen, Receipt
  <2> QED  BY <1>8, <2>1, <2>2, <2>3, <2>4, <2>5, <2>6, <2>7 DEF Work
<1>9. ASSUME NEW p \in Procs, NEW s \in Sockets, NEW m \in Msgs, Read(p, s, m) PROVE UNCHANGED <<status, announced>>
  BY <1>9 DEF Read
<1>10. ASSUME NEW p \in Procs, NEW s \in Sockets, Join(p, s) PROVE UNCHANGED <<status, announced>>
  BY <1>10 DEF Join
<1>11. ASSUME NEW p \in Procs, NEW m \in Msgs, Send(p, m) PROVE UNCHANGED <<status, announced>>
  BY <1>11 DEF Send
<1>12. ASSUME NEW p \in Procs, Abort(p) PROVE UNCHANGED <<status, announced>>
  BY <1>12 DEF Abort
<1>13. ASSUME NEW s \in Sockets, Leave(s) PROVE UNCHANGED <<status, announced>>
  BY <1>13 DEF Leave
<1>14. CASE Tick \/ Quiet \/ UNCHANGED vars
  BY <1>14 DEF Tick, Quiet, vars
<1> QED  BY <1>8, <1>9, <1>10, <1>11, <1>12, <1>13, <1>14, Zenon DEF Next

\* Whatever the handlers of sends, joins and receipts do, the messages, the room and the handlers
\* stay well typed, and what the room's members were told is a status.
THEOREM MessagesTyped == Spec => []TypeOK
BY InvariantIInv, PTL DEF IInv

\* Messages implements Receipts: a message is saved once, its status only moves forward, and it is
\* announced at most once and only after it was saved, whatever sends, retries, joins, reads and
\* failures interleave (messages.service.ts, chat.gateway.ts).
THEOREM KeepsItsReceipts == Spec => KeepsReceipts
<1>1. Init => Promise!Init  BY InitKeeps
<1>2. IInv /\ [Next]_vars => [Promise!Next]_(Promise!vars)  BY NextKeeps
<1> QED  BY <1>1, <1>2, InvariantIInv, PTL DEF Spec, KeepsReceipts, Promise!Spec

-----------------------------------------------------------------------------
(* Delivered, and on top *)

\* A step of a handler that is not about to look into the room, to receive or to touch.
Calm ==
  /\ at' = at /\ top' = top /\ excused' = excused /\ room' \subseteq room
  /\ \A m \in Msgs : (Stored(m)' <=> Stored(m)) /\ (status'[m] = "sent" => status[m] = "sent")
  /\ \A q \in Procs : pc[q] \in {"touch", "look", "deliver", "receive"} =>
       pc'[q] = pc[q] /\ job'[q] = job[q]

LEMMA CalmSteps ==
  ASSUME TypeOK, NEW p \in Procs,
         \/ \E m \in Msgs : Send(p, m)
         \/ \E s \in Sockets : \E m \in Msgs : Read(p, s, m)
         \/ Insert(p) /\ Stored(job[p].msg)
         \/ Emit(p) \/ Count(p) \/ Publish(p) \/ Find(p) \/ Report(p)
         \/ MarkSeen(p) \/ MarkRead(p) \/ Receipt(p)
  PROVE  Calm
<1> USE DEF stored, screens, bounds
<1>0. status \in [Msgs -> Statuses]  BY DEF TypeOK
<1>1. ASSUME NEW m \in Msgs, Send(p, m) PROVE Calm
  <2>1. pc[p] = "idle" /\ Untouched(p)  BY <1>1, GoesOn DEF Send
  <2> QED  BY <1>1, <2>1 DEF Send, Calm, Untouched, Stored
<1>2. ASSUME NEW s \in Sockets, NEW m \in Msgs, Read(p, s, m) PROVE Calm
  <2>1. pc[p] = "idle" /\ Untouched(p)  BY <1>2, GoesOn DEF Read
  <2> QED  BY <1>2, <2>1 DEF Read, Calm, Untouched, Stored
<1>3. CASE Insert(p) /\ Stored(job[p].msg)
  <2>1. pc[p] = "insert" /\ Untouched(p)  BY <1>3, Ends DEF Insert
  <2> QED  BY <1>3, <2>1 DEF Insert, Calm, Untouched, Stored
<1>4. CASE Emit(p)
  <2>1. pc[p] = "emit" /\ Untouched(p)  BY <1>4, KeepsJob DEF Emit
  <2> QED  BY <1>4, <2>1 DEF Emit, Calm, Untouched, Stored
<1>5. CASE Count(p)
  <2>1. pc[p] = "count" /\ Untouched(p)  BY <1>5, GoesOn DEF Count
  <2> QED  BY <1>5, <2>1 DEF Count, Calm, Untouched, Stored
<1>6. CASE Publish(p)
  <2>1. pc[p] = "publish" /\ Untouched(p)  BY <1>6, Ends DEF Publish
  <2> QED  BY <1>6, <2>1 DEF Publish, Calm, Untouched, Stored
<1>7. CASE Find(p)
  <2>1. pc[p] = "find" /\ Untouched(p)  BY <1>7, GoesOn DEF Find
  <2> QED  BY <1>7, <2>1 DEF Find, Calm, Untouched, Stored
<1>8. CASE Report(p)
  <2>1. pc[p] = "report" /\ Untouched(p)  BY <1>8, Ends DEF Report
  <2> QED  BY <1>8, <2>1 DEF Report, Calm, Untouched, Stored
<1>9. CASE MarkSeen(p)
  <2>1. pc[p] = "seen" /\ Untouched(p)  BY <1>9, KeepsJob DEF MarkSeen
  <2> QED  BY <1>9, <2>1 DEF MarkSeen, Calm, Untouched, Stored
<1>10. CASE MarkRead(p)
  <2>1. pc[p] = "mark" /\ Untouched(p)  BY <1>10, KeepsJob, Ends DEF MarkRead
  <2> QED  BY <1>0, <1>10, <2>1 DEF MarkRead, Calm, Untouched, Stored, Unread, SentTo
<1>11. CASE Receipt(p)
  <2>1. pc[p] = "receipt" /\ Untouched(p)  BY <1>11, KeepsJob DEF Receipt
  <2> QED  BY <1>11, <2>1 DEF Receipt, Calm, Untouched, Stored
<1> HIDE DEF Calm
<1> QED  BY <1>1, <1>2, <1>3, <1>4, <1>5, <1>6, <1>7, <1>8, <1>9, <1>10, <1>11, Zenon

LEMMA OtherCalmSteps ==
  ASSUME TypeOK, Tick \/ Quiet \/ UNCHANGED vars \/ \E s \in Sockets : Leave(s)
  PROVE  Calm
  BY DEF Tick, Quiet, vars, Leave, Calm, Stored, stored

-----------------------------------------------------------------------------

LEMMA NextDelivery == IInv /\ NoMissedDelivery /\ [Next]_vars => NoMissedDelivery'
<1> SUFFICES ASSUME IInv, NoMissedDelivery, [Next]_vars PROVE NoMissedDelivery'  OBVIOUS
<1> USE DEF stored, screens, bounds
<1>0. TypeOK /\ Held  BY DEF IInv
<1>1. status \in [Msgs -> Statuses] /\ room \subseteq Sockets  BY <1>0 DEF TypeOK
<1>2. CASE Calm
  BY <1>2 DEF Calm, NoMissedDelivery
<1>3. ASSUME NEW p \in Procs, Insert(p), ~Stored(job[p].msg) PROVE NoMissedDelivery'
  <2>1. pc[p] = "insert" /\ pc'[p] = "touch" /\ job'[p] = job[p] /\ Untouched(p)
    BY <1>0, <1>3, KeepsJob DEF Insert
  <2>2. \A m \in Msgs : m # job[p].msg => status'[m] = status[m]  BY <1>1, <1>3 DEF Insert
  <2> QED  BY <1>3, <2>1, <2>2 DEF Insert, NoMissedDelivery, Untouched
<1>4. ASSUME NEW p \in Procs, Touch(p) PROVE NoMissedDelivery'
  <2>1. pc[p] = "touch" /\ pc'[p] = "look" /\ job'[p] = job[p] /\ Untouched(p)
    BY <1>0, <1>4, KeepsJob DEF Touch
  <2> QED  BY <1>4, <2>1 DEF Touch, NoMissedDelivery, Untouched
<1>5. ASSUME NEW p \in Procs, Look(p) PROVE NoMissedDelivery'
  <2> DEFINE there == \E s \in room : SideOf[s] = job[p].side
  <2>1. /\ pc[p] = "look" /\ Untouched(p) /\ job'[p].msg = job[p].msg
        /\ pc'[p] = (IF there THEN "deliver" ELSE "emit")
    BY <1>0, <1>5, GoesOn DEF Look, Job
  <2>2. job[p].msg \in Msgs /\ job[p].side = Other(Author(job[p].msg))
    BY <1>0, <1>5 DEF Look, Held, PreEmit
  <2>3. (\E s \in room : SideOf[s] # Author(job[p].msg)) => there
    BY <1>1, <2>2, AuthorSide, Side
  <2> HIDE DEF there
  <2> QED  BY <1>5, <2>1, <2>3 DEF Look, NoMissedDelivery, Untouched
<1>6. ASSUME NEW p \in Procs, Deliver(p) PROVE NoMissedDelivery'
  <2>1. pc[p] = "deliver" /\ Untouched(p)  BY <1>0, <1>6, GoesOn, KeepsJob DEF Deliver
  <2>2. status'[job[p].msg] # "sent"
    <3>1. job[p].msg \in Msgs  BY <1>0, <1>6 DEF Deliver, Held, PreEmit
    <3> QED  BY <1>1, <1>6, <3>1 DEF Deliver
  <2>3. \A m \in Msgs : status'[m] = "sent" => status[m] = "sent"  BY <1>1, <1>6 DEF Deliver
  <2> QED  BY <1>6, <2>1, <2>2, <2>3 DEF Deliver, NoMissedDelivery, Untouched
<1>7. ASSUME NEW p \in Procs, NEW s \in Sockets, Join(p, s) PROVE NoMissedDelivery'
  <2>1. pc[p] = "idle" /\ pc'[p] = "receive" /\ job'[p].side = SideOf[s] /\ Untouched(p)
    BY <1>0, <1>7, GoesOn DEF Join, Job
  <2> QED  BY <1>7, <2>1 DEF Join, NoMissedDelivery, Untouched
<1>8. ASSUME NEW p \in Procs, Receive(p) PROVE NoMissedDelivery'
  <2>1. pc[p] = "receive" /\ Untouched(p)  BY <1>0, <1>8, GoesOn, Ends DEF Receive
  <2>2. \A m \in Msgs : status'[m] = "sent" => status[m] = "sent" /\ m \notin SentTo(job[p].side)
    BY <1>1, <1>8 DEF Receive
  <2>3. \A m \in Msgs : status'[m] = "sent" => job[p].side = Author(m)
    <3>1. job[p].side \in Sides  BY <1>0, JobParts DEF TypeOK
    <3> QED  BY <2>2, <3>1, AuthorSide, Side DEF SentTo, Stored
  <2> QED  BY <1>8, <2>1, <2>2, <2>3 DEF Receive, NoMissedDelivery, Untouched
<1>9. ASSUME NEW p \in Procs, Abort(p) PROVE NoMissedDelivery'
  <2>1. Untouched(p)  BY <1>0, <1>9, Ends DEF Abort
  <2>2. pc[p] \in {"touch", "look", "deliver"} => job[p].msg \in excused'  BY <1>9 DEF Abort
  <2>3. pc[p] = "receive" => \A m \in Msgs : status[m] = "sent" /\ job[p].side # Author(m) => m \in excused'
    <3>1. job[p].side \in Sides  BY <1>0, JobParts DEF TypeOK
    <3> QED  BY <1>9, <3>1, AuthorSide, Side DEF Abort, SentTo, Stored
  <2>4. excused \subseteq excused' /\ status' = status /\ room' = room  BY <1>9 DEF Abort
  <2> QED  BY <2>1, <2>2, <2>3, <2>4 DEF NoMissedDelivery, Untouched
<1> HIDE DEF NoMissedDelivery
<1>10. ASSUME NEW p \in Procs, Work(p) PROVE NoMissedDelivery'
  BY <1>0, <1>2, <1>3, <1>4, <1>5, <1>6, <1>8, <1>10, CalmSteps, Zenon DEF Work
<1> QED
  BY <1>0, <1>2, <1>7, <1>9, <1>10, CalmSteps, OtherCalmSteps, Zenon DEF Next

\* No message stays 'sent' in front of the other side, but while a handler has still to look or to
\* receive, or has failed on the way (chat.gateway.ts, message:send and enterConversation).
THEOREM NothingMissed == Spec => []NoMissedDelivery
<1>1. Init => NoMissedDelivery  BY DEF Init, NoMissedDelivery
<1> QED  BY <1>1, NextDelivery, InvariantIInv, PTL DEF Spec

-----------------------------------------------------------------------------

\* What is on top is a message that is there.
OnTop == (top # None => Stored(top)) /\ LatestOnTop

LEMMA NextOnTop == IInv /\ OnTop /\ [Next]_vars => OnTop'
<1> SUFFICES ASSUME IInv, OnTop, [Next]_vars PROVE OnTop'  OBVIOUS
<1> USE DEF stored, screens, bounds
<1>0. TypeOK /\ Held  BY DEF IInv
<1>1. status \in [Msgs -> Statuses] /\ at \in [Msgs -> Nat] /\ top \in Msgs \cup {None}  BY <1>0 DEF TypeOK
<1>2. CASE Calm
  BY <1>1, <1>2 DEF Calm, OnTop, LatestOnTop
<1>3. ASSUME NEW p \in Procs, Insert(p), ~Stored(job[p].msg) PROVE OnTop'
  <2>1. pc[p] = "insert" /\ pc'[p] = "touch" /\ job'[p] = job[p] /\ Untouched(p)
    BY <1>0, <1>3, KeepsJob DEF Insert
  <2>2. \A m \in Msgs : m # job[p].msg => at'[m] = at[m] /\ status'[m] = status[m]
    BY <1>1, <1>3 DEF Insert
  <2>3. top' = top /\ excused' = excused /\ top # job[p].msg
    BY <1>0, <1>3 DEF Insert, Held, OnTop
  <2>4. (top # None => Stored(top))'
    BY <1>1, <2>2, <2>3 DEF OnTop, Stored
  <2>5. LatestOnTop'
    BY <1>1, <2>1, <2>2, <2>3 DEF OnTop, LatestOnTop, Stored, Untouched
  <2> QED  BY <2>4, <2>5 DEF OnTop
<1>4. ASSUME NEW p \in Procs, Touch(p) PROVE OnTop'
  <2>1. pc[p] = "touch" /\ pc'[p] = "look" /\ Untouched(p)  BY <1>0, <1>4, KeepsJob DEF Touch
  <2>2. job[p].msg \in Msgs /\ Stored(job[p].msg) /\ job[p].stamp = at[job[p].msg]
    BY <1>0, <2>1 DEF Held, PreEmit
  <2>3. top' = IF top = None \/ at[top] <= at[job[p].msg] THEN job[p].msg ELSE top
    BY <1>4, <2>2 DEF Touch
  <2>4. status' = status /\ at' = at /\ excused' = excused  BY <1>4 DEF Touch
  <2>5. (top # None => Stored(top))'  BY <2>2, <2>3, <2>4 DEF OnTop, Stored
  <2>6. top' # None /\ at[job[p].msg] <= at[top'] /\ (top # None => at[top] <= at[top'])
    BY <1>1, <2>2, <2>3
  <2>7. ASSUME NEW m \in Msgs, Stored(m)
        PROVE  \/ m \in excused
               \/ \E q \in Procs : pc'[q] = "touch" /\ job'[q].msg = m
               \/ at[m] <= at[top']
    <3>1. CASE m \in excused
      BY <3>1
    <3>2. ASSUME NEW q \in Procs, pc[q] = "touch", job[q].msg = m
          PROVE  \/ \E r \in Procs : pc'[r] = "touch" /\ job'[r].msg = m
                 \/ at[m] <= at[top']
      BY <2>1, <2>6, <3>2 DEF Untouched
    <3>3. CASE top # None /\ at[m] <= at[top]
      BY <1>1, <2>3, <2>6, <3>3, <2>2
    <3> QED  BY <2>7, <3>1, <3>2, <3>3 DEF OnTop, LatestOnTop
  <2>8. LatestOnTop'  BY <2>4, <2>6, <2>7 DEF LatestOnTop, Stored
  <2> QED  BY <2>5, <2>8 DEF OnTop
<1>5. ASSUME NEW p \in Procs, Look(p) \/ Deliver(p) \/ Receive(p) \/ \E s \in Sockets : Join(p, s)
      PROVE  OnTop'
  <2>1. pc[p] # "touch" /\ Untouched(p)
    BY <1>0, <1>5, GoesOn, KeepsJob, Ends DEF Look, Deliver, Receive, Join
  <2>2. top' = top /\ at' = at /\ excused' = excused  BY <1>5 DEF Look, Deliver, Receive, Join
  <2>3. \A m \in Msgs : Stored(m)' <=> Stored(m)
    BY <1>1, <1>5 DEF Look, Deliver, Receive, Join, Stored
  <2> QED  BY <1>1, <2>1, <2>2, <2>3 DEF OnTop, LatestOnTop, Untouched
<1>6. ASSUME NEW p \in Procs, Abort(p) PROVE OnTop'
  <2>1. Untouched(p)  BY <1>0, <1>6, Ends DEF Abort
  <2>2. pc[p] = "touch" => job[p].msg \in excused'  BY <1>6 DEF Abort
  <2>3. excused \subseteq excused' /\ status' = status /\ at' = at /\ top' = top  BY <1>6 DEF Abort
  <2> QED  BY <2>1, <2>2, <2>3 DEF OnTop, LatestOnTop, Untouched, Stored
<1> HIDE DEF OnTop
<1>7. ASSUME NEW p \in Procs, Work(p) PROVE OnTop'
  BY <1>0, <1>2, <1>3, <1>4, <1>5, <1>7, CalmSteps, Zenon DEF Work
<1> QED
  BY <1>0, <1>2, <1>5, <1>6, <1>7, CalmSteps, OtherCalmSteps, Zenon DEF Next

\* No message of the thread is newer than the one it shows, but one whose handler has still to
\* touch the conversation or has failed before (conversations.service.ts, touchLastMessage).
THEOREM NewestOnTop == Spec => []LatestOnTop
<1>1. Init => OnTop  BY DEF Init, OnTop, LatestOnTop, Stored
<1>2. OnTop => LatestOnTop  BY DEF OnTop
<1> QED  BY <1>1, <1>2, NextOnTop, InvariantIInv, PTL DEF Spec
=============================================================================

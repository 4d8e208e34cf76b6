------------------------------- MODULE Profiles -------------------------------
(***************************************************************************)
(* An agent's profile, created on first use: setAvailability and           *)
(* ensureProfiles of src/modules/agents/services/agents.service.ts, and    *)
(* the unique index they rely on (src/core/database/mongo.ts, main.ts).    *)
(*                                                                         *)
(* One agent.  MongoDB is external: it builds an index on its own time, a  *)
(* unique one fails on data that breaks it, and an upsert that finds       *)
(* nothing inserts later, which the unique index may refuse.               *)
(* "Variant" marks a slip that a property notices.                         *)
(***************************************************************************)
EXTENDS SequencesExt, Integers

CONSTANTS
  Procs,          \* places where a request can run, on any servers
  Availabilities, \* availabilities an agent can choose
  MaxCalls,       \* bound: requests
  MaxFaults       \* bound: index builds that fail for another reason

ProfilesAssumption == MaxCalls \in Nat /\ MaxFaults \in Nat /\ "offline" \in Availabilities

VARIABLES
  rows,     \* the agent's profiles, oldest first: their availability
  index,    \* "building", "ready" or "failed"
  up,       \* a server listens
  pc, job,
  calls, faults,
  chosen    \* history: the agent's last choice that was answered, or "none"

vars == <<rows, index, up, pc, job, calls, faults, chosen>>

\* A request that sets an availability, or, "ensure", one that only needs the profile.
NoJob == "ensure"
Setting == {p \in Procs : pc[p] # "idle" /\ job[p] # "ensure"}
Quiet == \A p \in Procs : pc[p] = "idle"

Init ==
  /\ rows = <<>> /\ index = "building" /\ up = FALSE
  /\ pc = [p \in Procs |-> "idle"] /\ job = [p \in Procs |-> NoJob]
  /\ calls = 0 /\ faults = 0 /\ chosen = "none"

Goto(p, step) == pc' = [pc EXCEPT ![p] = step]
boot == <<index, up, faults>>
Unchanged == UNCHANGED <<boot, job, calls, chosen>>

-----------------------------------------------------------------------------
(* Start-up *)

BuildIndex ==
  /\ index = "building"
  /\ index' = IF Len(rows) <= 1 THEN "ready" ELSE "failed"
  /\ UNCHANGED <<rows, up, pc, job, calls, faults, chosen>>

\* ensureIndexes only logs it.
BuildFails ==
  /\ index = "building"
  /\ faults < MaxFaults /\ faults' = faults + 1
  /\ index' = "failed"
  /\ UNCHANGED <<rows, up, pc, job, calls, chosen>>

\* Variant: bootstrap does not wait for the indexes.
ListenAtOnce ==
  /\ ~up /\ up' = TRUE
  /\ UNCHANGED <<rows, index, pc, job, calls, faults, chosen>>

\* bootstrap: the server listens after ensureIndexes.
Listen ==
  /\ ~up /\ index # "building"
  /\ up' = TRUE
  /\ UNCHANGED <<rows, index, pc, job, calls, faults, chosen>>

-----------------------------------------------------------------------------
(* Requests *)

\* setAvailability, by an agent who waits for its answer.
SetAvailability(p, choice) ==
  /\ up /\ pc[p] = "idle" /\ Setting = {}
  /\ calls < MaxCalls /\ calls' = calls + 1
  /\ Goto(p, "upsert") /\ job' = [job EXCEPT ![p] = choice]
  /\ UNCHANGED <<rows, boot, chosen>>

\* Whatever lists agents or looks one up, also for the dashboards of others.
EnsureProfiles(p) ==
  /\ up /\ pc[p] = "idle"
  /\ calls < MaxCalls /\ calls' = calls + 1
  /\ Goto(p, "upsert") /\ job' = [job EXCEPT ![p] = "ensure"]
  /\ UNCHANGED <<rows, boot, chosen>>

\* $set on the row that is found; $setOnInsert does nothing to it.
Updated(choice) == IF choice = "ensure" THEN rows ELSE ReplaceAt(rows, 1, choice)

Upsert(p) ==
  /\ pc[p] = "upsert"
  /\ \/ rows # <<>> /\ rows' = Updated(job[p]) /\ Goto(p, "answer")
     \/ rows = <<>> /\ UNCHANGED rows /\ Goto(p, "insert")
  /\ Unchanged

\* Variant: a duplicate is as good as a success, as in ensureProfiles.
AfterDuplicateNothing(choice) == "answer"

\* A duplicate: setAvailability lost the insert race and updates, ensureProfiles has its profile.
AfterDuplicate(choice) == IF choice = "ensure" THEN "answer" ELSE "update"

\* profileDefaults has 'offline' for a choice nobody made.
Insert(p) ==
  /\ pc[p] = "insert"
  /\ \/ /\ index = "ready" /\ rows # <<>>
        /\ Goto(p, AfterDuplicate(job[p])) /\ UNCHANGED rows
     \/ /\ ~(index = "ready" /\ rows # <<>>)
        /\ rows' = Append(rows, IF job[p] = "ensure" THEN "offline" ELSE job[p])
        /\ Goto(p, "answer")
  /\ Unchanged

Update(p) ==
  /\ pc[p] = "update"
  /\ rows' = Updated(job[p]) /\ Goto(p, "answer")
  /\ Unchanged

Answer(p) ==
  /\ pc[p] = "answer"
  /\ Goto(p, "idle") /\ job' = [job EXCEPT ![p] = NoJob]
  /\ chosen' = IF job[p] = "ensure" THEN chosen ELSE job[p]
  /\ UNCHANGED <<rows, boot, calls>>

Next ==
  \/ BuildIndex \/ BuildFails \/ Listen
  \/ \E p \in Procs :
       \/ \E choice \in Availabilities : SetAvailability(p, choice)
       \/ EnsureProfiles(p)
       \/ Upsert(p) \/ Insert(p) \/ Update(p) \/ Answer(p)

Spec == Init /\ [][Next]_vars

-----------------------------------------------------------------------------
(* Properties *)

\* An agent has one profile, whatever requests need it first on a fresh database, because no
\* server listens before the unique index is there (main.ts); a failed build is only logged.
OneProfile == index = "failed" \/ Len(rows) <= 1

\* The choice an agent was answered is the one routing reads, until the next choice: none of the
\* requests that create the profile at the same moment puts 'offline' in its place
\* (agents.service.ts, setAvailability).
ChoiceKept ==
  index # "failed" /\ chosen # "none" /\ Setting = {} => rows = <<chosen>>
=============================================================================

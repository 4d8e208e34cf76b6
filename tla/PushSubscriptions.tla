-------------------------- MODULE PushSubscriptions --------------------------
(***************************************************************************)
(* The rows of push subscriptions: one per browser, at most MaxDevices per *)
(* user.  Saving one is three database calls: the row of the browser is    *)
(* written, the rows of the user beyond the newest MaxDevices are looked   *)
(* up, and these are deleted.  Requests of one user and of others run      *)
(* between them.                                                           *)
(*                                                                         *)
(* Modelled from src/modules/push/services/push-subscriptions.service.ts.  *)
(* The id of a row is as good as its browser, but for a row that is        *)
(* deleted and saved again, which gets a new one.  updatedAt orders the    *)
(* rows: every write of a row has a time of its own, the marks of a        *)
(* delivery included, since the schema keeps timestamps.  deleteById is    *)
(* the delivery that finds a browser gone.  "Variant" marks a slip that a  *)
(* property notices.                                                       *)
(***************************************************************************)
EXTENDS Integers, FiniteSets

CONSTANTS
  Users,
  Browsers,
  Savers,       \* requests under way
  None,
  MaxDevices,   \* MAX_DEVICES_PER_USER, 10 in the code
  MaxWrites,    \* bound: saves and marks
  MaxFaults     \* bound: look-ups and deletions that fail

DevicesAssumption ==
  /\ MaxDevices \in Nat \ {0} /\ MaxWrites \in Nat /\ MaxFaults \in Nat
  /\ None \notin Users

VARIABLES
  row,      \* the row of a browser
  req,      \* the state of a request
  writes,   \* saves and marks so far, the clock of updatedAt and the source of ids
  faults,
  lost      \* a row among the newest of its user was deleted as an extra one

vars == <<row, req, writes, faults, lost>>

\* at: updatedAt; id: the row's _id.  NoRow: no row.
Row(user, at, id) == [user |-> user, at |-> at, id |-> id]
NoRow == Row(None, 0, 0)
Req(step, user, extra) == [step |-> step, user |-> user, extra |-> extra]
Free == Req("idle", None, {})

TypeOK ==
  /\ row \in [Browsers -> [user : Users \cup {None}, at : 0..MaxWrites, id : 0..MaxWrites]]
  /\ req \in [Savers -> [step : {"idle", "find", "delete"}, user : Users \cup {None},
                         extra : SUBSET (1..MaxWrites)]]
  /\ writes \in 0..MaxWrites /\ faults \in 0..MaxFaults /\ lost \in BOOLEAN

Init ==
  /\ row = [b \in Browsers |-> NoRow]
  /\ req = [p \in Savers |-> Free]
  /\ writes = 0 /\ faults = 0 /\ lost = FALSE

-----------------------------------------------------------------------------

RowsOf(u) == {b \in Browsers : row[b].user = u}

\* Variant: one row too many is skipped.
ExtraLate(u) == {b \in RowsOf(u) : Cardinality({c \in RowsOf(u) : row[c].at > row[b].at}) > MaxDevices}

\* The rows of u that newer ones of his leave no room for.
Extra(u) == {b \in RowsOf(u) : Cardinality({c \in RowsOf(u) : row[c].at > row[b].at}) >= MaxDevices}

\* The upsert: the browser's row now belongs to u, whoever had it.
Upsert(p, u, b) ==
  /\ req[p].step = "idle" /\ writes < MaxWrites
  /\ writes' = writes + 1
  /\ row' = [row EXCEPT ![b] = Row(u, writes', IF @ = NoRow THEN writes' ELSE @.id)]
  /\ req' = [req EXCEPT ![p] = Req("find", u, {})]
  /\ UNCHANGED <<faults, lost>>

Find(p) ==
  /\ req[p].step = "find"
  /\ LET extra == {row[b].id : b \in Extra(req[p].user)}
     IN  req' = [req EXCEPT ![p] = IF extra = {} THEN Free ELSE Req("delete", req[p].user, extra)]
  /\ UNCHANGED <<row, writes, faults, lost>>

Deleted(p) == {b \in Browsers : row[b].id \in req[p].extra}

Delete(p) ==
  /\ req[p].step = "delete"
  /\ row' = [b \in Browsers |-> IF b \in Deleted(p) THEN NoRow ELSE row[b]]
  /\ lost' = (lost \/ \E b \in Deleted(p) : b \notin Extra(row[b].user))
  /\ req' = [req EXCEPT ![p] = Free]
  /\ UNCHANGED <<writes, faults>>

\* The request ends with an error; its row is saved all the same.
Fails(p) ==
  /\ req[p].step \in {"find", "delete"}
  /\ faults < MaxFaults /\ faults' = faults + 1
  /\ req' = [req EXCEPT ![p] = Free]
  /\ UNCHANGED <<row, writes, lost>>

\* remove() by the owner, deleteById by a delivery.
Remove(b) ==
  /\ row[b] # NoRow
  /\ row' = [row EXCEPT ![b] = NoRow]
  /\ UNCHANGED <<req, writes, faults, lost>>

\* markSuccess or markFailure: updatedAt is set along with what they write.
Mark(b) ==
  /\ row[b] # NoRow /\ writes < MaxWrites
  /\ writes' = writes + 1
  /\ row' = [row EXCEPT ![b] = Row(@.user, writes', @.id)]
  /\ UNCHANGED <<req, faults, lost>>

Next ==
  \/ \E p \in Savers :
       \/ \E u \in Users, b \in Browsers : Upsert(p, u, b)
       \/ Find(p) \/ Delete(p) \/ Fails(p)
  \/ \E b \in Browsers : Remove(b) \/ Mark(b)

Spec == Init /\ [][Next]_vars

-----------------------------------------------------------------------------
(* Properties *)

\* Requests on their way to prune a user's rows.
Pruning(u) == {p \in Savers : req[p].step # "idle" /\ req[p].user = u}

\* However saves interleave, and whoever takes over or gives up a browser in
\* between, a user has at most one row beyond MaxDevices for each of his saves
\* that has yet to prune: none once they are all over, unless one failed.
AtMostDevices == faults = 0 => \A u \in Users :
  Cardinality(RowsOf(u)) <= MaxDevices + Cardinality(Pruning(u))

(* What a comment says and the code does not do: fails *)

\* "Keep only the newest N devices per user": what pruning deletes is not among
\* the newest N of its user.
NewestKept == ~lost
=============================================================================

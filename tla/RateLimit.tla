------------------------------ MODULE RateLimit ------------------------------
(***************************************************************************)
(* The fixed-window limiter of the REST routes:                            *)
(* src/common/middleware/rate-limit.ts, for one client.                    *)
(*                                                                         *)
(* All servers count in one Redis key.  A request is one MULTI (INCR and   *)
(* TTL) and, when the key had no time to live, an EXPIRE; other requests   *)
(* of the client run between the two, and the server may die there.  The   *)
(* length of the window is not counted: a key with a time to live expires  *)
(* at any moment.  "Variant" marks a slip that a property notices.          *)
(***************************************************************************)
EXTENDS Integers

CONSTANTS
  Procs,       \* requests of the client that run at once, on any server
  Limit,       \* max
  MaxWindows,  \* bound: windows that are told apart
  MaxCount,    \* bound: requests in one window
  MaxFaults    \* bound: calls that fail, servers that die on the way

LimitAssumption ==
  /\ Limit \in Nat \ {0} /\ MaxWindows \in Nat \ {0}
  /\ MaxCount \in Nat /\ MaxFaults \in Nat

VARIABLES
  count,   \* chat:ratelimit:<name>:<client>, 0 when there is no such key
  ttl,     \* the key has a time to live
  window,  \* history: the life of the key this is
  pc, job,
  passed,  \* history: requests let through in this window because of their count
  refused, \* history: the last answer was 429
  faults

vars == <<count, ttl, window, pc, job, passed, refused, faults>>

Job(n, w) == [count |-> n, window |-> w]
NoJob == Job(0, 0)

TypeOK ==
  /\ count \in 0..MaxCount /\ ttl \in BOOLEAN
  /\ window \in 0..MaxWindows
  /\ pc \in [Procs -> {"idle", "expire", "decide"}]
  /\ job \in [Procs -> [count : 0..MaxCount, window : 0..MaxWindows]]
  /\ passed \in 0..MaxCount /\ refused \in BOOLEAN
  /\ faults \in 0..MaxFaults
  /\ ttl => count > 0

Init ==
  /\ count = 0 /\ ttl = FALSE /\ window = 0
  /\ pc = [p \in Procs |-> "idle"] /\ job = [p \in Procs |-> NoJob]
  /\ passed = 0 /\ refused = FALSE /\ faults = 0

Goto(p, step) == pc' = [pc EXCEPT ![p] = step]
Fault == faults < MaxFaults /\ faults' = faults + 1

-----------------------------------------------------------------------------

\* Variant: only the request that made the key gives it a time to live.
NeedsExpiryFirst(n) == n = 1

\* TTL answered less than 0: the key is new, or lost its EXPIRE.
NeedsExpiry(n) == ~ttl

\* MULTI: INCR, TTL.
Count(p) ==
  /\ pc[p] = "idle" /\ count < MaxCount
  /\ count' = count + 1
  /\ job' = [job EXCEPT ![p] = Job(count + 1, window)]
  /\ Goto(p, IF NeedsExpiry(count + 1) THEN "expire" ELSE "decide")
  /\ UNCHANGED <<ttl, window, passed, refused, faults>>

\* EXPIRE is of the key there is now, if there is one.
Expires == count > 0

Expire(p) ==
  /\ pc[p] = "expire"
  /\ ttl' = Expires
  /\ Goto(p, "decide")
  /\ UNCHANGED <<count, window, job, passed, refused, faults>>

\* Variant: one more than the limit.
OverLate(n) == n > Limit + 1

Over(n) == n > Limit

Decide(p) ==
  /\ pc[p] = "decide"
  /\ refused' = Over(job[p].count)
  /\ passed' = IF ~Over(job[p].count) /\ job[p].window = window THEN passed + 1 ELSE passed
  /\ Goto(p, "idle") /\ job' = [job EXCEPT ![p] = NoJob]
  /\ UNCHANGED <<count, ttl, window, faults>>

\* Redis fails, before or after it did what it was asked to: the request passes,
\* uncounted or not.  When the server dies there is no answer.
FailsOpen(p) ==
  /\ Fault
  /\ \/ pc[p] = "idle" /\ count' = count /\ UNCHANGED <<ttl, refused>>
     \/ pc[p] = "idle" /\ count < MaxCount /\ count' = count + 1 /\ UNCHANGED <<ttl, refused>>
     \/ pc[p] = "expire" /\ UNCHANGED count /\ ttl' \in {ttl, Expires} /\ refused' \in {refused, FALSE}
  /\ Goto(p, "idle") /\ job' = [job EXCEPT ![p] = NoJob]
  /\ UNCHANGED <<window, passed>>

\* The window is over.
WindowEnds ==
  /\ ttl /\ window < MaxWindows
  /\ count' = 0 /\ ttl' = FALSE
  /\ window' = window + 1 /\ passed' = 0
  /\ UNCHANGED <<pc, job, refused, faults>>

Next == (\E p \in Procs : Count(p) \/ Expire(p) \/ Decide(p) \/ FailsOpen(p)) \/ WindowEnds

Spec == Init /\ [][Next]_vars

\* A request goes on; a client that was refused asks again; a window ends.
Fairness ==
  /\ \A p \in Procs : WF_vars(Expire(p) \/ Decide(p))
  /\ SF_vars(\E p \in Procs : refused /\ Count(p))
  /\ WF_vars(WindowEnds)
FairSpec == Spec /\ Fairness

-----------------------------------------------------------------------------
(* Properties *)

\* However the requests of several servers interleave, at most Limit of those
\* counted in a window are let through on their count.
LimitHolds == passed <= Limit

\* Nobody is locked out: a client that is refused, and asks again, is let through
\* once more (or all windows of the bound are used up), although a server may
\* die between INCR and EXPIRE and leave a key that does not expire.
LetInAgain == refused ~> (~refused \/ window = MaxWindows)
=============================================================================

-------------------------------- MODULE MCLive --------------------------------
(***************************************************************************)
(* An instance for TLC of three components in which something must happen  *)
(* in the end, and that share no state: the history cache, the limiter of  *)
(* the REST routes and the presence of a user whose server dies.  A        *)
(* behaviour exercises one of them, "part", the others stay in their       *)
(* initial state (see MCParts).                                            *)
(***************************************************************************)
EXTENDS HistoryCache, Sequences

CONSTANTS
  Asking, Limit, MaxWindows, MaxCount, MaxFailures, \* RateLimit
  Users, Sockets, Servers, MaxExits, MaxMisses,     \* Presence
  None, u1

Owner == [k \in Sockets |-> u1]

VARIABLES
  part,
  count, ttl, window, at, turn, passed, refused, failures,
  phase, home, stage, lease, online, grace, asking, looking, beat, sweep, lock, out, shown,
  exits, misses

limitVars == <<count, ttl, window, at, turn, passed, refused, failures>>
presenceVars ==
  <<phase, home, stage, lease, online, grace, asking, looking, beat, sweep, lock, out, shown,
    exits, misses>>

Limiter == INSTANCE RateLimit WITH pc <- at, job <- turn, faults <- failures,
                                  Procs <- Asking, MaxFaults <- MaxFailures
Online == INSTANCE Presence WITH faults <- misses, MaxFaults <- MaxMisses

ASSUME Limiter!LimitAssumption
ASSUME Online!OwnerAssumption /\ Online!BoundAssumption /\ Online!NoneAssumption

LiveInit ==
  /\ Init /\ Limiter!Init /\ Online!Init
  /\ part \in {"cache", "limiter", "presence"}

LiveNext ==
  \/ part = "cache" /\ Next /\ UNCHANGED <<part, limitVars, presenceVars>>
  \/ part = "limiter" /\ Limiter!Next /\ UNCHANGED <<part, vars, presenceVars>>
  \/ part = "presence" /\ Online!Next /\ UNCHANGED <<part, vars, limitVars>>

\* The fairness of each module.  In an initial state it asks for nothing but the sweeps of
\* Presence, which go on in the behaviours that exercise it.
LiveSpec ==
  /\ LiveInit /\ [][LiveNext]_<<part, vars, limitVars, presenceVars>>
  /\ Fairness /\ Limiter!Fairness /\ Online!Progress
  /\ \A s \in Servers : WF_presenceVars(part = "presence" /\ Online!SweepStart(s))

-----------------------------------------------------------------------------
(* The properties of the limiter and of presence, stated in their modules *)

\* At most Limit requests counted in a window are let through on their count.
LimitHolds == Limiter!LimitHolds

\* A client that is refused and asks again is let through once more.
LetInAgain == Limiter!LetInAgain

\* A user whose server has died is marked offline in the end.
GoneGoesOffline == Online!GoneGoesOffline
=============================================================================

------------------------------ MODULE Presence ------------------------------
(***************************************************************************)
(* Who is online.  Every server process tracks its own sockets; Redis      *)
(* holds, shared by all servers, one lease per socket (a sorted set per    *)
(* user) and the set of online users.  A socket's lease is added when it   *)
(* connects, renewed by its server's heartbeat and removed when it         *)
(* disconnects; it lapses by itself when nobody renews it.  A user leaves  *)
(* the online set only through the SETTLE script, which a server runs when *)
(* the grace period after a disconnect ends, when it shuts down, or for    *)
(* every online user in its periodic sweep.                                *)
(*                                                                         *)
(* Modelled from src/modules/presence (service, Redis store, gateway), and *)
(* the shutdown sequence of src/main.ts.  A Redis command is one step.     *)
(* What a server does on the reply (publish) is a later step of that       *)
(* server, and its replies come back in the order of its commands.         *)
(*                                                                         *)
(* Abstractions.  Time is not counted: a grace timer fires, a lock expires *)
(* and a lease lapses at any moment the code allows.  The lease of a       *)
(* socket that is still connected to a running server lapses only as a     *)
(* fault (no heartbeat got through for 90 s).  PEXPIRE of a user's leases  *)
(* comes after all of them have lapsed, which SETTLE cannot tell from an   *)
(* empty set, so it is not a step.  lastSeen is left out.  "Variant" marks  *)
(* a slip that a property notices.                                         *)
(***************************************************************************)
EXTENDS Integers, Sequences

CONSTANTS
  Users,
  Sockets,      \* a socket id is used once: a reconnecting client gets a new one
  Servers,
  Owner,        \* whose socket it is
  None,
  MaxExits,     \* bound: server processes that crash or shut down
  MaxFaults     \* bound: Redis calls that fail, and leases that miss their heartbeats

ASSUME OwnerAssumption == Owner \in [Sockets -> Users]
ASSUME BoundAssumption == MaxExits \in Nat /\ MaxFaults \in Nat
ASSUME NoneAssumption == None \notin Servers \cup Sockets

VARIABLES
  phase,        \* life of a server process
  home,         \* the server a socket is connected to
  stage,        \* life of a socket, as its server sees it
  lease,        \* presence:sockets:<user>, with "lapsed" for a score in the past
  online,       \* presence:online
  grace,        \* graceTimers of a server
  asking,       \* users for whom a server has SETTLE in flight
  looking,      \* users a server settled as offline and now takes a snapshot of
  beat,         \* sockets whose renewal a heartbeat has in flight
  sweep,        \* a server's run of sweep()
  lock,         \* presence:sweep-lock
  out,          \* replies on their way to a server that will publish them
  shown,        \* what was last published of a user
  exits, faults

vars == <<phase, home, stage, lease, online, grace, asking, looking, beat,
          sweep, lock, out, shown, exits, faults>>

Phases == {"run", "stop", "close", "exited", "crashed"}
Stages == {"new", "opened", "up", "hung", "left", "gone"}
Leases == {"none", "live", "lapsed"}
Idle == [step |-> "idle", todo |-> {}, went |-> {}]
\* A sweep under way always has a user to settle or to publish: it ends by itself.
Sweeps ==
  {Idle}
  \cup [step : {"scan"}, todo : (SUBSET Users) \ {{}}, went : SUBSET Users]
  \cup [step : {"tell"}, todo : {{}}, went : (SUBSET Users) \ {{}}]
News == [user : Users, online : BOOLEAN, by : Sockets \cup {None}]

TypeOK ==
  /\ phase \in [Servers -> Phases]
  /\ home \in [Sockets -> Servers \cup {None}]
  /\ stage \in [Sockets -> Stages]
  /\ lease \in [Sockets -> Leases]
  /\ online \in SUBSET Users
  /\ grace \in [Servers -> SUBSET Users]
  /\ asking \in [Servers -> SUBSET Users]
  /\ looking \in [Servers -> SUBSET Users]
  /\ beat \in [Servers -> SUBSET Sockets]
  /\ sweep \in [Servers -> Sweeps]
  /\ lock \in BOOLEAN
  /\ out \in [Servers -> Seq(News)]
  /\ shown \in [Users -> BOOLEAN]
  /\ exits \in 0..MaxExits
  /\ faults \in 0..MaxFaults

Init ==
  /\ phase = [s \in Servers |-> "run"]
  /\ home = [k \in Sockets |-> None]
  /\ stage = [k \in Sockets |-> "new"]
  /\ lease = [k \in Sockets |-> "none"]
  /\ online = {}
  /\ grace = [s \in Servers |-> {}]
  /\ asking = [s \in Servers |-> {}]
  /\ looking = [s \in Servers |-> {}]
  /\ beat = [s \in Servers |-> {}]
  /\ sweep = [s \in Servers |-> Idle]
  /\ lock = FALSE
  /\ out = [s \in Servers |-> <<>>]
  /\ shown = [u \in Users |-> FALSE]
  /\ exits = 0
  /\ faults = 0

-----------------------------------------------------------------------------
(* Helpers *)

Alive(s) == phase[s] \in {"run", "stop", "close"}

\* The socket's own server is still there to act for it.
Served(k) == home[k] \in Servers /\ Alive(home[k])

Answered(k) == \A i \in 1..Len(out[home[k]]) : out[home[k]][i].by # k

Connected(k) == stage[k] \in {"opened", "up"} /\ Served(k)

\* Its server still knows the socket: it is connected, or its lease is about to
\* be removed.
Tended(k) == stage[k] \in {"opened", "up", "hung", "left"} /\ Served(k)

HasLease(u) == \E k \in Sockets : Owner[k] = u /\ lease[k] # "none"
HasLiveLease(u) == \E k \in Sockets : Owner[k] = u /\ lease[k] = "live"

\* ZREMRANGEBYSCORE: the lapsed leases of u are gone.
Purged(u) == [k \in Sockets |-> IF Owner[k] = u /\ lease[k] = "lapsed" THEN "none" ELSE lease[k]]

\* Variant: SETTLE does not look for remaining leases.
SettledBlind(u) ==
  /\ lease' = Purged(u)
  /\ online' = online \ {u}

\* Variant: SETTLE does not drop lapsed leases first.
SettledUnpurged(u) ==
  /\ lease' = lease
  /\ online' = IF HasLease(u) THEN online ELSE online \ {u}

\* SETTLE: drop the lapsed leases; with none left the user leaves the online set.
Settled(u) ==
  /\ lease' = Purged(u)
  /\ online' = IF HasLiveLease(u) THEN online ELSE online \ {u}
GoesOffline(u) == u \in online /\ ~HasLiveLease(u)

Fault == faults < MaxFaults /\ faults' = faults + 1

-----------------------------------------------------------------------------
(* A socket connects and disconnects *)

\* onConnection: the grace timer of the user on this server is dropped and
\* ADD_SOCKET is sent.
Open(k, s) ==
  /\ stage[k] = "new" /\ phase[s] \in {"run", "stop"}
  /\ home' = [home EXCEPT ![k] = s]
  /\ stage' = [stage EXCEPT ![k] = "opened"]
  /\ grace' = [grace EXCEPT ![s] = @ \ {Owner[k]}]
  /\ UNCHANGED <<phase, lease, online, asking, looking, beat, sweep, lock, out, shown, exits, faults>>

Registered(k) == stage' = [stage EXCEPT ![k] = IF @ = "opened" THEN "up" ELSE "left"]

\* ADD_SOCKET runs; the server that made the user come online will publish it.
Register(k) ==
  /\ stage[k] \in {"opened", "hung"} /\ Served(k)
  /\ Registered(k)
  /\ lease' = [lease EXCEPT ![k] = "live"]
  /\ online' = online \cup {Owner[k]}
  /\ out' = IF Owner[k] \in online THEN out
            ELSE [out EXCEPT ![home[k]] = Append(@, [user |-> Owner[k], online |-> TRUE, by |-> k])]
  /\ UNCHANGED <<phase, home, grace, asking, looking, beat, sweep, lock, shown, exits, faults>>

\* The call fails, before or after Redis ran it; the gateway only logs it.
RegisterFails(k) ==
  /\ stage[k] \in {"opened", "hung"} /\ Served(k)
  /\ Fault
  /\ Registered(k)
  /\ \/ UNCHANGED <<lease, online>>
     \/ lease' = [lease EXCEPT ![k] = "live"] /\ online' = online \cup {Owner[k]}
  /\ UNCHANGED <<phase, home, grace, asking, looking, beat, sweep, lock, out, shown, exits>>

\* 'disconnect': acted on only once the connect has finished: "hung" waits for
\* ADD_SOCKET, and both for the publication its reply may lead to.
HangUp(k) == [stage EXCEPT ![k] = IF @ = "opened" THEN "hung" ELSE "left"]
Disconnect(k) ==
  /\ stage[k] \in {"opened", "up"} /\ Served(k)
  /\ stage' = HangUp(k)
  /\ UNCHANGED <<phase, home, lease, online, grace, asking, looking, beat, sweep, lock, out, shown, exits, faults>>

\* ZREM, then the grace timer of the user is (re)started.
Unregister(k) ==
  /\ stage[k] = "left" /\ Served(k) /\ Answered(k)
  /\ stage' = [stage EXCEPT ![k] = "gone"]
  /\ lease' = [lease EXCEPT ![k] = "none"]
  /\ grace' = [grace EXCEPT ![home[k]] = @ \cup {Owner[k]}]
  /\ UNCHANGED <<phase, home, online, asking, looking, beat, sweep, lock, out, shown, exits, faults>>

\* ZREM fails, so no timer is started: the lease is left to the sweep.
UnregisterFails(k) ==
  /\ stage[k] = "left" /\ Served(k) /\ Answered(k)
  /\ Fault
  /\ stage' = [stage EXCEPT ![k] = "gone"]
  /\ \/ UNCHANGED lease
     \/ lease' = [lease EXCEPT ![k] = "none"]
  /\ UNCHANGED <<phase, home, online, grace, asking, looking, beat, sweep, lock, out, shown, exits>>

-----------------------------------------------------------------------------
(* settle(): the user's grace period is over *)

\* The bound: one SETTLE of a user in flight per server.
TimerFires(s, u) ==
  /\ Alive(s) /\ u \in grace[s] /\ u \notin asking[s]
  /\ grace' = [grace EXCEPT ![s] = @ \ {u}]
  /\ asking' = [asking EXCEPT ![s] = @ \cup {u}]
  /\ UNCHANGED <<phase, home, stage, lease, online, looking, beat, sweep, lock, out, shown, exits, faults>>

Settle(s, u) ==
  /\ Alive(s) /\ u \in asking[s] /\ u \notin looking[s]
  /\ asking' = [asking EXCEPT ![s] = @ \ {u}]
  /\ looking' = IF GoesOffline(u) THEN [looking EXCEPT ![s] = @ \cup {u}] ELSE looking
  /\ Settled(u)
  /\ UNCHANGED <<phase, home, stage, grace, beat, sweep, lock, out, shown, exits, faults>>

\* SETTLE or the snapshot fails: nobody publishes.
SettleFails(s, u) ==
  /\ Alive(s) /\ u \in asking[s] \cup looking[s]
  /\ Fault
  /\ asking' = [asking EXCEPT ![s] = @ \ {u}]
  /\ looking' = [looking EXCEPT ![s] = @ \ {u}]
  /\ \/ u \in asking[s] /\ Settled(u)
     \/ UNCHANGED <<lease, online>>
  /\ UNCHANGED <<phase, home, stage, grace, beat, sweep, lock, out, shown, exits>>

\* What a snapshot of u says now, on its way to server s.
Seen(s, u) == [out EXCEPT ![s] = Append(@, [user |-> u, online |-> u \in online, by |-> None])]

Look(s, u) ==
  /\ Alive(s) /\ u \in looking[s]
  /\ looking' = [looking EXCEPT ![s] = @ \ {u}]
  /\ out' = Seen(s, u)
  /\ UNCHANGED <<phase, home, stage, lease, online, grace, asking, beat, sweep, lock, shown, exits, faults>>

\* publish(): watchers and staff are told, and this server's listeners run.
Publish(s) ==
  /\ Alive(s) /\ out[s] # <<>>
  /\ shown' = [shown EXCEPT ![Head(out[s]).user] = Head(out[s]).online]
  /\ out' = [out EXCEPT ![s] = Tail(@)]
  /\ UNCHANGED <<phase, home, stage, lease, online, grace, asking, looking, beat, sweep, lock, exits, faults>>

-----------------------------------------------------------------------------
(* heartbeat() and leases *)

\* The sockets connected right now are read; their renewals go out as a pipeline.
Heartbeat(s) ==
  /\ phase[s] = "run" /\ beat[s] = {}
  /\ beat' = [beat EXCEPT ![s] = {k \in Sockets : home[k] = s /\ stage[k] \in {"opened", "up"}}]
  /\ beat'[s] # {}
  /\ UNCHANGED <<phase, home, stage, lease, online, grace, asking, looking, sweep, lock, out, shown, exits, faults>>

\* Variant: ZADD without XX.
RenewedAlways(k) == [lease EXCEPT ![k] = "live"]

\* ZADD XX: an existing lease is extended, a removed one stays removed.
Renewed(k) == IF lease[k] = "none" THEN lease ELSE [lease EXCEPT ![k] = "live"]

Renew(s, k) ==
  /\ Alive(s) /\ k \in beat[s]
  /\ beat' = [beat EXCEPT ![s] = @ \ {k}]
  /\ lease' = Renewed(k)
  /\ UNCHANGED <<phase, home, stage, online, grace, asking, looking, sweep, lock, out, shown, exits, faults>>

\* Nobody renews the lease of a socket that is gone or whose server is dead.
LeaseLapses(k) ==
  /\ lease[k] = "live" /\ ~Tended(k)
  /\ lease' = [lease EXCEPT ![k] = "lapsed"]
  /\ UNCHANGED <<phase, home, stage, online, grace, asking, looking, beat, sweep, lock, out, shown, exits, faults>>

\* No heartbeat of a running server got through for the length of a lease.
HeartbeatsMissed(k) ==
  /\ lease[k] = "live" /\ Tended(k)
  /\ Fault
  /\ lease' = [lease EXCEPT ![k] = "lapsed"]
  /\ UNCHANGED <<phase, home, stage, online, grace, asking, looking, beat, sweep, lock, out, shown, exits>>

-----------------------------------------------------------------------------
(* sweep() *)

\* SET NX took the lock; the scan returns the users online now.
SweepStart(s) ==
  /\ phase[s] = "run" /\ sweep[s] = Idle /\ ~lock
  /\ lock' = TRUE
  /\ sweep' = IF online = {} THEN sweep
              ELSE [sweep EXCEPT ![s] = [step |-> "scan", todo |-> online, went |-> {}]]
  /\ UNCHANGED <<phase, home, stage, lease, online, grace, asking, looking, beat, out, shown, exits, faults>>

\* The lock is never released, it expires (25 s), sweep finished or not.
LockExpires ==
  /\ lock /\ lock' = FALSE
  /\ UNCHANGED <<phase, home, stage, lease, online, grace, asking, looking, beat, sweep, out, shown, exits, faults>>

\* Variant: the sweep goes on to publish although nobody went offline.
SweepToTell(todo, went) ==
  IF todo # {} THEN [step |-> "scan", todo |-> todo, went |-> went]
  ELSE [step |-> "tell", todo |-> {}, went |-> went]

\* A sweep with nothing left to do in this step goes to the next.
SweepTo(todo, went) ==
  IF todo # {} THEN [step |-> "scan", todo |-> todo, went |-> went]
  ELSE IF went # {} THEN [step |-> "tell", todo |-> {}, went |-> went] ELSE Idle

SweepSettle(s, u) ==
  /\ Alive(s) /\ sweep[s].step = "scan" /\ u \in sweep[s].todo
  /\ Settled(u)
  /\ sweep' = [sweep EXCEPT ![s] =
                 SweepTo(@.todo \ {u}, IF GoesOffline(u) THEN @.went \cup {u} ELSE @.went)]
  /\ UNCHANGED <<phase, home, stage, grace, asking, looking, beat, lock, out, shown, exits, faults>>

SweepLook(s, u) ==
  /\ Alive(s) /\ sweep[s].step = "tell" /\ u \in sweep[s].went
  /\ sweep' = [sweep EXCEPT ![s] = SweepTo({}, @.went \ {u})]
  /\ out' = Seen(s, u)
  /\ UNCHANGED <<phase, home, stage, lease, online, grace, asking, looking, beat, lock, shown, exits, faults>>

\* A call of the sweep fails: the users it already took offline are not published.
SweepFails(s) ==
  /\ Alive(s) /\ sweep[s] # Idle
  /\ Fault
  /\ sweep' = [sweep EXCEPT ![s] = Idle]
  /\ UNCHANGED <<phase, home, stage, lease, online, grace, asking, looking, beat, lock, out, shown, exits>>

-----------------------------------------------------------------------------
(* A server process ends *)

Forgotten(s) ==
  /\ grace' = [grace EXCEPT ![s] = {}]
  /\ asking' = [asking EXCEPT ![s] = {}]
  /\ looking' = [looking EXCEPT ![s] = {}]
  /\ beat' = [beat EXCEPT ![s] = {}]
  /\ sweep' = [sweep EXCEPT ![s] = Idle]
  /\ out' = [out EXCEPT ![s] = <<>>]

Crash(s) ==
  /\ Alive(s) /\ exits < MaxExits
  /\ phase' = [phase EXCEPT ![s] = "crashed"]
  /\ exits' = exits + 1
  /\ Forgotten(s)
  /\ UNCHANGED <<home, stage, lease, online, lock, shown, faults>>

\* stop(): no more heartbeats and sweeps, pending grace periods end now.
Stop(s) ==
  /\ phase[s] = "run" /\ exits < MaxExits
  /\ phase' = [phase EXCEPT ![s] = "stop"]
  /\ exits' = exits + 1
  /\ asking' = [asking EXCEPT ![s] = @ \cup grace[s]]
  /\ grace' = [grace EXCEPT ![s] = {}]
  /\ UNCHANGED <<home, stage, lease, online, looking, beat, sweep, lock, out, shown, faults>>

\* Once these are settled, io.close disconnects every socket.
CloseIo(s) ==
  /\ phase[s] = "stop" /\ asking[s] = {} /\ looking[s] = {}
  /\ phase' = [phase EXCEPT ![s] = "close"]
  /\ stage' = [k \in Sockets |->
                 IF home[k] = s /\ stage[k] \in {"opened", "up"} THEN HangUp(k)[k] ELSE stage[k]]
  /\ UNCHANGED <<home, lease, online, grace, asking, looking, beat, sweep, lock, out, shown, exits, faults>>

\* process.exit: timers that are still pending never fire.
Exit(s) ==
  /\ phase[s] = "close"
  /\ phase' = [phase EXCEPT ![s] = "exited"]
  /\ Forgotten(s)
  /\ UNCHANGED <<home, stage, lease, online, lock, shown, exits, faults>>

-----------------------------------------------------------------------------

SocketNext == \E k \in Sockets :
  \/ \E s \in Servers : Open(k, s)
  \/ Register(k) \/ RegisterFails(k)
  \/ Disconnect(k)
  \/ Unregister(k) \/ UnregisterFails(k)
  \/ LeaseLapses(k) \/ HeartbeatsMissed(k)

UserNext == \E s \in Servers, u \in Users :
  \/ TimerFires(s, u)
  \/ Settle(s, u) \/ SettleFails(s, u)
  \/ Look(s, u)
  \/ SweepSettle(s, u)
  \/ SweepLook(s, u)

ServerNext == \E s \in Servers :
  \/ Publish(s)
  \/ Heartbeat(s)
  \/ \E k \in Sockets : Renew(s, k)
  \/ SweepStart(s) \/ SweepFails(s)
  \/ Crash(s)
  \/ Stop(s) \/ CloseIo(s) \/ Exit(s)

Next == SocketNext \/ UserNext \/ ServerNext \/ LockExpires

Spec == Init /\ [][Next]_vars

\* A running server's calls return, its timers fire, it keeps sweeping and sending
\* heartbeats; leases and the lock run out.  Clients, exits and faults come when they come.
Progress ==
  /\ \A k \in Sockets :
       WF_vars(Register(k)) /\ WF_vars(Unregister(k)) /\ WF_vars(LeaseLapses(k))
  /\ \A s \in Servers :
       /\ WF_vars(Publish(s)) /\ WF_vars(Heartbeat(s))
       /\ WF_vars(\E k \in Sockets : Renew(s, k))
       /\ \A u \in Users :
            /\ WF_vars(TimerFires(s, u)) /\ WF_vars(Settle(s, u)) /\ WF_vars(Look(s, u))
            /\ WF_vars(SweepSettle(s, u)) /\ WF_vars(SweepLook(s, u))
  /\ WF_vars(LockExpires)
Fairness == Progress /\ \A s \in Servers : WF_vars(SweepStart(s))

FairSpec == Spec /\ Fairness

-----------------------------------------------------------------------------
(* Properties *)

\* A user with any lease, lapsed or not, is in the online set: a renewal that
\* overtakes a disconnect or a settlement (ZADD XX), a connect between another
\* server's timer and its SETTLE, or a call that failed half way never leave a
\* lease behind the back of the online set, which no later step would repair.
LeasedIsOnline == \A u \in Users : HasLease(u) => u \in online

\* As long as every heartbeat and Redis call gets through, a user with a registered
\* socket on a running server is online, whatever tabs close, timers fire,
\* sweeps run and servers end around it.
LiveIsOnline ==
  faults = 0 => \A k \in Sockets : stage[k] = "up" /\ Connected(k) => Owner[k] \in online

\* A user whose sockets are all gone for good ends up offline, also when the
\* server that held them crashed, shut down, or failed to remove the lease.
GoneGoesOffline == \A u \in Users :
  <>[](\A k \in Sockets : Owner[k] = u => ~Connected(k)) => <>[](u \notin online)

-----------------------------------------------------------------------------
(* What comments of the code say and the code does not do: each of these fails *)

\* "Two servers can never disagree about whether a user is online" of what they
\* publish: once no server has anything left to publish about a user, what
\* everyone was last told is what the store says.  It holds of one server, whose
\* replies come in order; two servers publish in either order.
Untold(s, u) ==
  \/ u \in looking[s] \cup sweep[s].went
  \/ \E i \in 1..Len(out[s]) : out[s][i].user = u
ShownAgrees == \A u \in Users :
  (\A s \in Servers : ~Untold(s, u)) => (shown[u] <=> u \in online)

\* "Online = at least one live socket": a user whose registered socket stays
\* connected does not stay offline, because heartbeats go on renewing its lease.
LiveReturns == \A k \in Sockets :
  <>[](stage[k] = "up" /\ Connected(k)) => []<>(Owner[k] \in online)

\* "a user reloads the page (5s grace, no offline flicker)": nobody is taken
\* offline while his grace period runs.
GraceKept == [][\A u \in Users :
  u \in online \ online' => \A s \in Servers : u \notin grace[s]]_vars

\* "On shutdown: settle pending offline checks now instead of leaving users
\* online": when the last server has shut down, nobody is online without a lease.
CleanExit == (\A s \in Servers : phase[s] = "exited") => \A u \in online : HasLease(u)
=============================================================================

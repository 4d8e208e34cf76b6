--------------------------- MODULE PresenceProofs ---------------------------
(***************************************************************************)
(* For any users, sockets and servers: a lease never exists behind the     *)
(* back of the online set, whatever fails, crashes or overtakes; and when  *)
(* nothing fails, a user with a connected socket is online.  The first is  *)
(* inductive together with types; the second needs that the lease of a     *)
(* registered, connected socket is live (LiveHasLease).                    *)
(***************************************************************************)
EXTENDS Presence, TLAPS

USE OwnerAssumption, BoundAssumption, NoneAssumption

-----------------------------------------------------------------------------
(* Types *)

\* SETTLE drops leases and members, it makes none.
LEMMA SettledTyped ==
  ASSUME NEW u \in Users, lease \in [Sockets -> Leases], online \in SUBSET Users, Settled(u)
  PROVE  lease' \in [Sockets -> Leases] /\ online' \in SUBSET Users
  BY DEF Settled, Purged, Leases

\* A sweep moves on to a sweep.
LEMMA SweepToTyped ==
  ASSUME NEW todo \in SUBSET Users, NEW went \in SUBSET Users
  PROVE  SweepTo(todo, went) \in Sweeps
<1>1. CASE todo # {}
  <2>0. todo \in (SUBSET Users) \ {{}}  BY <1>1
  <2>1. [step |-> "scan", todo |-> todo, went |-> went]
          \in [step : {"scan"}, todo : (SUBSET Users) \ {{}}, went : SUBSET Users]
    BY <2>0, Zenon
  <2> QED  BY <1>1, <2>1 DEF SweepTo, Sweeps
<1>2. CASE todo = {} /\ went # {}
  <2>0. went \in (SUBSET Users) \ {{}} /\ {} \in {{}}  BY <1>2
  <2>1. [step |-> "tell", todo |-> {}, went |-> went]
          \in [step : {"tell"}, todo : {{}}, went : (SUBSET Users) \ {{}}]
    BY <2>0, Zenon
  <2> QED  BY <1>2, <2>1 DEF SweepTo, Sweeps
<1>3. CASE todo = {} /\ went = {}
  BY <1>3 DEF SweepTo, Sweeps
<1> QED  BY <1>1, <1>2, <1>3

\* What a sweep has left is users.
LEMMA SweepUsers ==
  ASSUME NEW w \in Sweeps
  PROVE  w.todo \in SUBSET Users /\ w.went \in SUBSET Users
<1>1. CASE w = Idle
  BY <1>1 DEF Idle
<1>2. CASE w \in [step : {"scan"}, todo : (SUBSET Users) \ {{}}, went : SUBSET Users]
  BY <1>2
<1>3. CASE w \in [step : {"tell"}, todo : {{}}, went : (SUBSET Users) \ {{}}]
  BY <1>3
<1> QED  BY <1>1, <1>2, <1>3 DEF Sweeps

\* A reply added to a server's replies leaves them replies.
LEMMA OutTyped ==
  ASSUME NEW s \in Servers, NEW n \in News, out \in [Servers -> Seq(News)]
  PROVE  [out EXCEPT ![s] = Append(@, n)] \in [Servers -> Seq(News)]
  OBVIOUS

LEMMA ForgottenTyped ==
  ASSUME NEW s \in Servers, TypeOK, Forgotten(s)
  PROVE  /\ grace' \in [Servers -> SUBSET Users]
         /\ asking' \in [Servers -> SUBSET Users]
         /\ looking' \in [Servers -> SUBSET Users]
         /\ beat' \in [Servers -> SUBSET Sockets]
         /\ sweep' \in [Servers -> Sweeps]
         /\ out' \in [Servers -> Seq(News)]
<1>1. Idle \in Sweeps  BY DEF Idle, Sweeps
<1>2. <<>> \in Seq(News)  OBVIOUS
<1> QED  BY <1>1, <1>2 DEF TypeOK, Forgotten

LEMMA SocketTyped ==
  ASSUME TypeOK, SocketNext
  PROVE  TypeOK'
<1>1. PICK k \in Sockets :
        \/ \E s \in Servers : Open(k, s)
        \/ Register(k) \/ RegisterFails(k)
        \/ Disconnect(k)
        \/ Unregister(k) \/ UnregisterFails(k)
        \/ LeaseLapses(k) \/ HeartbeatsMissed(k)
  BY DEF SocketNext
<1> Owner[k] \in Users  OBVIOUS
<1>2. CASE \E s \in Servers : Open(k, s)
  BY <1>2 DEF Open, TypeOK, Stages
<1>3. CASE Register(k)
  <2>1. [user |-> Owner[k], online |-> TRUE, by |-> k] \in News  BY DEF News
  <2>2. home[k] \in Servers  BY <1>3 DEF Register, Served
  <2>3. out' \in [Servers -> Seq(News)]
    BY <1>3, <2>1, <2>2, OutTyped DEF Register, TypeOK
  <2> QED  BY <1>3, <2>3 DEF Register, Registered, TypeOK, Stages, Leases
<1>4. CASE RegisterFails(k)
  <2>1. stage' \in [Sockets -> Stages]
    BY <1>4 DEF RegisterFails, Registered, TypeOK, Stages
  <2>2. lease' \in [Sockets -> Leases] /\ online' \in SUBSET Users
    BY <1>4 DEF RegisterFails, TypeOK, Leases
  <2>3. faults' \in 0..MaxFaults
    BY <1>4 DEF RegisterFails, Fault, TypeOK
  <2> QED  BY <1>4, <2>1, <2>2, <2>3 DEF RegisterFails, TypeOK
<1>5. CASE Disconnect(k)
  BY <1>5 DEF Disconnect, HangUp, TypeOK, Stages
<1>6. CASE Unregister(k)
  BY <1>6 DEF Unregister, TypeOK, Stages, Leases
<1>7. CASE UnregisterFails(k)
  <2>1. stage' \in [Sockets -> Stages] /\ lease' \in [Sockets -> Leases]
    BY <1>7 DEF UnregisterFails, TypeOK, Stages, Leases
  <2>2. faults' \in 0..MaxFaults
    BY <1>7 DEF UnregisterFails, Fault, TypeOK
  <2> QED  BY <1>7, <2>1, <2>2 DEF UnregisterFails, TypeOK
<1>8. CASE LeaseLapses(k)
  BY <1>8 DEF LeaseLapses, TypeOK, Leases
<1>9. CASE HeartbeatsMissed(k)
  BY <1>9 DEF HeartbeatsMissed, Fault, TypeOK, Leases
<1> QED  BY <1>1, <1>2, <1>3, <1>4, <1>5, <1>6, <1>7, <1>8, <1>9

LEMMA UserTyped ==
  ASSUME TypeOK, UserNext
  PROVE  TypeOK'
<1>1. PICK s \in Servers, u \in Users :
        \/ TimerFires(s, u)
        \/ Settle(s, u) \/ SettleFails(s, u)
        \/ Look(s, u)
        \/ SweepSettle(s, u)
        \/ SweepLook(s, u)
  BY DEF UserNext
<1>0. [user |-> u, online |-> u \in online, by |-> None] \in News  BY DEF News
<1>2. CASE TimerFires(s, u)
  BY <1>2 DEF TimerFires, TypeOK
<1>3. CASE Settle(s, u)
  BY <1>3, SettledTyped DEF Settle, TypeOK
<1>4. CASE SettleFails(s, u)
  <2>1. lease' \in [Sockets -> Leases] /\ online' \in SUBSET Users
    BY <1>4, SettledTyped DEF SettleFails, TypeOK
  <2>2. faults' \in 0..MaxFaults
    BY <1>4 DEF SettleFails, Fault, TypeOK
  <2> QED  BY <1>4, <2>1, <2>2 DEF SettleFails, TypeOK
<1>5. CASE Look(s, u)
  <2>1. out' \in [Servers -> Seq(News)]
    BY <1>0, <1>5, OutTyped DEF Look, Seen, TypeOK
  <2> QED  BY <1>5, <2>1 DEF Look, TypeOK
<1>6. CASE SweepSettle(s, u)
  <2>1. sweep[s].todo \in SUBSET Users /\ sweep[s].went \in SUBSET Users
    <3>1. sweep[s] \in Sweeps  BY DEF TypeOK
    <3> QED  BY <3>1, SweepUsers
  <2>2. SweepTo(sweep[s].todo \ {u}, IF GoesOffline(u) THEN sweep[s].went \cup {u} ELSE sweep[s].went) \in Sweeps
    BY <2>1, SweepToTyped
  <2>3. sweep' \in [Servers -> Sweeps]
    BY <1>6, <2>2 DEF SweepSettle, TypeOK
  <2> QED  BY <1>6, <2>3, SettledTyped DEF SweepSettle, TypeOK
<1>7. CASE SweepLook(s, u)
  <2>1. sweep[s].went \in SUBSET Users
    <3>1. sweep[s] \in Sweeps  BY DEF TypeOK
    <3> QED  BY <3>1, SweepUsers
  <2>2. SweepTo({}, sweep[s].went \ {u}) \in Sweeps  BY <2>1, SweepToTyped
  <2>3. sweep' \in [Servers -> Sweeps]
    BY <1>7, <2>2 DEF SweepLook, TypeOK
  <2>4. out' \in [Servers -> Seq(News)]
    BY <1>0, <1>7, OutTyped DEF SweepLook, Seen, TypeOK
  <2> QED  BY <1>7, <2>3, <2>4 DEF SweepLook, TypeOK
<1> QED  BY <1>1, <1>2, <1>3, <1>4, <1>5, <1>6, <1>7

LEMMA ServerTyped ==
  ASSUME TypeOK, ServerNext
  PROVE  TypeOK'
<1>1. PICK s \in Servers :
        \/ Publish(s)
        \/ Heartbeat(s)
        \/ \E k \in Sockets : Renew(s, k)
        \/ SweepStart(s) \/ SweepFails(s)
        \/ Crash(s)
        \/ Stop(s) \/ CloseIo(s) \/ Exit(s)
  BY DEF ServerNext
<1>2. CASE Publish(s)
  <2>1. out[s] \in Seq(News) /\ out[s] # <<>>  BY <1>2 DEF Publish, TypeOK
  <2>2. Head(out[s]) \in News /\ Tail(out[s]) \in Seq(News)  BY <2>1
  <2>3. shown' \in [Users -> BOOLEAN]  BY <1>2, <2>2 DEF Publish, TypeOK, News
  <2>4. out' \in [Servers -> Seq(News)]  BY <1>2, <2>2 DEF Publish, TypeOK
  <2> QED  BY <1>2, <2>3, <2>4 DEF Publish, TypeOK
<1>3. CASE Heartbeat(s)
  BY <1>3 DEF Heartbeat, TypeOK
<1>4. CASE \E k \in Sockets : Renew(s, k)
  BY <1>4 DEF Renew, Renewed, TypeOK, Leases
<1>5. CASE SweepStart(s)
  <2>1. CASE online = {}  BY <1>5, <2>1 DEF SweepStart, TypeOK
  <2>2. CASE online # {}
    <3>0. online \in (SUBSET Users) \ {{}} /\ {} \in SUBSET Users  BY <2>2 DEF TypeOK
    <3>1. [step |-> "scan", todo |-> online, went |-> {}]
            \in [step : {"scan"}, todo : (SUBSET Users) \ {{}}, went : SUBSET Users]
      BY <3>0, Zenon
    <3>2. [step |-> "scan", todo |-> online, went |-> {}] \in Sweeps  BY <3>1 DEF Sweeps
    <3>3. sweep' \in [Servers -> Sweeps]  BY <1>5, <2>2, <3>2 DEF SweepStart, TypeOK
    <3> QED  BY <1>5, <3>3 DEF SweepStart, TypeOK
  <2> QED  BY <2>1, <2>2
<1>6. CASE SweepFails(s)
  <2>1. Idle \in Sweeps  BY DEF Idle, Sweeps
  <2> QED  BY <1>6, <2>1 DEF SweepFails, Fault, TypeOK
<1>7. CASE Crash(s)
  <2>1. exits' \in 0..MaxExits  BY <1>7 DEF Crash, TypeOK
  <2> QED  BY <1>7, <2>1, ForgottenTyped DEF Crash, TypeOK, Phases
<1>8. CASE Stop(s)
  BY <1>8 DEF Stop, TypeOK, Phases
<1>9. CASE CloseIo(s)
  <2>1. \A k \in Sockets : HangUp(k)[k] \in Stages  BY DEF HangUp, TypeOK, Stages
  <2>2. stage' \in [Sockets -> Stages]  BY <1>9, <2>1 DEF CloseIo, TypeOK
  <2> QED  BY <1>9, <2>2 DEF CloseIo, TypeOK, Phases
<1>10. CASE Exit(s)
  BY <1>10, ForgottenTyped DEF Exit, TypeOK, Phases
<1> QED  BY <1>1, <1>2, <1>3, <1>4, <1>5, <1>6, <1>7, <1>8, <1>9, <1>10

LEMMA TypeStep ==
  ASSUME TypeOK, [Next]_vars
  PROVE  TypeOK'
<1>1. CASE LockExpires  BY <1>1 DEF LockExpires, TypeOK
<1>2. CASE UNCHANGED vars  BY <1>2 DEF vars, TypeOK
<1> QED  BY <1>1, <1>2, SocketTyped, UserTyped, ServerTyped DEF Next

\* Initially types hold.
LEMMA TypeInit == Init => TypeOK
<1> SUFFICES ASSUME Init PROVE TypeOK  OBVIOUS
<1>1. Idle \in Sweeps  BY DEF Idle, Sweeps
<1>2. <<>> \in Seq(News)  OBVIOUS
<1>3. sweep \in [Servers -> Sweeps] /\ out \in [Servers -> Seq(News)]
  BY <1>1, <1>2 DEF Init
<1>4. /\ phase \in [Servers -> Phases] /\ home \in [Sockets -> Servers \cup {None}]
      /\ stage \in [Sockets -> Stages] /\ lease \in [Sockets -> Leases]
  BY DEF Init, Phases, Stages, Leases
<1>5. /\ grace \in [Servers -> SUBSET Users] /\ asking \in [Servers -> SUBSET Users]
      /\ looking \in [Servers -> SUBSET Users] /\ beat \in [Servers -> SUBSET Sockets]
      /\ online \in SUBSET Users /\ shown \in [Users -> BOOLEAN] /\ lock \in BOOLEAN
  BY DEF Init
<1>6. exits \in 0..MaxExits /\ faults \in 0..MaxFaults  BY DEF Init
<1> QED  BY <1>3, <1>4, <1>5, <1>6 DEF TypeOK

-----------------------------------------------------------------------------
(* Leases and the online set *)

\* Only ADD_SOCKET makes a lease, and it makes its owner online; only SETTLE
\* takes a user out, and only one with no lease left.
LEMMA LeasedStep ==
  ASSUME TypeOK, LeasedIsOnline, [Next]_vars
  PROVE  LeasedIsOnline'
<1> DEFINE NoNewLease == /\ \A k \in Sockets : lease[k] = "none" => lease'[k] = "none"
                         /\ online \subseteq online'
<1>1. ASSUME NoNewLease PROVE LeasedIsOnline'
  BY <1>1 DEF LeasedIsOnline, HasLease
<1>2. ASSUME UNCHANGED <<lease, online>> PROVE LeasedIsOnline'
  BY <1>1, <1>2
<1>3. ASSUME NEW u \in Users, Settled(u) PROVE LeasedIsOnline'
  BY <1>3 DEF Settled, Purged, HasLiveLease, LeasedIsOnline, HasLease, TypeOK, Leases
<1>4. CASE SocketNext
  <2>1. PICK k \in Sockets :
          \/ \E s \in Servers : Open(k, s)
          \/ Register(k) \/ RegisterFails(k)
          \/ Disconnect(k)
          \/ Unregister(k) \/ UnregisterFails(k)
          \/ LeaseLapses(k) \/ HeartbeatsMissed(k)
    BY <1>4 DEF SocketNext
  <2> Owner[k] \in Users  OBVIOUS
  <2>2. ASSUME lease' = [lease EXCEPT ![k] = "live"], online' = online \cup {Owner[k]}
        PROVE  LeasedIsOnline'
    BY <2>2 DEF LeasedIsOnline, HasLease, TypeOK
  <2>3. CASE \E s \in Servers : Open(k, s)  BY <2>3, <1>2 DEF Open
  <2>4. CASE Register(k)  BY <2>4, <2>2 DEF Register
  <2>5. CASE RegisterFails(k)  BY <2>5, <2>2, <1>2 DEF RegisterFails
  <2>6. CASE Disconnect(k)  BY <2>6, <1>2 DEF Disconnect
  <2>7. CASE Unregister(k)  BY <2>7, <1>1 DEF Unregister, TypeOK
  <2>8. CASE UnregisterFails(k)  BY <2>8, <1>1 DEF UnregisterFails, TypeOK
  <2>9. CASE LeaseLapses(k)  BY <2>9, <1>1 DEF LeaseLapses, TypeOK
  <2>10. CASE HeartbeatsMissed(k)  BY <2>10, <1>1 DEF HeartbeatsMissed, TypeOK
  <2> QED  BY <2>1, <2>3, <2>4, <2>5, <2>6, <2>7, <2>8, <2>9, <2>10
<1>5. CASE UserNext
  <2>1. PICK s \in Servers, u \in Users :
          \/ TimerFires(s, u)
          \/ Settle(s, u) \/ SettleFails(s, u)
          \/ Look(s, u)
          \/ SweepSettle(s, u)
          \/ SweepLook(s, u)
    BY <1>5 DEF UserNext
  <2>2. CASE TimerFires(s, u) \/ Look(s, u) \/ SweepLook(s, u)
    BY <2>2, <1>2 DEF TimerFires, Look, SweepLook
  <2>3. CASE Settle(s, u) \/ SettleFails(s, u) \/ SweepSettle(s, u)
    BY <2>3, <1>2, <1>3 DEF Settle, SettleFails, SweepSettle
  <2> QED  BY <2>1, <2>2, <2>3
<1>6. CASE ServerNext
  <2>1. PICK s \in Servers :
          \/ Publish(s)
          \/ Heartbeat(s)
          \/ \E k \in Sockets : Renew(s, k)
          \/ SweepStart(s) \/ SweepFails(s)
          \/ Crash(s)
          \/ Stop(s) \/ CloseIo(s) \/ Exit(s)
    BY <1>6 DEF ServerNext
  <2>2. CASE \E k \in Sockets : Renew(s, k)
    BY <2>2, <1>1 DEF Renew, Renewed, TypeOK
  <2> QED  BY <2>1, <2>2, <1>2 DEF Publish, Heartbeat, SweepStart, SweepFails, Crash, Stop, CloseIo, Exit
<1>7. CASE LockExpires  BY <1>7, <1>2 DEF LockExpires
<1>8. CASE UNCHANGED vars  BY <1>8, <1>2 DEF vars
<1> QED  BY <1>4, <1>5, <1>6, <1>7, <1>8 DEF Next

\* For every number of users, sockets and servers the state stays well typed.
THEOREM PresenceTyped == Spec => []TypeOK
<1>1. TypeOK /\ [Next]_vars => TypeOK'  BY TypeStep
<1> QED  BY <1>1, TypeInit, PTL DEF Spec

\* Whatever fails, crashes or is overtaken, a user with a lease is online.
THEOREM LeasedAreOnline == Spec => []LeasedIsOnline
<1>1. Init => LeasedIsOnline  BY DEF Init, LeasedIsOnline, HasLease
<1>2. TypeOK /\ LeasedIsOnline /\ [Next]_vars => LeasedIsOnline'  BY LeasedStep
<1> QED  BY <1>1, <1>2, PresenceTyped, PTL DEF Spec

-----------------------------------------------------------------------------
(* Connected sockets, when nothing fails *)

LiveHasLease == \A k \in Sockets : stage[k] = "up" /\ Connected(k) => lease[k] = "live"

\* A lease that is live lapses only once its socket is gone, and a SETTLE of any
\* server drops lapsed leases only.
LEMMA LiveStep ==
  ASSUME faults' = 0, TypeOK, LiveHasLease, [Next]_vars
  PROVE  LiveHasLease'
<1> USE DEF Served, Connected
<1>0. ~Fault  BY DEF Fault, TypeOK
<1>1. ASSUME NEW k \in Sockets, (stage[k] = "up")', Connected(k)',
             lease[k] = "live" => (lease[k] = "live")',
             stage[k] = "up" /\ Connected(k)
      PROVE  (lease[k] = "live")'
  BY <1>1 DEF LiveHasLease
<1>2. ASSUME \A k \in Sockets : lease[k] = "live" => lease'[k] = "live",
             UNCHANGED <<stage, home>>,
             \A s \in Servers : phase'[s] \in {"run", "stop", "close"} => phase[s] \in {"run", "stop", "close"}
      PROVE  LiveHasLease'
  BY <1>2 DEF LiveHasLease, Alive
<1>3. CASE SocketNext
  <2>1. PICK k \in Sockets :
          \/ \E s \in Servers : Open(k, s)
          \/ Register(k)
          \/ Disconnect(k)
          \/ Unregister(k)
          \/ LeaseLapses(k)
    BY <1>3, <1>0 DEF SocketNext, RegisterFails, UnregisterFails, HeartbeatsMissed
  <2>2. CASE \E s \in Servers : Open(k, s)
    BY <2>2 DEF Open, LiveHasLease, TypeOK, Alive
  <2>3. CASE Register(k)
    BY <2>3 DEF Register, Registered, LiveHasLease, TypeOK, Alive
  <2>4. CASE Disconnect(k)
    BY <2>4 DEF Disconnect, HangUp, LiveHasLease, TypeOK, Alive
  <2>5. CASE Unregister(k)
    BY <2>5 DEF Unregister, LiveHasLease, TypeOK, Alive
  <2>6. CASE LeaseLapses(k)
    BY <2>6 DEF LeaseLapses, Tended, LiveHasLease, TypeOK, Alive
  <2> QED  BY <2>1, <2>2, <2>3, <2>4, <2>5, <2>6
<1>4. CASE UserNext
  <2>1. PICK s \in Servers, u \in Users :
          \/ TimerFires(s, u)
          \/ Settle(s, u)
          \/ Look(s, u)
          \/ SweepSettle(s, u)
          \/ SweepLook(s, u)
    BY <1>4, <1>0 DEF UserNext, SettleFails
  <2>2. Settled(u) => \A k \in Sockets : lease[k] = "live" => lease'[k] = "live"
    BY DEF Settled, Purged
  <2> QED  BY <2>1, <2>2, <1>2 DEF TimerFires, Settle, Look, SweepSettle, SweepLook
<1>5. CASE ServerNext
  <2>1. PICK s \in Servers :
          \/ Publish(s)
          \/ Heartbeat(s)
          \/ \E k \in Sockets : Renew(s, k)
          \/ SweepStart(s)
          \/ Crash(s)
          \/ Stop(s) \/ CloseIo(s) \/ Exit(s)
    BY <1>5, <1>0 DEF ServerNext, SweepFails
  <2>2. CASE Publish(s) \/ Heartbeat(s) \/ SweepStart(s)
    BY <2>2, <1>2 DEF Publish, Heartbeat, SweepStart
  <2>3. CASE \E k \in Sockets : Renew(s, k)
    BY <2>3, <1>2 DEF Renew, Renewed, TypeOK
  <2>4. CASE Crash(s)  BY <2>4, <1>2 DEF Crash, TypeOK
  <2>5. CASE Stop(s)  BY <2>5, <1>2 DEF Stop, TypeOK
  <2>6. CASE Exit(s)  BY <2>6, <1>2 DEF Exit, TypeOK
  <2>7. CASE CloseIo(s)
    BY <2>7 DEF CloseIo, HangUp, LiveHasLease, TypeOK, Alive
  <2> QED  BY <2>1, <2>2, <2>3, <2>4, <2>5, <2>6, <2>7
<1>6. CASE LockExpires  BY <1>6, <1>2 DEF LockExpires
<1>7. CASE UNCHANGED vars  BY <1>7, <1>2 DEF vars
<1> QED  BY <1>3, <1>4, <1>5, <1>6, <1>7 DEF Next

\* Faults are only ever added: a state without any comes from a state without any.
LEMMA FaultsStay ==
  ASSUME faults' = 0, TypeOK, [Next]_vars
  PROVE  faults = 0
<1>1. ~Fault  BY DEF Fault, TypeOK
<1>2. CASE SocketNext
  BY <1>1, <1>2 DEF SocketNext, Open, Register, RegisterFails, Disconnect, Unregister,
     UnregisterFails, LeaseLapses, HeartbeatsMissed
<1>3. CASE UserNext
  BY <1>1, <1>3 DEF UserNext, TimerFires, Settle, SettleFails, Look, SweepSettle, SweepLook
<1>4. CASE ServerNext
  BY <1>1, <1>4 DEF ServerNext, Publish, Heartbeat, Renew, SweepStart, SweepFails, Crash, Stop,
     CloseIo, Exit
<1>5. CASE LockExpires  BY <1>5 DEF LockExpires
<1>6. CASE UNCHANGED vars  BY <1>6 DEF vars
<1> QED  BY <1>2, <1>3, <1>4, <1>5, <1>6 DEF Next

LiveUnlessFaults == faults = 0 => LiveHasLease

\* As long as no call fails and heartbeats get through, a user with a registered
\* socket on a running server is online, for any number of servers, tabs and exits.
THEOREM LiveAreOnline == Spec => []LiveIsOnline
<1>1. Init => LiveUnlessFaults  BY DEF Init, LiveHasLease, LiveUnlessFaults
<1>2. TypeOK /\ LiveUnlessFaults /\ [Next]_vars => LiveUnlessFaults'
  BY LiveStep, FaultsStay DEF LiveUnlessFaults
<1>3. LeasedIsOnline /\ LiveUnlessFaults => LiveIsOnline
  BY DEF LeasedIsOnline, LiveHasLease, LiveUnlessFaults, LiveIsOnline, HasLease
<1> QED  BY <1>1, <1>2, <1>3, PresenceTyped, LeasedAreOnline, PTL DEF Spec
=============================================================================

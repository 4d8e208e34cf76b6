----------------------------- MODULE TypingProofs -----------------------------
(***************************************************************************)
(* Proofs about Typing.  What is on the way from a socket to a screen ends *)
(* with its present state: after the last start either the stop is on the  *)
(* way as well, or the timer runs, or the server has died.                 *)
(***************************************************************************)
EXTENDS Typing, SequenceTheorems, TLAPS

Names == {User(s) : s \in Typers}

Typed ==
  /\ timer \in [Typers -> {"none", "armed"}]
  /\ socket \in [Typers -> {"joining", "in", "out", "gone", "lost"}]
  /\ wire \in [Typers -> [Screens -> Seq(BOOLEAN)]]
  /\ open \in [Screens -> BOOLEAN] /\ sees \in [Screens -> SUBSET Names]
  /\ told \in [Typers -> SUBSET Screens]

\* The indicator of s is on, or nobody can turn it off.
Live(s) == timer[s] = "armed" \/ socket[s] = "lost"

\* A start on the way is followed by its stop, unless the indicator is on.
Followed(s, v) == \A i \in 1..Len(wire[s][v]) :
  wire[s][v][i] => Live(s) \/ \E j \in 1..Len(wire[s][v]) : j > i /\ ~wire[s][v][j]

\* What a screen shows has a socket behind it, or one that has just stopped.
Backs(s, v) == Live(s) \/ \E i \in 1..Len(wire[s][v]) : ~wire[s][v][i]
Backed(v) == \A u \in sees[v] : \E s \in Typers : User(s) = u /\ Backs(s, v)

\* The only socket of its user.
Sole(s) == \A t \in Typers : User(t) = User(s) => t = s

\* A screen that was told of the start shows it, or the start is the last news on its way.
Shown(s, v) == timer[s] = "armed" /\ Sole(s) /\ v \in told[s] =>
  /\ open[v]
  /\ IF wire[s][v] = <<>> THEN User(s) \in sees[v] ELSE wire[s][v][Len(wire[s][v])]

\* A screen that has the conversation closed shows nobody.
Closed(v) == ~open[v] => sees[v] = {}

TInv ==
  /\ Typed
  /\ \A v \in Screens : Closed(v) /\ Backed(v) /\ \A s \in Typers : Followed(s, v) /\ Shown(s, v)

-----------------------------------------------------------------------------
(* Sequences of updates *)

LEMMA AppendUpdate ==
  ASSUME NEW q \in Seq(BOOLEAN), NEW on \in BOOLEAN
  PROVE  /\ Append(q, on) \in Seq(BOOLEAN) /\ Append(q, on) # <<>>
         /\ Len(Append(q, on)) = Len(q) + 1 /\ Len(q) \in Nat
         /\ Append(q, on)[Len(q) + 1] = on
         /\ \A i \in 1..Len(q) : Append(q, on)[i] = q[i]
  BY AppendProperties, LenProperties

LEMMA TailUpdate ==
  ASSUME NEW q \in Seq(BOOLEAN), q # <<>>
  PROVE  /\ Tail(q) \in Seq(BOOLEAN) /\ Head(q) = q[1] /\ q[1] \in BOOLEAN
         /\ Len(q) \in Nat /\ Len(q) >= 1 /\ Len(Tail(q)) = Len(q) - 1
         /\ \A i \in 1..Len(q) - 1 : Tail(q)[i] = q[i + 1]
         /\ Tail(q) = <<>> <=> Len(q) = 1
<1>1. Len(q) \in Nat /\ Len(q) # 0  BY LenProperties, EmptySeq
<1>2. Tail(q) \in Seq(BOOLEAN) /\ Len(Tail(q)) = Len(q) - 1 /\ \A i \in 1..Len(q) - 1 : Tail(q)[i] = q[i + 1]
  BY HeadTailProperties, LenProperties
<1>3. Tail(q) = <<>> <=> Len(q) = 1
  <2> DEFINE rest == Tail(q)
  <2>1. rest \in Seq(BOOLEAN) /\ Len(rest) = Len(q) - 1  BY <1>2
  <2> HIDE DEF rest
  <2>2. Len(<<>>) = 0 /\ (rest # <<>> => Len(rest) # 0)  BY <2>1, EmptySeq
  <2>3. rest = <<>> <=> Len(rest) = 0  BY <2>2
  <2>4. Len(rest) = 0 <=> Len(q) = 1  BY <1>1, <2>1
  <2>5. rest = <<>> <=> Len(q) = 1  BY <2>3, <2>4
  <2> QED  BY <2>5 DEF rest
<1>4. Head(q) = q[1] /\ q[1] \in BOOLEAN  BY <1>1, HeadTailProperties, ElementOfSeq
<1> QED  BY <1>1, <1>2, <1>3, <1>4

-----------------------------------------------------------------------------
(* What a step does to a socket that types *)

\* Every screen is sent an update.
Sends(s, on) == \A v \in Screens : wire'[s][v] = Append(wire[s][v], on)
Silent(s) == \A v \in Screens : wire'[s][v] = wire[s][v]

Rests(s) == timer'[s] = timer[s] /\ Silent(s) /\ told'[s] = told[s] /\ (socket[s] = "lost" => socket'[s] = "lost")
Starts(s) == timer'[s] = "armed" /\ Sends(s, TRUE) /\ told'[s] = {v \in Screens : open[v]}
Stops(s) == timer'[s] = "none" /\ Sends(s, FALSE)
Dies(s) == timer'[s] = "none" /\ Silent(s) /\ socket'[s] = "lost"

\* A step of the sockets and their timers, for one of them and for all.
Turn(s) == Rests(s) \/ Starts(s) \/ Stops(s) \/ Dies(s)
Acts == Typed' /\ open' = open /\ sees' = sees /\ \A s \in Typers : Turn(s)

LEMMA ActsFollowed ==
  ASSUME Typed, NEW s \in Typers, NEW v \in Screens, Turn(s), Followed(s, v)
  PROVE  Followed(s, v)'
<1>1. wire[s][v] \in Seq(BOOLEAN)  BY DEF Typed
<1>2. CASE Rests(s)  BY <1>2 DEF Rests, Silent, Followed, Live
<1>3. CASE Starts(s)  BY <1>3 DEF Starts, Followed, Live
<1>4. CASE Stops(s)
  <2>1. /\ Len(wire'[s][v]) = Len(wire[s][v]) + 1 /\ Len(wire[s][v]) \in Nat
        /\ ~wire'[s][v][Len(wire[s][v]) + 1]
    BY <1>1, <1>4, AppendUpdate DEF Stops, Sends
  <2> QED  BY <2>1 DEF Followed
<1>5. CASE Dies(s)  BY <1>5 DEF Dies, Followed, Live
<1> QED  BY <1>2, <1>3, <1>4, <1>5 DEF Turn

LEMMA ActsBacked ==
  ASSUME Typed, Acts, NEW v \in Screens, Backed(v)
  PROVE  Backed(v)'
<1> SUFFICES ASSUME NEW u \in sees[v] PROVE \E s \in Typers : User(s) = u /\ Backs(s, v)'  BY DEF Backed, Acts
<1>1. PICK s \in Typers : User(s) = u /\ Backs(s, v)  BY DEF Backed
<1>2. wire[s][v] \in Seq(BOOLEAN)  BY DEF Typed
<1>3. CASE Rests(s)  BY <1>1, <1>3 DEF Rests, Silent, Backs, Live
<1>4. CASE Starts(s)  BY <1>1, <1>4 DEF Starts, Backs, Live
<1>5. CASE Stops(s)
  <2>1. /\ Len(wire'[s][v]) = Len(wire[s][v]) + 1 /\ Len(wire[s][v]) \in Nat
        /\ ~wire'[s][v][Len(wire[s][v]) + 1]
    BY <1>2, <1>5, AppendUpdate DEF Stops, Sends
  <2> QED  BY <1>1, <2>1 DEF Backs
<1>6. CASE Dies(s)  BY <1>1, <1>6 DEF Dies, Backs, Live
<1> QED  BY <1>3, <1>4, <1>5, <1>6 DEF Turn, Acts

LEMMA ActsShown ==
  ASSUME Typed, NEW s \in Typers, NEW v \in Screens, Turn(s), open' = open, sees' = sees, Shown(s, v)
  PROVE  Shown(s, v)'
<1>1. wire[s][v] \in Seq(BOOLEAN)  BY DEF Typed
<1>2. CASE Rests(s)  BY <1>2 DEF Rests, Silent, Shown, Sole
<1>3. CASE Starts(s)
  <2>1. wire'[s][v] # <<>> /\ wire'[s][v][Len(wire'[s][v])]
    <3>1. wire'[s][v] = Append(wire[s][v], TRUE)  BY <1>3 DEF Starts, Sends
    <3>2. ASSUME NEW q \in Seq(BOOLEAN) PROVE Append(q, TRUE) # <<>> /\ Append(q, TRUE)[Len(Append(q, TRUE))]
      BY AppendUpdate
    <3> QED  BY <1>1, <3>1, <3>2
  <2>2. v \in told'[s] => open'[v]  BY <1>3 DEF Starts
  <2> QED  BY <2>1, <2>2 DEF Shown
<1>4. CASE Stops(s)  BY <1>4 DEF Stops, Shown
<1>5. CASE Dies(s)  BY <1>5 DEF Dies, Shown
<1> QED  BY <1>2, <1>3, <1>4, <1>5 DEF Turn

LEMMA ActsTInv == ASSUME TInv, Acts PROVE TInv'
  BY ActsFollowed, ActsBacked, ActsShown DEF TInv, Acts, Closed

-----------------------------------------------------------------------------
(* The actions of the sockets *)

LEMMA InitTInv == Init => TInv
<1> SUFFICES ASSUME Init PROVE TInv  OBVIOUS
<1>1. <<>> \in Seq(BOOLEAN) /\ Len(<<>>) = 0  BY EmptySeq
<1>2. ASSUME NEW s \in Typers, NEW v \in Screens PROVE wire[s][v] = <<>>  BY DEF Init
<1>3. Typed
  <2>1. wire \in [Typers -> [Screens -> Seq(BOOLEAN)]]  BY <1>1 DEF Init
  <2> QED  BY <2>1 DEF Init, Typed
<1>4. ASSUME NEW v \in Screens PROVE Closed(v) /\ Backed(v)  BY DEF Init, Closed, Backed
<1>5. ASSUME NEW s \in Typers, NEW v \in Screens PROVE Followed(s, v) /\ Shown(s, v)
  <2>1. Followed(s, v)  BY <1>1, <1>2 DEF Followed
  <2>2. Shown(s, v)  BY DEF Init, Shown
  <2> QED  BY <2>1, <2>2
<1> QED  BY <1>3, <1>4, <1>5 DEF TInv

\* An update goes to every screen, and only from s.
LEMMA UpdateFacts ==
  ASSUME Typed, NEW s \in Typers, NEW on \in BOOLEAN, Update(s, on)
  PROVE  /\ wire' \in [Typers -> [Screens -> Seq(BOOLEAN)]]
         /\ Sends(s, on) /\ \A t \in Typers : t # s => wire'[t] = wire[t]
<1> DEFINE news == [v \in Screens |-> Append(wire[s][v], on)]
<1>1. ASSUME NEW v \in Screens PROVE Append(wire[s][v], on) \in Seq(BOOLEAN)
  <2>1. wire[s][v] \in Seq(BOOLEAN)  BY DEF Typed
  <2> QED  BY <2>1, AppendUpdate
<1>2. news \in [Screens -> Seq(BOOLEAN)] /\ \A v \in Screens : news[v] = Append(wire[s][v], on)  BY <1>1
<1>3. wire' = [wire EXCEPT ![s] = news]  BY DEF Update
<1> HIDE DEF news
<1>4. wire'[s] = news /\ wire' \in [Typers -> [Screens -> Seq(BOOLEAN)]]  BY <1>2, <1>3 DEF Typed
<1>5. \A t \in Typers : t # s => wire'[t] = wire[t]  BY <1>3 DEF Typed
<1> QED  BY <1>2, <1>4, <1>5 DEF Sends

\* What a step of s leaves to the other sockets.
Alone(s) == \A t \in Typers : t # s => timer'[t] = timer[t] /\ wire'[t] = wire[t] /\ told'[t] = told[t]

LEMMA StopTypingFacts ==
  ASSUME Typed, NEW s \in Typers, StopTyping(s), told' = told
  PROVE  /\ timer' \in [Typers -> {"none", "armed"}]
         /\ wire' \in [Typers -> [Screens -> Seq(BOOLEAN)]] /\ told' \in [Typers -> SUBSET Screens]
         /\ Alone(s)
         /\ timer'[s] = "none"
         /\ Stops(s) \/ (timer' = timer /\ wire' = wire)
<1>1. CASE timer[s] = "none"
  BY <1>1 DEF StopTyping, Typed, Alone
<1>2. CASE timer[s] # "none"
  <2>1. timer' = [timer EXCEPT ![s] = "none"] /\ Update(s, FALSE)  BY <1>2 DEF StopTyping, StoppedTimer
  <2>2. timer' \in [Typers -> {"none", "armed"}] /\ timer'[s] = "none" /\ \A t \in Typers : t # s => timer'[t] = timer[t]
    BY <2>1 DEF Typed
  <2> QED  BY <2>1, <2>2, UpdateFacts DEF Alone, Stops, Typed
<1> QED  BY <1>1, <1>2

\* The socket of s may change, but nobody comes back from a server that died.
Stays(s) ==
  /\ socket' \in [Typers -> {"joining", "in", "out", "gone", "lost"}]
  /\ \A t \in Typers : (t # s => socket'[t] = socket[t]) /\ (socket[t] = "lost" => socket'[t] = "lost")

LEMMA StopTypingActs ==
  ASSUME Typed, NEW s \in Typers, StopTyping(s), told' = told, open' = open, sees' = sees, Stays(s)
  PROVE  Acts
<1>1. Typed'  BY StopTypingFacts DEF Typed, Stays
<1>2. ASSUME NEW t \in Typers, t # s PROVE Rests(t)
  BY <1>2, StopTypingFacts DEF Alone, Stays, Rests, Silent
<1>3. Stops(s) \/ Rests(s)  BY StopTypingFacts DEF Stays, Rests, Silent
<1> QED  BY <1>1, <1>2, <1>3 DEF Acts, Turn

LEMMA StartTypingActs ==
  ASSUME Typed, NEW s \in Typers, StartTyping(s), open' = open, sees' = sees, Stays(s)
  PROVE  Acts
<1>1. timer' = [timer EXCEPT ![s] = "armed"]  BY DEF StartTyping, Extended
<1>2. timer' \in [Typers -> {"none", "armed"}] /\ timer'[s] = "armed" /\ \A t \in Typers : t # s => timer'[t] = timer[t]
  BY <1>1 DEF Typed
<1>3. CASE timer[s] = "none"
  <2>1. Update(s, TRUE) /\ told' = [told EXCEPT ![s] = {v \in Screens : open[v]}]  BY <1>3 DEF StartTyping
  <2>2. /\ told' \in [Typers -> SUBSET Screens] /\ told'[s] = {v \in Screens : open[v]}
        /\ \A t \in Typers : t # s => told'[t] = told[t]
    BY <2>1 DEF Typed
  <2>3. Typed'  BY <1>2, <2>1, <2>2, UpdateFacts DEF Typed, Stays
  <2>4. ASSUME NEW t \in Typers, t # s PROVE Rests(t)
    BY <1>2, <2>1, <2>2, <2>4, UpdateFacts DEF Stays, Rests, Silent
  <2>5. Starts(s)  BY <1>2, <2>1, <2>2, UpdateFacts DEF Starts
  <2> QED  BY <2>3, <2>4, <2>5 DEF Acts, Turn
<1>4. CASE timer[s] # "none"
  <2>1. wire' = wire /\ told' = told  BY <1>4 DEF StartTyping
  <2>2. timer[s] = "armed"  BY <1>4 DEF Typed
  <2>3. Typed'  BY <1>2, <2>1 DEF Typed, Stays
  <2>4. ASSUME NEW t \in Typers PROVE Rests(t)
    BY <1>2, <2>1, <2>2 DEF Stays, Rests, Silent
  <2> QED  BY <2>3, <2>4 DEF Acts, Turn
<1> QED  BY <1>3, <1>4

\* A step that concerns neither timers nor updates.
LEMMA RestActs ==
  ASSUME Typed, NEW s \in Typers, timer' = timer, wire' = wire, told' = told, open' = open, sees' = sees, Stays(s)
  PROVE  Acts
  BY DEF Typed, Acts, Turn, Rests, Silent, Stays

\* Setting the socket of s, unless its server has died.
LEMMA SocketSet ==
  ASSUME Typed, NEW s \in Typers, NEW c \in {"joining", "in", "out", "gone", "lost"},
         socket' = [socket EXCEPT ![s] = c], socket[s] # "lost" \/ c = "lost"
  PROVE  Stays(s)
  BY DEF Typed, Stays
LEMMA SocketKept == ASSUME Typed, NEW s \in Typers, socket' = socket PROVE Stays(s)
  BY DEF Typed, Stays

LEMMA HandleActs == ASSUME Typed, NEW s \in Typers, Handle(s) PROVE Acts
<1>1. open' = open /\ sees' = sees  BY DEF Handle, screens
<1>2. CASE StartTyping(s) /\ socket' = socket
  BY <1>1, <1>2, SocketKept, StartTypingActs
<1>3. CASE StopTyping(s) /\ socket' = socket /\ told' = told
  BY <1>1, <1>3, SocketKept, StopTypingActs
<1>4. CASE socket' = socket /\ timer' = timer /\ wire' = wire /\ told' = told
  BY <1>1, <1>4, SocketKept, RestActs
<1>5. CASE StopTyping(s) /\ told' = told /\ socket' = [socket EXCEPT ![s] = IF Connected(s) THEN "out" ELSE @]
  <2>1. Stays(s)  BY <1>5 DEF Stays, Typed, Connected
  <2> QED  BY <1>1, <1>5, <2>1, StopTypingActs
<1> QED  BY <1>2, <1>3, <1>4, <1>5 DEF Handle

LEMMA CrashActs == ASSUME Typed, NEW s \in Typers, Crash(s) PROVE Acts
<1>1. /\ socket' = [socket EXCEPT ![s] = "lost"] /\ timer' = [timer EXCEPT ![s] = "none"]
      /\ wire' = wire /\ open' = open /\ sees' = sees /\ told' = told
  BY DEF Crash, screens
<1>2. Stays(s) /\ socket'[s] = "lost"  BY <1>1, SocketSet DEF Typed
<1>3. timer' \in [Typers -> {"none", "armed"}] /\ timer'[s] = "none" /\ \A t \in Typers : t # s => timer'[t] = timer[t]
  BY <1>1 DEF Typed
<1>4. Typed'  BY <1>1, <1>2, <1>3 DEF Typed, Stays
<1>5. ASSUME NEW t \in Typers, t # s PROVE Rests(t)
  BY <1>1, <1>2, <1>3, <1>5 DEF Rests, Silent, Stays
<1>6. Dies(s)  BY <1>1, <1>2, <1>3 DEF Dies, Silent
<1> QED  BY <1>1, <1>4, <1>5, <1>6 DEF Acts, Turn

LEMMA SocketActs ==
  ASSUME Typed, NEW s \in Typers,
         \/ Elapse(s) \/ Enter(s) \/ EnterFails(s) \/ Handle(s)
         \/ Send(s) \/ Saved(s) \/ NotSaved(s) \/ Disconnect(s) \/ Crash(s)
         \/ \E event \in {"true", "false", "leave"} : Emit(s, event)
  PROVE  Acts
<1>1. CASE Elapse(s)
  BY <1>1, SocketKept, StopTypingActs DEF Elapse, screens
<1>2. CASE Enter(s)
  <2>1. Stays(s)  BY <1>2 DEF Enter, Stays, Typed
  <2> QED  BY <1>2, <2>1, RestActs DEF Enter, screens
<1>3. CASE EnterFails(s)
  <2>1. Stays(s)  BY <1>3 DEF EnterFails, Stays, Typed
  <2> QED  BY <1>3, <2>1, RestActs DEF EnterFails, screens
<1>4. CASE Handle(s)  BY <1>4, HandleActs
<1>5. CASE Send(s) \/ NotSaved(s)
  BY <1>5, SocketKept, RestActs DEF Send, NotSaved, screens
<1>6. CASE Saved(s)
  BY <1>6, SocketKept, StopTypingActs DEF Saved, screens
<1>7. CASE Disconnect(s)
  <2>1. Stays(s)  BY <1>7 DEF Disconnect, Connected, Stays, Typed
  <2> QED  BY <1>7, <2>1, StopTypingActs DEF Disconnect, screens
<1>8. CASE Crash(s)  BY <1>8, CrashActs
<1>9. ASSUME NEW event, Emit(s, event) PROVE Acts
  BY <1>9, SocketKept, RestActs DEF Emit, screens
<1> QED  BY <1>1, <1>2, <1>3, <1>4, <1>5, <1>6, <1>7, <1>8, <1>9, Zenon

-----------------------------------------------------------------------------
(* The screens *)

\* An update arrives at v: what the other sockets have on the way stays as it is.
LEMMA DeliverFacts ==
  ASSUME Typed, NEW s \in Typers, NEW v \in Screens, Deliver(s, v)
  PROVE  /\ Typed'
         /\ wire[s][v] # <<>> /\ wire'[s][v] = Tail(wire[s][v]) /\ wire[s][v] \in Seq(BOOLEAN)
         /\ timer' = timer /\ socket' = socket /\ told' = told /\ open' = open
         /\ \A t \in Typers, w \in Screens : t # s \/ w # v => wire'[t][w] = wire[t][w]
         /\ \A w \in Screens : w # v => sees'[w] = sees[w]
         /\ ~open[v] => sees'[v] = sees[v]
         /\ open[v] /\ wire[s][v][1] => sees'[v] = sees[v] \cup {User(s)}
         /\ open[v] /\ ~wire[s][v][1] => sees'[v] = sees[v] \ {User(s)}
<1>1. /\ wire[s][v] # <<>> /\ wire' = [wire EXCEPT ![s][v] = Tail(wire[s][v])]
      /\ timer' = timer /\ socket' = socket /\ told' = told /\ open' = open
  BY DEF Deliver
<1>2. wire[s][v] \in Seq(BOOLEAN)  BY DEF Typed
<1>3. Tail(wire[s][v]) \in Seq(BOOLEAN) /\ Head(wire[s][v]) = wire[s][v][1]  BY <1>1, <1>2, TailUpdate
<1> DEFINE rest == Tail(wire[s][v])
<1>4. rest \in Seq(BOOLEAN) /\ wire' = [wire EXCEPT ![s][v] = rest]  BY <1>1, <1>3
<1> DEFINE now == IF ~open[v] THEN sees[v] ELSE IF wire[s][v][1] THEN sees[v] \cup {User(s)} ELSE sees[v] \ {User(s)}
<1>5. sees' = [sees EXCEPT ![v] = now]  BY <1>3 DEF Deliver
<1>6. now \in SUBSET Names
  <2>1. sees[v] \in SUBSET Names /\ User(s) \in Names  BY DEF Typed, Names
  <2> QED  BY <2>1
<1>7. /\ ~open[v] => now = sees[v]
      /\ open[v] /\ wire[s][v][1] => now = sees[v] \cup {User(s)}
      /\ open[v] /\ ~wire[s][v][1] => now = sees[v] \ {User(s)}
  OBVIOUS
<1> HIDE DEF rest, now
<1>8. /\ wire' \in [Typers -> [Screens -> Seq(BOOLEAN)]] /\ wire'[s][v] = rest
      /\ \A t \in Typers, w \in Screens : t # s \/ w # v => wire'[t][w] = wire[t][w]
  BY <1>4 DEF Typed
<1>9. sees' \in [Screens -> SUBSET Names] /\ sees'[v] = now /\ \A w \in Screens : w # v => sees'[w] = sees[w]
  BY <1>5, <1>6 DEF Typed
<1>10. Typed'  BY <1>1, <1>8, <1>9 DEF Typed
<1> QED  BY <1>1, <1>2, <1>7, <1>8, <1>9, <1>10 DEF rest

LEMMA DeliverTInv == ASSUME TInv, NEW s \in Typers, NEW v \in Screens, Deliver(s, v) PROVE TInv'
<1>1. Typed  BY DEF TInv
<1> DEFINE q == wire[s][v]
           r == Tail(wire[s][v])
<1>2. /\ q \in Seq(BOOLEAN) /\ q # <<>> /\ wire'[s][v] = r
  BY <1>1, DeliverFacts
<1>3. /\ q[1] \in BOOLEAN /\ Len(q) \in Nat /\ Len(q) >= 1 /\ Len(r) = Len(q) - 1
      /\ \A i \in 1..Len(q) - 1 : r[i] = q[i + 1]
      /\ r = <<>> <=> Len(q) = 1
  BY <1>2, TailUpdate
<1>4. \A t \in Typers : Live(t)' <=> Live(t)  BY <1>1, DeliverFacts DEF Live
<1> HIDE DEF q, r
<1>5. ASSUME NEW t \in Typers, NEW w \in Screens, t # s \/ w # v
      PROVE  wire'[t][w] = wire[t][w]
  BY <1>1, <1>5, DeliverFacts
<1>6. Followed(s, v)'
  <2> SUFFICES ASSUME NEW i \in 1..Len(r), r[i], ~Live(s)
               PROVE  \E j \in 1..Len(r) : j > i /\ ~r[j]
    BY <1>2, <1>4 DEF Followed
  <2>1. i + 1 \in 1..Len(q) /\ q[i + 1]  BY <1>3
  <2>2. PICK j \in 1..Len(q) : j > i + 1 /\ ~q[j]  BY <2>1 DEF TInv, Followed, q
  <2>3. j - 1 \in 1..Len(r) /\ j - 1 > i /\ r[j - 1] = q[j - 1 + 1] /\ j - 1 + 1 = j  BY <1>3, <2>2
  <2> QED  BY <2>2, <2>3
<1>7. \A t \in Typers, w \in Screens : Followed(t, w)'
  <2> SUFFICES ASSUME NEW t \in Typers, NEW w \in Screens, t # s \/ w # v PROVE Followed(t, w)'
    BY <1>6
  <2>1. Followed(t, w)  BY DEF TInv
  <2> QED  BY <1>4, <1>5, <2>1 DEF Followed
<1>8. \A w \in Screens : Backed(w)'
  <2> SUFFICES ASSUME NEW w \in Screens, NEW u \in sees'[w] PROVE \E t \in Typers : User(t) = u /\ Backs(t, w)'
    BY DEF Backed
  <2>1. CASE u \in sees[w] /\ (w # v \/ u # User(s))
    <3>1. PICK t \in Typers : User(t) = u /\ Backs(t, w)  BY <2>1 DEF TInv, Backed
    <3>2. t # s \/ w # v  BY <2>1, <3>1
    <3>3. wire'[t][w] = wire[t][w]  BY <1>5, <3>2
    <3>4. Backs(t, w)'  BY <1>4, <3>1, <3>3 DEF Backs
    <3> QED  BY <3>1, <3>4
  <2>2. CASE w = v /\ u = User(s) /\ open[v]
    <3>1. q[1]
      <4> SUFFICES ASSUME ~q[1] PROVE FALSE  OBVIOUS
      <4>1. sees'[v] = sees[v] \ {User(s)}  BY <1>1, <2>2, DeliverFacts DEF q
      <4> QED  BY <2>2, <4>1
    <3>2. CASE Live(s)
      BY <1>4, <2>2, <3>2 DEF Backs
    <3>3. CASE ~Live(s)
      <4>1. PICK j \in 1..Len(q) : j > 1 /\ ~q[j]  BY <1>3, <3>1, <3>3 DEF TInv, Followed, q
      <4>2. j - 1 \in 1..Len(r) /\ r[j - 1] = q[j - 1 + 1] /\ j - 1 + 1 = j  BY <1>3, <4>1
      <4>3. Backs(s, v)'  BY <1>2, <4>1, <4>2 DEF Backs
      <4> QED  BY <2>2, <4>3
    <3> QED  BY <3>2, <3>3
  <2>3. CASE w = v /\ ~open[v]
    <3>1. sees'[v] = sees[v] /\ sees[v] = {}  BY <1>1, <2>3, DeliverFacts DEF TInv, Closed
    <3> QED  BY <2>3, <3>1
  <2>4. u \in sees[w] \/ (w = v /\ u = User(s))
    BY <1>1, <1>3, DeliverFacts DEF q
  <2> QED  BY <2>1, <2>2, <2>3, <2>4
<1>9. \A w \in Screens : Closed(w)'
  <2> SUFFICES ASSUME NEW w \in Screens, ~open[w] PROVE sees'[w] = {}
    BY <1>1, DeliverFacts DEF Closed
  <2> QED  BY <1>1, DeliverFacts DEF TInv, Closed
<1>10. Shown(s, v)'
  <2> SUFFICES ASSUME timer[s] = "armed", Sole(s), v \in told[s]
               PROVE  open[v] /\ IF r = <<>> THEN User(s) \in sees'[v] ELSE r[Len(r)]
    BY <1>1, <1>2, DeliverFacts DEF Shown, Sole
  <2>1. open[v] /\ q[Len(q)]  BY <1>2 DEF TInv, Shown, q
  <2>2. CASE r = <<>>
    <3>1. q[1]  BY <1>3, <2>1, <2>2
    <3>2. sees'[v] = sees[v] \cup {User(s)}  BY <1>1, <2>1, <3>1, DeliverFacts DEF q
    <3> QED  BY <2>1, <2>2, <3>2
  <2>3. CASE r # <<>>
    <3>1. Len(q) > 1 /\ Len(r) = Len(q) - 1  BY <1>3, <2>3
    <3>2. Len(r) \in 1..Len(q) - 1 /\ Len(r) + 1 = Len(q)  BY <1>3, <3>1
    <3> QED  BY <1>3, <2>1, <2>3, <3>2
  <2> QED  BY <2>2, <2>3
<1>11. \A t \in Typers, w \in Screens : Shown(t, w)'
  <2> SUFFICES ASSUME NEW t \in Typers, NEW w \in Screens, t # s \/ w # v PROVE Shown(t, w)'
    BY <1>10
  <2>1. Shown(t, w) /\ wire'[t][w] = wire[t][w]  BY <1>5 DEF TInv
  <2>2. timer' = timer /\ told' = told /\ open' = open  BY <1>1, DeliverFacts
  <2>3. CASE w # v
    <3>1. sees'[w] = sees[w]  BY <1>1, <2>3, DeliverFacts
    <3> QED  BY <2>1, <2>2, <3>1 DEF Shown, Sole
  <2>4. CASE w = v /\ t # s
    <3>1. Sole(t) => User(t) # User(s)  BY <2>4 DEF Sole
    <3>2. User(t) # User(s) /\ User(t) \in sees[v] => User(t) \in sees'[v]
      BY <1>1, <1>3, DeliverFacts DEF q
    <3> QED  BY <2>1, <2>2, <2>4, <3>1, <3>2 DEF Shown, Sole
  <2> QED  BY <2>3, <2>4
<1> QED  BY <1>1, <1>7, <1>8, <1>9, <1>11, DeliverFacts DEF TInv

\* A screen that opens or closes the conversation shows nobody, and was told of nobody.
LEMMA LookTInv == ASSUME TInv, NEW v \in Screens, Look(v) PROVE TInv'
<1>1. Typed  BY DEF TInv
<1>2. /\ open' = [open EXCEPT ![v] = ~open[v]] /\ sees' = [sees EXCEPT ![v] = {}]
      /\ told' = [s \in Typers |-> told[s] \ {v}]
      /\ timer' = timer /\ socket' = socket /\ wire' = wire
  BY DEF Look
<1>3. /\ open' \in [Screens -> BOOLEAN] /\ \A w \in Screens : w # v => open'[w] = open[w]
      /\ sees' \in [Screens -> SUBSET Names] /\ sees'[v] = {} /\ \A w \in Screens : w # v => sees'[w] = sees[w]
      /\ told' \in [Typers -> SUBSET Screens] /\ \A s \in Typers : told'[s] = told[s] \ {v}
  BY <1>1, <1>2 DEF Typed
<1>4. Typed'  BY <1>1, <1>2, <1>3 DEF Typed
<1>5. ASSUME NEW w \in Screens PROVE Closed(w)' /\ Backed(w)'
  <2>1. CASE w = v  BY <1>3, <2>1 DEF Closed, Backed
  <2>2. CASE w # v
    <3>1. open'[w] = open[w] /\ sees'[w] = sees[w]  BY <1>3, <2>2
    <3>2. Closed(w) /\ Backed(w)  BY DEF TInv
    <3> QED  BY <1>2, <3>1, <3>2 DEF Closed, Backed, Backs, Live
  <2> QED  BY <2>1, <2>2
<1>6. ASSUME NEW s \in Typers, NEW w \in Screens PROVE Followed(s, w)' /\ Shown(s, w)'
  <2>1. Followed(s, w) /\ Shown(s, w)  BY DEF TInv
  <2>2. Followed(s, w)'  BY <1>2, <2>1 DEF Followed, Live
  <2>3. CASE w = v  BY <1>3, <2>2, <2>3 DEF Shown
  <2>4. CASE w # v
    <3>1. open'[w] = open[w] /\ sees'[w] = sees[w] /\ (w \in told'[s] => w \in told[s])  BY <1>3, <2>4
    <3> QED  BY <1>2, <2>1, <2>2, <3>1 DEF Shown, Sole
  <2> QED  BY <2>3, <2>4
<1> QED  BY <1>4, <1>5, <1>6 DEF TInv

-----------------------------------------------------------------------------

LEMMA StepTInv == TInv /\ [Next]_vars => TInv'
<1> SUFFICES ASSUME TInv, [Next]_vars PROVE TInv'  OBVIOUS
<1>1. Typed  BY DEF TInv
<1>2. ASSUME NEW s \in Typers,
             \/ Elapse(s) \/ Enter(s) \/ EnterFails(s) \/ Handle(s)
             \/ Send(s) \/ Saved(s) \/ NotSaved(s) \/ Disconnect(s) \/ Crash(s)
             \/ \E event \in {"true", "false", "leave"} : Emit(s, event)
      PROVE  TInv'
  <2>1. Acts  BY <1>1, <1>2, SocketActs
  <2> QED  BY <2>1, ActsTInv
<1>3. ASSUME NEW s \in Typers, NEW v \in Screens, Deliver(s, v) PROVE TInv'  BY <1>3, DeliverTInv
<1>4. ASSUME NEW v \in Screens, Look(v) PROVE TInv'  BY <1>4, LookTInv
<1>5. CASE UNCHANGED vars
  BY <1>5 DEF vars, screens, TInv, Typed, Closed, Backed, Backs, Followed, Shown, Live, Sole
<1> QED  BY <1>2, <1>3, <1>4, <1>5, Zenon DEF Next

LEMMA AlwaysTInv == Spec => []TInv
<1> HIDE DEF TInv, Init, Next
<1> QED  BY InitTInv, StepTInv, PTL DEF Spec

-----------------------------------------------------------------------------
(* Type correctness *)

Events == {"true", "false", "leave"}

\* A message being sent was an event; what has a bound has not passed it.
Bounded ==
  /\ inbox \in [Typers -> Seq(Events)] /\ sends \in [Typers -> Nat]
  /\ events \in 0..MaxEvents /\ \A s \in Typers : sends[s] <= events
  /\ looks \in [Screens -> 0..MaxLooks] /\ faults \in 0..MaxFaults

\* A timer runs only for a socket that listens: it is the last to know that it left.
Listened == \A s \in Typers : timer[s] # "none" => Listening(s)

LEMMA InitBounded == ASSUME Init PROVE Bounded /\ Listened
<1>1. <<>> \in Seq(Events)  BY EmptySeq
<1>2. inbox \in [Typers -> Seq(Events)]  BY <1>1 DEF Init
<1> QED  BY <1>2, TypingAssumption DEF Init, Bounded, Listened

LEMMA NextBounded == ASSUME Bounded, Next PROVE Bounded'
<1>1. CASE \E s \in Typers : Handle(s)
  <2>1. PICK s \in Typers : Handle(s)  BY <1>1
  <2>2. inbox[s] \in Seq(Events) /\ inbox[s] # <<>>  BY <2>1 DEF Handle, Bounded
  <2>3. Tail(inbox[s]) \in Seq(Events)  BY <2>2, HeadTailProperties
  <2>4. inbox' = [inbox EXCEPT ![s] = Tail(inbox[s])]  BY <2>1 DEF Handle
  <2>5. inbox' \in [Typers -> Seq(Events)]  BY <2>3, <2>4 DEF Bounded
  <2>6. sends' = sends /\ events' = events /\ looks' = looks /\ faults' = faults  BY <2>1 DEF Handle, screens
  <2> QED  BY <2>5, <2>6 DEF Bounded
<1>2. CASE \E s \in Typers, event \in Events : Emit(s, event)
  <2>1. PICK s \in Typers, event \in Events : Emit(s, event)  BY <1>2
  <2>2. inbox[s] \in Seq(Events)  BY DEF Bounded
  <2>3. Append(inbox[s], event) \in Seq(Events)  BY <2>2, AppendProperties
  <2>4. inbox' = [inbox EXCEPT ![s] = Append(inbox[s], event)]  BY <2>1 DEF Emit
  <2>5. inbox' \in [Typers -> Seq(Events)]  BY <2>3, <2>4 DEF Bounded
  <2>6. /\ sends' = sends /\ events < MaxEvents /\ events' = events + 1
        /\ looks' = looks /\ faults' = faults
    BY <2>1 DEF Emit, screens
  <2> QED  BY <2>5, <2>6, TypingAssumption DEF Bounded
<1>3. CASE \E s \in Typers : Send(s) \/ Saved(s) \/ NotSaved(s)
  <2>1. PICK s \in Typers : Send(s) \/ Saved(s) \/ NotSaved(s)  BY <1>3
  <2>2. inbox' = inbox /\ looks' = looks /\ faults' = faults  BY <2>1 DEF Send, Saved, NotSaved, screens
  <2>3. CASE Send(s)
    <3>1. events < MaxEvents /\ events' = events + 1 /\ sends' = [sends EXCEPT ![s] = @ + 1]  BY <2>3 DEF Send
    <3> QED  BY <2>2, <3>1, TypingAssumption DEF Bounded
  <2>4. CASE Saved(s) \/ NotSaved(s)
    <3>1. sends[s] > 0 /\ events' = events /\ sends' = [sends EXCEPT ![s] = @ - 1]  BY <2>4 DEF Saved, NotSaved
    <3> QED  BY <2>2, <3>1 DEF Bounded
  <2> QED  BY <2>1, <2>3, <2>4
<1>4. CASE \E s \in Typers : EnterFails(s) \/ Crash(s)
  <2>1. PICK s \in Typers : EnterFails(s) \/ Crash(s)  BY <1>4
  <2>2. events' = events /\ looks' = looks /\ faults < MaxFaults /\ faults' = faults + 1
    BY <2>1 DEF EnterFails, Crash, Fault, screens
  <2>3. faults' \in 0..MaxFaults  BY <2>2, TypingAssumption DEF Bounded
  <2>4. CASE inbox' = inbox /\ sends' = sends  BY <2>2, <2>3, <2>4 DEF Bounded
  <2>5. CASE inbox' = [inbox EXCEPT ![s] = <<>>] /\ sends' = [sends EXCEPT ![s] = 0]
    <3>1. inbox' \in [Typers -> Seq(Events)]  BY <2>5, EmptySeq DEF Bounded
    <3>2. sends' \in [Typers -> Nat] /\ \A t \in Typers : sends'[t] <= events  BY <2>5 DEF Bounded
    <3> QED  BY <2>2, <2>3, <3>1, <3>2 DEF Bounded
  <2> QED  BY <2>1, <2>4, <2>5 DEF EnterFails, Crash
<1>5. CASE \E s \in Typers : Elapse(s) \/ Enter(s) \/ Disconnect(s) \/ \E v \in Screens : Deliver(s, v)
  <2>1. /\ inbox' = inbox /\ sends' = sends /\ events' = events /\ looks' = looks /\ faults' = faults
    BY <1>5 DEF Elapse, Enter, Disconnect, Deliver, screens
  <2> QED  BY <2>1 DEF Bounded
<1>6. CASE \E v \in Screens : Look(v)
  <2>1. PICK v \in Screens : Look(v)  BY <1>6
  <2>2. /\ inbox' = inbox /\ sends' = sends /\ events' = events /\ faults' = faults
        /\ looks[v] < MaxLooks /\ looks' = [looks EXCEPT ![v] = @ + 1]
    BY <2>1 DEF Look
  <2>3. looks' \in [Screens -> 0..MaxLooks]  BY <2>2, TypingAssumption DEF Bounded
  <2> QED  BY <2>2, <2>3 DEF Bounded
<1> QED  BY <1>1, <1>2, <1>3, <1>4, <1>5, <1>6, Zenon DEF Next, Events

\* The timer of s is as it was, with the socket where it was, or off; and those of others are untouched.
LEMMA NextListened == ASSUME Typed, Listened, Next PROVE Listened'
<1> DEFINE Same(t) == timer'[t] = timer[t] /\ socket'[t] = socket[t]
           Off(t) == timer'[t] = "none"
           In(t) == socket'[t] = "in"
<1>1. ASSUME \A t \in Typers : Same(t) \/ Off(t) \/ In(t) PROVE Listened'
  BY <1>1 DEF Listened, Listening
<1>2. ASSUME NEW s \in Typers, StopTyping(s), \A t \in Typers : t # s => socket'[t] = socket[t]
      PROVE  \A t \in Typers : Same(t) \/ Off(t)
  <2>1. timer'[s] = "none" /\ \A t \in Typers : t # s => timer'[t] = timer[t]
    BY <1>2 DEF StopTyping, StoppedTimer, Typed
  <2> QED  BY <1>2, <2>1
<1>3. ASSUME NEW s \in Typers, NEW w, socket' = [socket EXCEPT ![s] = w]
      PROVE  \A t \in Typers : t # s => socket'[t] = socket[t]
  BY <1>3 DEF Typed
<1>4. ASSUME NEW s \in Typers, Elapse(s) \/ Saved(s) \/ Disconnect(s) PROVE Listened'
  <2>1. StopTyping(s) /\ (socket' = socket \/ socket' = [socket EXCEPT ![s] = "gone"])
    BY <1>4 DEF Elapse, Saved, Disconnect
  <2>2. \A t \in Typers : t # s => socket'[t] = socket[t]  BY <1>3, <2>1
  <2> QED  BY <1>1, <1>2, <2>1, <2>2
<1>5. ASSUME NEW s \in Typers, Handle(s) PROVE Listened'
  <2>1. CASE StopTyping(s) /\ (socket' = socket \/ socket' = [socket EXCEPT ![s] = IF Connected(s) THEN "out" ELSE @])
    <3>1. \A t \in Typers : t # s => socket'[t] = socket[t]  BY <2>1 DEF Typed
    <3> QED  BY <1>1, <1>2, <2>1, <3>1
  <2>2. CASE Listening(s) /\ StartTyping(s) /\ socket' = socket
    <3>1. timer' = [timer EXCEPT ![s] = "armed"]  BY <2>2 DEF StartTyping, Extended
    <3>2. In(s) /\ \A t \in Typers : t # s => Same(t)  BY <2>2, <3>1 DEF Listening, Typed
    <3> QED  BY <1>1, <3>2
  <2>3. CASE timer' = timer /\ socket' = socket  BY <1>1, <2>3
  <2> QED  BY <1>5, <2>1, <2>2, <2>3 DEF Handle
<1>6. ASSUME NEW s \in Typers, Enter(s) \/ EnterFails(s) PROVE Listened'
  <2>1. timer' = timer /\ (socket' = [socket EXCEPT ![s] = "in"] \/ socket' = [socket EXCEPT ![s] = "out"])
        /\ ~Listening(s)
    BY <1>6 DEF Enter, EnterFails, Listening
  <2>2. \A t \in Typers : t # s => Same(t)  BY <1>3, <2>1
  <2>3. Off(s)  BY <2>1 DEF Listened
  <2> QED  BY <1>1, <2>2, <2>3
<1>7. ASSUME NEW s \in Typers, Crash(s) PROVE Listened'
  <2>1. timer' = [timer EXCEPT ![s] = "none"] /\ socket' = [socket EXCEPT ![s] = "lost"]  BY <1>7 DEF Crash
  <2>2. Off(s) /\ \A t \in Typers : t # s => Same(t)  BY <2>1 DEF Typed
  <2> QED  BY <1>1, <2>2
<1>8. CASE timer' = timer /\ socket' = socket  BY <1>1, <1>8
<1>9. ASSUME NEW s \in Typers,
             \/ Send(s) \/ NotSaved(s) \/ \E event \in Events : Emit(s, event)
             \/ \E v \in Screens : Deliver(s, v)
      PROVE  timer' = timer /\ socket' = socket
  BY <1>9 DEF Send, NotSaved, Emit, Deliver
<1>10. ASSUME NEW v \in Screens, Look(v) PROVE timer' = timer /\ socket' = socket
  BY <1>10 DEF Look
<1> HIDE DEF Same, Off, In
<1> QED  BY <1>4, <1>5, <1>6, <1>7, <1>8, <1>9, <1>10, Zenon DEF Next, Events

LEMMA StepBounded == TInv /\ Bounded /\ Listened /\ [Next]_vars => Bounded' /\ Listened'
<1> SUFFICES ASSUME TInv, Bounded, Listened, [Next]_vars PROVE Bounded' /\ Listened'  OBVIOUS
<1>1. Typed  BY DEF TInv
<1>2. CASE UNCHANGED vars  BY <1>2 DEF vars, screens, Bounded, Listened, Listening
<1> QED  BY <1>1, <1>2, NextBounded, NextListened

-----------------------------------------------------------------------------
(* The theorems *)

\* In every state of the indicator the tables are well typed, and a timer runs only for a
\* socket that is in the room: who leaves, goes or is lost has stopped.
THEOREM TypingTyped == Spec => []TypeOK
<1>1. Init => Bounded /\ Listened  BY InitBounded
<1>2. TInv /\ Bounded /\ Listened /\ [Next]_vars => Bounded' /\ Listened'  BY StepBounded
<1>3. TInv /\ Bounded /\ Listened => TypeOK
  <2> SUFFICES ASSUME TInv, Bounded, Listened PROVE TypeOK  OBVIOUS
  <2>1. sends \in [Typers -> 0..MaxEvents]  BY TypingAssumption DEF Bounded
  <2>2. \A s \in Typers : inbox[s] \in Seq({"true", "false", "leave"})  BY DEF Bounded, Events
  <2>3. \A s \in Typers, v \in Screens : wire[s][v] \in Seq(BOOLEAN)  BY DEF TInv, Typed
  <2> QED  BY <2>1, <2>2, <2>3 DEF TInv, Typed, Names, Bounded, Listened, Listening, TypeOK
<1> HIDE DEF TInv, Bounded, Listened, TypeOK, Init, Next
<1> QED  BY AlwaysTInv, <1>1, <1>2, <1>3, PTL DEF Spec

\* While a screen shows a user as typing, a timer of one of his sockets runs, or the stop is
\* on its way, or the server of the socket died.
THEOREM NobodyTypesForNothing == Spec => []IndicatorBacked
<1>1. TInv => IndicatorBacked
  <2> SUFFICES ASSUME TInv, NEW v \in Screens, NEW u \in sees[v]
               PROVE  \E s \in Typers : /\ User(s) = u
                                        /\ timer[s] = "armed" \/ FALSE \in Range(wire[s][v]) \/ socket[s] = "lost"
    BY DEF IndicatorBacked
  <2>1. PICK s \in Typers : User(s) = u /\ Backs(s, v)  BY DEF TInv, Backed
  <2>2. wire[s][v] \in Seq(BOOLEAN)  BY DEF TInv, Typed
  <2>3. ASSUME NEW i \in 1..Len(wire[s][v]), ~wire[s][v][i] PROVE FALSE \in Range(wire[s][v])
    <3>1. i \in DOMAIN wire[s][v] /\ wire[s][v][i] \in BOOLEAN  BY <2>2, LenProperties, ElementOfSeq
    <3> QED  BY <2>3, <3>1 DEF Range
  <2> QED  BY <2>1, <2>3 DEF Backs, Live
<1> HIDE DEF TInv, IndicatorBacked
<1> QED  BY <1>1, AlwaysTInv, PTL

\* Once the updates have arrived, a screen that was open when the typing began shows it as
\* long as it lasts, for a user with one socket.
THEOREM TypingIsShown == Spec => []ShownWhileTyping
<1>1. TInv => ShownWhileTyping
  <2> SUFFICES ASSUME TInv, NEW s \in Typers, timer[s] = "armed", Sole(s), NEW v \in told[s], wire[s][v] = <<>>
               PROVE  User(s) \in sees[v]
    BY DEF ShownWhileTyping, Sole
  <2>1. v \in Screens  BY DEF TInv, Typed
  <2> QED  BY <2>1 DEF TInv, Shown
<1> HIDE DEF TInv, ShownWhileTyping
<1> QED  BY <1>1, AlwaysTInv, PTL
=============================================================================

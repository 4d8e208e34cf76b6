-------------------------------- MODULE Typing --------------------------------
(***************************************************************************)
(* The typing indicator of one conversation: typing:set, the timers of     *)
(* src/modules/chat/chat.gateway.ts, and what the other screens show.      *)
(*                                                                         *)
(* A socket keeps one timer per conversation; only the start and the stop  *)
(* are broadcast, a ping in between extends the timer.  The handlers of    *)
(* one socket wait for `ready`, so events pile up in `inbox` until a       *)
(* customer's socket has joined its room, or failed to.  Updates of one    *)
(* socket reach a screen in order, those of two sockets in any order; who  *)
(* is in the room is looked up when an update arrives.  How long           *)
(* TYPING_TIMEOUT_MS is is not counted: an armed timer fires at any        *)
(* moment.  "Variant" marks a slip that a property notices.                *)
(***************************************************************************)
EXTENDS FiniteSets, Sequences, Functions, Integers

CONSTANTS
  Typers,    \* sockets that type
  User(_),   \* socket -> its user
  Screens,   \* sockets that only watch
  MaxEvents, \* bound: events in all
  MaxLooks,  \* bound: times a screen opens the conversation
  MaxFaults  \* bound: servers that die, sends and joins that fail

ASSUME TypingAssumption ==
  /\ Typers \cap Screens = {}
  /\ MaxEvents \in Nat /\ MaxLooks \in Nat /\ MaxFaults \in Nat

VARIABLES
  socket, \* socket -> "joining" its room, "in" it, "out" of it, "gone",
          \* or "lost" with its server
  inbox,  \* socket -> events whose handlers wait for `ready`
  sends,  \* socket -> message:send handlers between their start and stopTyping
  timer,  \* socket -> its entry in typingTimers
  events, \* events so far
  wire,   \* socket -> screen -> typing:update on the way
  open,   \* screen -> it has the conversation open
  looks,  \* screen -> times it opened it
  sees,   \* screen -> users it shows as typing
  told,   \* history: socket -> screens that were open since it started to type
  faults

vars == <<socket, inbox, sends, timer, events, wire, open, looks, sees, told, faults>>
screens == <<open, looks, sees>>

TypeOK ==
  /\ socket \in [Typers -> {"joining", "in", "out", "gone", "lost"}]
  /\ \A s \in Typers : inbox[s] \in Seq({"true", "false", "leave"})
  /\ sends \in [Typers -> 0..MaxEvents] /\ events \in 0..MaxEvents
  /\ timer \in [Typers -> {"none", "armed", "fired"}]
  /\ \A s \in Typers, v \in Screens : wire[s][v] \in Seq(BOOLEAN)
  /\ open \in [Screens -> BOOLEAN] /\ looks \in [Screens -> 0..MaxLooks]
  /\ sees \in [Screens -> SUBSET {User(s) : s \in Typers}]
  /\ told \in [Typers -> SUBSET Screens] /\ faults \in 0..MaxFaults
  \* A timer belongs to a socket that is in the room.
  /\ \A s \in Typers : timer[s] # "none" => socket[s] = "in"

Init ==
  /\ socket \in [Typers -> {"joining", "out"}]
  /\ inbox = [s \in Typers |-> <<>>] /\ sends = [s \in Typers |-> 0]
  /\ timer = [s \in Typers |-> "none"] /\ events = 0
  /\ wire = [s \in Typers |-> [v \in Screens |-> <<>>]]
  /\ open = [v \in Screens |-> TRUE] /\ looks = [v \in Screens |-> 0]
  /\ sees = [v \in Screens |-> {}] /\ told = [s \in Typers |-> {}]
  /\ faults = 0

Connected(s) == socket[s] \notin {"gone", "lost"}

Fault == faults < MaxFaults /\ faults' = faults + 1

Update(s, on) == wire' = [wire EXCEPT ![s] = [v \in Screens |-> Append(@[v], on)]]

-----------------------------------------------------------------------------
(* The timers *)

\* Variant: the timer is cleared, its entry stays.
StoppedTimerKept(s) == "fired"

StoppedTimer(s) == "none"

\* Variant: the timer is cleared, and nobody is told.
StopTypingSilently(s) ==
  timer' = [timer EXCEPT ![s] = StoppedTimer(s)] /\ UNCHANGED wire

StopTyping(s) ==
  IF timer[s] = "none"
  THEN UNCHANGED <<timer, wire>>
  ELSE timer' = [timer EXCEPT ![s] = StoppedTimer(s)] /\ Update(s, FALSE)

\* Variant: a ping clears the timer and starts no new one.
ExtendedCleared(s) == IF timer[s] = "none" THEN "armed" ELSE "fired"

Extended(s) == "armed"

StartTyping(s) ==
  /\ timer' = [timer EXCEPT ![s] = Extended(s)]
  /\ IF timer[s] = "none"
     THEN /\ Update(s, TRUE)
          /\ told' = [told EXCEPT ![s] = {v \in Screens : open[v]}]
     ELSE UNCHANGED <<wire, told>>

Elapse(s) ==
  /\ timer[s] = "armed"
  /\ StopTyping(s)
  /\ UNCHANGED <<socket, inbox, sends, events, screens, told, faults>>

-----------------------------------------------------------------------------
(* The handlers of a socket *)

\* The client emits typing:set or conversation:leave.
Emit(s, event) ==
  /\ Connected(s) /\ events < MaxEvents
  /\ inbox' = [inbox EXCEPT ![s] = Append(@, event)]
  /\ events' = events + 1
  /\ UNCHANGED <<socket, sends, timer, wire, screens, told, faults>>

\* A customer's socket is put in its room (on connect, or after
\* conversation:join); a socket that is gone by then is not.
Enter(s) ==
  /\ socket[s] \in {"joining", "out"}
  /\ socket' = [socket EXCEPT ![s] = "in"]
  /\ UNCHANGED <<inbox, sends, timer, events, wire, screens, told, faults>>

EnterFails(s) ==
  /\ Fault /\ socket[s] = "joining"
  /\ socket' = [socket EXCEPT ![s] = "out"]
  /\ UNCHANGED <<inbox, sends, timer, events, wire, screens, told>>

Listening(s) == socket[s] = "in"

Handle(s) ==
  /\ inbox[s] # <<>> /\ socket[s] # "joining"
  /\ inbox' = [inbox EXCEPT ![s] = Tail(@)]
  /\ \/ /\ Head(inbox[s]) = "true" /\ Listening(s)
        /\ StartTyping(s) /\ UNCHANGED socket
     \/ /\ Head(inbox[s]) = "false" /\ Listening(s)
        /\ StopTyping(s) /\ UNCHANGED <<socket, told>>
     \/ /\ Head(inbox[s]) \in {"true", "false"} /\ ~Listening(s)
        /\ UNCHANGED <<socket, timer, wire, told>>
     \/ /\ Head(inbox[s]) = "leave"
        /\ StopTyping(s)
        /\ socket' = [socket EXCEPT ![s] = IF Connected(s) THEN "out" ELSE @]
        /\ UNCHANGED told
  /\ UNCHANGED <<sends, events, screens, faults>>

\* message:send; what it saves and emits is module Messages.
Send(s) ==
  /\ Connected(s) /\ events < MaxEvents
  /\ events' = events + 1
  /\ sends' = [sends EXCEPT ![s] = @ + 1]
  /\ UNCHANGED <<socket, inbox, timer, wire, screens, told, faults>>

\* The message is saved: whatever was typed since it was sent, the indicator stops.
Saved(s) ==
  /\ sends[s] > 0 /\ socket[s] # "joining"
  /\ sends' = [sends EXCEPT ![s] = @ - 1]
  /\ StopTyping(s)
  /\ UNCHANGED <<socket, inbox, events, screens, told, faults>>

\* Not allowed, blocked, failed, or a retry of a message that was saved before.
NotSaved(s) ==
  /\ sends[s] > 0 /\ socket[s] # "joining"
  /\ sends' = [sends EXCEPT ![s] = @ - 1]
  /\ UNCHANGED <<socket, inbox, timer, events, wire, screens, told, faults>>

\* 'disconnecting', then Socket.IO leaves the rooms; handlers that wait go on.
Disconnect(s) ==
  /\ Connected(s)
  /\ StopTyping(s)
  /\ socket' = [socket EXCEPT ![s] = "gone"]
  /\ UNCHANGED <<inbox, sends, events, screens, told, faults>>

\* The server of the socket dies, with its timers.
Crash(s) ==
  /\ Fault /\ Connected(s)
  /\ socket' = [socket EXCEPT ![s] = "lost"]
  /\ timer' = [timer EXCEPT ![s] = "none"]
  /\ inbox' = [inbox EXCEPT ![s] = <<>>] /\ sends' = [sends EXCEPT ![s] = 0]
  /\ UNCHANGED <<events, wire, screens, told>>

-----------------------------------------------------------------------------
(* The screens *)

Deliver(s, v) ==
  /\ wire[s][v] # <<>>
  /\ wire' = [wire EXCEPT ![s][v] = Tail(@)]
  /\ sees' = [sees EXCEPT ![v] = IF ~open[v] THEN @
                                 ELSE IF Head(wire[s][v]) THEN @ \cup {User(s)}
                                 ELSE @ \ {User(s)}]
  /\ UNCHANGED <<socket, inbox, sends, timer, events, open, looks, told, faults>>

\* A screen that closes the conversation forgets what it showed.
Look(v) ==
  /\ looks[v] < MaxLooks
  /\ open' = [open EXCEPT ![v] = ~@]
  /\ looks' = [looks EXCEPT ![v] = @ + 1]
  /\ sees' = [sees EXCEPT ![v] = {}]
  /\ told' = [s \in Typers |-> told[s] \ {v}]
  /\ UNCHANGED <<socket, inbox, sends, timer, events, wire, faults>>

Next ==
  \/ \E s \in Typers :
       \/ Elapse(s) \/ Enter(s) \/ EnterFails(s) \/ Handle(s)
       \/ Send(s) \/ Saved(s) \/ NotSaved(s) \/ Disconnect(s) \/ Crash(s)
       \/ \E event \in {"true", "false", "leave"} : Emit(s, event)
       \/ \E v \in Screens : Deliver(s, v)
  \/ \E v \in Screens : Look(v)

Spec == Init /\ [][Next]_vars

\* Timers fire and updates arrive.
Fairness ==
  /\ \A s \in Typers : WF_vars(Elapse(s)) /\ \A v \in Screens : WF_vars(Deliver(s, v))
FairSpec == Spec /\ Fairness

-----------------------------------------------------------------------------
(* Properties *)

\* Nobody is shown as typing for nothing: while a screen shows a user, a timer
\* of one of the user's sockets runs, or the stop is on its way.  A socket that
\* goes away, leaves, sends, or whose events were late, takes its indicator along;
\* only the timers of a server that died are gone without a word.
IndicatorBacked ==
  \A v \in Screens : \A u \in sees[v] :
    \E s \in Typers :
      /\ User(s) = u
      /\ timer[s] = "armed" \/ FALSE \in Range(wire[s][v]) \/ socket[s] = "lost"

\* Who types is shown: once the updates have arrived, every screen that was open
\* when the typing started shows it until it stops, although pings are not
\* broadcast.  (For a user with one socket: the stop of one tab hides another.)
ShownWhileTyping ==
  \A s \in Typers : timer[s] = "armed" /\ (\A t \in Typers : User(t) = User(s) => t = s) =>
    \A v \in told[s] : wire[s][v] = <<>> => User(s) \in sees[v]

\* "The server clears it by itself after 6s without a `true`": the indicator of a
\* user ends, unless a server dies on which one of his sockets typed.
IndicatorEnds ==
  \A v \in Screens, s \in Typers :
    User(s) \in sees[v] ~>
      User(s) \notin sees[v] \/ \E t \in Typers : User(t) = User(s) /\ socket[t] = "lost"
=============================================================================

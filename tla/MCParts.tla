------------------------------- MODULE MCParts -------------------------------
(***************************************************************************)
(* An instance for TLC of the components that share no state with another  *)
(* and whose properties are about safety: the history readers, the push    *)
(* subscriptions, the rooms of the sockets, the daily report, sessions,    *)
(* profiles, a conversation that is opened and the live counters.  A       *)
(* behaviour exercises one of them, "part", the others stay in one initial *)
(* state: without shared state, steps of another component change nothing  *)
(* that a property of this one reads.                                      *)
(***************************************************************************)
EXTENDS Sessions, Sequences

CONSTANTS
  Stamps, Ids, Batch, Limit,                                         \* History
  Browsers, Savers, MaxDevices, MaxSaves,                            \* PushSubscriptions
  Tabs, Dashboards, Own, Others, MaxRooms, MaxOpen, MaxCommands,     \* Rooms
  SlotLength, DayLength, DaysAsked, ChangeDay, MaxMessages, Horizon, \* Analytics
  Availabilities, MaxCalls, Workers,                                 \* Profiles
  MaxWrites, MaxExpiries, WaitsForRoom,                              \* OpenThread
  Rounds, SeriesLength, MinutesPerDay, MaxMinute,                    \* Metrics
  MaxFaults

\* What a change of the clocks adds to the day it falls on.
Changes == {-SlotLength, 0, SlotLength}

VARIABLES
  part,
  saved, before, reader, cursor, got, done,
  row, wanted, writes, dropped, prunes,
  thread, setup, rooms, up, open, sent, asked, faults,
  zone, now, messages, report,
  rows, index, listens, call, wish, calls, failures, chosen,
  db, ver, pages, task, job, skips, epoch, settled, answered, unsent, stage, room, viewer, screen, lost,
  minute, recorded, ofMinute, ofDay, lateMinute, lateDay, twiceOfMinute, twiceOfDay,
  lock, round, shown, troubles

historyVars == <<saved, before, reader, cursor, got, done>>
deviceVars == <<row, wanted, writes, dropped, prunes>>
roomVars == <<thread, setup, rooms, up, open, sent, asked, faults>>
reportVars == <<zone, now, messages, report>>
profileVars == <<rows, index, listens, call, wish, calls, failures, chosen>>
threadVars ==
  <<db, ver, pages, task, job, skips, epoch, settled, answered, unsent, stage, room, viewer, screen, lost>>
counterVars ==
  <<minute, recorded, ofMinute, ofDay, lateMinute, lateDay, twiceOfMinute, twiceOfDay,
    lock, round, shown, troubles>>
partsVars ==
  <<part, historyVars, deviceVars, roomVars, reportVars, vars, profileVars, threadVars, counterVars>>

Reading == INSTANCE History
Devices == INSTANCE PushSubscriptions
  WITH req <- wanted, lost <- dropped, faults <- prunes, MaxWrites <- MaxSaves
Sockets == INSTANCE Rooms
Daily == INSTANCE Analytics
Profile == INSTANCE Profiles
  WITH pc <- call, job <- wish, faults <- failures, up <- listens, Procs <- Workers
Thread == INSTANCE OpenThread WITH pc <- task, faults <- skips, done <- answered
Counters == INSTANCE Metrics WITH sent <- recorded, faults <- troubles

ASSUME Reading!HistoryAssumption
ASSUME Devices!DevicesAssumption
ASSUME Sockets!RoomsAssumption
ASSUME Daily!AnalyticsAssumption
ASSUME SessionsAssumption
ASSUME Profile!ProfilesAssumption
ASSUME Thread!OpenThreadAssumption
ASSUME Counters!MetricsAssumption

PartsInit ==
  /\ Reading!Init /\ Devices!Init /\ Sockets!Init /\ Daily!Init
  /\ Init /\ Profile!Init /\ Thread!Init /\ Counters!Init
  /\ part \in {"history", "devices", "rooms", "report", "sessions", "profiles", "thread",
              "counters"}
  /\ part # "history" => saved = {} /\ reader = "pages"
  /\ part # "report" => now = Horizon /\ zone = [offset |-> 0, change |-> 0]

PartsNext ==
  \/ /\ part = "history" /\ Reading!Next
     /\ UNCHANGED <<part, deviceVars, roomVars, reportVars, vars, profileVars, threadVars, counterVars>>
  \/ /\ part = "devices" /\ Devices!Next
     /\ UNCHANGED <<part, historyVars, roomVars, reportVars, vars, profileVars, threadVars, counterVars>>
  \/ /\ part = "rooms" /\ Sockets!Next
     /\ UNCHANGED <<part, historyVars, deviceVars, reportVars, vars, profileVars, threadVars, counterVars>>
  \/ /\ part = "report" /\ Daily!Next
     /\ UNCHANGED <<part, historyVars, deviceVars, roomVars, vars, profileVars, threadVars, counterVars>>
  \/ /\ part = "sessions" /\ Next
     /\ UNCHANGED <<part, historyVars, deviceVars, roomVars, reportVars, profileVars, threadVars, counterVars>>
  \/ /\ part = "profiles" /\ Profile!Next
     /\ UNCHANGED <<part, historyVars, deviceVars, roomVars, reportVars, vars, threadVars, counterVars>>
  \/ /\ part = "thread" /\ Thread!Next
     /\ UNCHANGED <<part, historyVars, deviceVars, roomVars, reportVars, vars, profileVars, counterVars>>
  \/ /\ part = "counters" /\ Counters!Next
     /\ UNCHANGED <<part, historyVars, deviceVars, roomVars, reportVars, vars, profileVars, threadVars>>

PartsSpec == PartsInit /\ [][PartsNext]_partsVars

-----------------------------------------------------------------------------
(* The properties of the parts, stated in their modules (those of Sessions are in sight) *)

\* A history reader misses no message that was there when it began.
Complete == Reading!Complete

\* A user has no more rows than MaxDevices once his requests are over.
AtMostDevices == Devices!AtMostDevices

\* A customer has one thread, whatever tabs connect at once.
OneThread == Sockets!OneThread

\* A socket whose commands are answered is where its client asked to be.
WhereAsked == Sockets!WhereAsked

\* A day of the report holds the messages of that calendar day.
DaysCountedRight == Daily!DaysCountedRight

\* A dashboard shows no more messages than were sent, but for INCRs the client sent again.
OverOnlyByResends == Counters!OverOnlyByResends

\* An agent has one profile.
OneProfile == Profile!OneProfile

\* An agent's choice outlives the requests that create the profile at the same time.
ChoiceKept == Profile!ChoiceKept

\* Whoever has a conversation open has all of its messages.
SeesAll == Thread!SeesAll
=============================================================================

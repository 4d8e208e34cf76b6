------------------------------- MODULE Metrics -------------------------------
(***************************************************************************)
(* The live message counters: recordMessage, snapshot and broadcast of     *)
(* src/modules/metrics/metrics.service.ts and metrics:subscribe of         *)
(* metrics.gateway.ts, as one dashboard shows them.                        *)
(*                                                                         *)
(* A message is two INCRs, of a minute and of a day.  Each may come late,  *)
(* be lost, or be sent again by the client of core/redis/redis.ts when its *)
(* reply is lost.  A round is one update on its way to the dashboard: a    *)
(* timer's, under the Redis lock, or the answer to a subscription.  Its    *)
(* reads are separate commands.  The 4.5 s of the lock are not counted: a  *)
(* lock that is held lapses at any moment.  The push counters are day      *)
(* counters like the messages'; the other numbers of a snapshot are single *)
(* reads of other components.  "Variant" marks a slip that a property      *)
(* notices.                                                                *)
(***************************************************************************)
EXTENDS Integers, Sequences, FiniteSets

CONSTANTS
  Rounds,        \* updates that may be on their way at once, from any server
  SeriesLength,  \* minutes of the series
  MinutesPerDay,
  MaxMinute,     \* bound: the last minute
  MaxMessages,   \* bound: messages
  MaxFaults      \* bound: Redis commands that fail, servers that die

MetricsAssumption ==
  /\ SeriesLength \in Nat \ {0} /\ MinutesPerDay \in Nat \ {0}
  /\ MaxMinute \in Nat /\ MaxMessages \in Nat /\ MaxFaults \in Nat

Minutes == 0..MaxMinute
Day(m) == m \div MinutesPerDay
Days == 0..Day(MaxMinute)

VARIABLES
  minute,     \* the clock, as all servers read it
  sent,       \* history: minute -> messages recorded in it
  ofMinute,   \* metrics:messages:m:<minute>
  ofDay,      \* metrics:messages:d:<day>
  lateMinute, \* minute -> INCRs of its key under way
  lateDay,    \* day -> INCRs of its key under way
  twiceOfMinute, \* history: minute -> INCRs of its key sent again after they had counted
  twiceOfDay,    \* history: day -> the same
  lock,       \* metrics:broadcast-lock is there
  round,      \* round -> where it is, the minute of its labels, what it read
  shown,      \* the last update the dashboard got: <<minute, last, hour, today>>
  faults

counters == <<sent, ofMinute, ofDay, lateMinute, lateDay, twiceOfMinute, twiceOfDay>>
vars == <<minute, counters, lock, round, shown, faults>>

Messages == 0..MaxMessages
Counts == 0..(MaxMessages + MaxFaults)
MinutesOf(d) == {m \in Minutes : Day(m) = d}

\* The sum of f over S: what is counted, each with a number within its minute.
Total(f, S) == Cardinality({p \in S \X (1..(MaxMessages + MaxFaults)) : p[2] <= f[p[1]]})

Idle == [at |-> "idle", minute |-> 0, series |-> <<>>, today |-> <<>>]

TypeOK ==
  /\ minute \in Minutes /\ sent \in [Minutes -> Messages]
  /\ ofMinute \in [Minutes -> Counts] /\ lateMinute \in [Minutes -> Messages]
  /\ ofDay \in [Days -> Counts] /\ lateDay \in [Days -> Messages]
  /\ lock \in BOOLEAN
  /\ \A r \in Rounds : round[r].at \in {"idle", "tick", "ack"} /\ round[r].minute \in 0..minute
  /\ faults \in 0..MaxFaults
  \* No message is counted under two keys of a kind, or twice under one unless its reply was lost.
  /\ \A m \in Minutes : /\ twiceOfMinute[m] \in 0..faults
                        /\ ofMinute[m] + lateMinute[m] <= sent[m] + twiceOfMinute[m]
  /\ \A d \in Days : /\ twiceOfDay[d] \in 0..faults
                     /\ ofDay[d] + lateDay[d] <= Total(sent, MinutesOf(d)) + twiceOfDay[d]

Init ==
  /\ minute = 0 /\ sent = [m \in Minutes |-> 0]
  /\ ofMinute = [m \in Minutes |-> 0] /\ lateMinute = [m \in Minutes |-> 0]
  /\ ofDay = [d \in Days |-> 0] /\ lateDay = [d \in Days |-> 0]
  /\ twiceOfMinute = [m \in Minutes |-> 0] /\ twiceOfDay = [d \in Days |-> 0]
  /\ lock = FALSE /\ round = [r \in Rounds |-> Idle]
  /\ shown = <<0, 0, 0, 0>> /\ faults = 0

Fault == faults < MaxFaults /\ faults' = faults + 1
Bump(f, k, n) == [f EXCEPT ![k] = @ + n]

Tick ==
  /\ minute < MaxMinute /\ minute' = minute + 1
  /\ UNCHANGED <<counters, lock, round, shown, faults>>

-----------------------------------------------------------------------------
(* recordMessage *)

Record ==
  /\ Total(sent, Minutes) < MaxMessages
  /\ sent' = Bump(sent, minute, 1)
  /\ lateMinute' = Bump(lateMinute, minute, 1)
  /\ lateDay' = Bump(lateDay, Day(minute), 1)
  /\ UNCHANGED <<minute, ofMinute, ofDay, twiceOfMinute, twiceOfDay, lock, round, shown, faults>>

IncrMinute(m) ==
  /\ lateMinute[m] > 0
  /\ lateMinute' = Bump(lateMinute, m, -1) /\ ofMinute' = Bump(ofMinute, m, 1)
  /\ UNCHANGED <<minute, sent, ofDay, lateDay, twiceOfMinute, twiceOfDay, lock, round, shown, faults>>

IncrDay(d) ==
  /\ lateDay[d] > 0
  /\ lateDay' = Bump(lateDay, d, -1) /\ ofDay' = Bump(ofDay, d, 1)
  /\ UNCHANGED <<minute, sent, ofMinute, lateMinute, twiceOfMinute, twiceOfDay, lock, round, shown, faults>>

\* Variant: an INCR that was answered by an error is tried again, although it may have counted.
GivenUpNever == 0

\* An error is logged; recordMessage does not try again.
GivenUp == -1

\* An INCR fails, before or after it counted: its process dies, Redis refuses it, or a connection
\* that is lost in the middle of its replies makes the client report an error.
IncrFails ==
  /\ Fault
  /\ \/ \E m \in Minutes, n \in {0, 1} :
          /\ lateMinute[m] > 0
          /\ lateMinute' = Bump(lateMinute, m, GivenUp) /\ ofMinute' = Bump(ofMinute, m, n)
          /\ UNCHANGED <<ofDay, lateDay>>
     \/ \E d \in Days, n \in {0, 1} :
          /\ lateDay[d] > 0
          /\ lateDay' = Bump(lateDay, d, GivenUp) /\ ofDay' = Bump(ofDay, d, n)
          /\ UNCHANGED <<ofMinute, lateMinute>>
  /\ UNCHANGED <<minute, sent, twiceOfMinute, twiceOfDay, lock, round, shown>>

\* An INCR has counted and the connection is lost before any reply: no limit of retries
\* (maxRetriesPerRequest null), so the client sends it again once it has reconnected.
IncrResent ==
  /\ Fault
  /\ \/ \E m \in Minutes :
          /\ lateMinute[m] > 0
          /\ ofMinute' = Bump(ofMinute, m, 1) /\ twiceOfMinute' = Bump(twiceOfMinute, m, 1)
          /\ UNCHANGED <<ofDay, twiceOfDay>>
     \/ \E d \in Days :
          /\ lateDay[d] > 0
          /\ ofDay' = Bump(ofDay, d, 1) /\ twiceOfDay' = Bump(twiceOfDay, d, 1)
          /\ UNCHANGED <<ofMinute, twiceOfMinute>>
  /\ UNCHANGED <<minute, sent, lateMinute, lateDay, lock, round, shown>>

-----------------------------------------------------------------------------
(* update *)

\* The reads go out together: the minute of both is that of the start.
Begin(r, kind) ==
  /\ round[r].at = "idle"
  /\ round' = [round EXCEPT ![r] = [Idle EXCEPT !.at = kind, !.minute = minute]]

\* broadcast, of the server that gets the lock; the others wait for their next tick.
Broadcast(r) ==
  /\ ~lock /\ lock' = TRUE
  /\ Begin(r, "tick")
  /\ UNCHANGED <<minute, counters, shown, faults>>

\* metrics:subscribe answers with an update of its own.
Subscribe(r) ==
  /\ Begin(r, "ack")
  /\ UNCHANGED <<minute, counters, lock, shown, faults>>

\* The labels of messagesPerMinute.
Labels(m) == {n \in Minutes : m - SeriesLength < n /\ n <= m}

\* The snapshot's MGET of the minutes: the newest, and the sum.  The update's own MGET of the
\* same minutes, for the chart, is another read of this kind and left out.
ReadSeries(r) ==
  /\ round[r].at # "idle" /\ round[r].series = <<>>
  /\ LET m == round[r].minute
     IN round' = [round EXCEPT ![r].series = <<ofMinute[m], Total(ofMinute, Labels(m))>>]
  /\ UNCHANGED <<minute, counters, lock, shown, faults>>

\* MGET of the day.
ReadDay(r) ==
  /\ round[r].at # "idle" /\ round[r].today = <<>>
  /\ round' = [round EXCEPT ![r].today = <<ofDay[Day(round[r].minute)]>>]
  /\ UNCHANGED <<minute, counters, lock, shown, faults>>

\* The update arrives; the lock stays until it lapses.
Emit(r) ==
  /\ round[r].series # <<>> /\ round[r].today # <<>>
  /\ shown' = <<round[r].minute>> \o round[r].series \o round[r].today
  /\ round' = [round EXCEPT ![r] = Idle]
  /\ UNCHANGED <<minute, counters, lock, faults>>

RoundFails(r) ==
  /\ Fault /\ round[r].at # "idle"
  /\ round' = [round EXCEPT ![r] = Idle]
  /\ UNCHANGED <<minute, counters, lock, shown>>

\* Variant: the lock is set without PX.
LapsesNever == FALSE

Lapses == lock

LockLapses ==
  /\ Lapses /\ lock' = FALSE
  /\ UNCHANGED <<minute, counters, round, shown, faults>>

Next ==
  \/ Tick \/ Record \/ IncrFails \/ IncrResent \/ LockLapses
  \/ \E m \in Minutes : IncrMinute(m)
  \/ \E d \in Days : IncrDay(d)
  \/ \E r \in Rounds :
       \/ Broadcast(r) \/ Subscribe(r) \/ RoundFails(r)
       \/ ReadSeries(r) \/ ReadDay(r) \/ Emit(r)

Spec == Init /\ [][Next]_vars

\* Commands are answered, servers tick, the lock lapses; nobody has to subscribe.
Progress ==
  /\ WF_vars(LockLapses)
  /\ \A m \in Minutes : WF_vars(IncrMinute(m))
  /\ \A d \in Days : WF_vars(IncrDay(d))
  /\ \A r \in Rounds : WF_vars(ReadSeries(r)) /\ WF_vars(ReadDay(r)) /\ WF_vars(Emit(r))
Fairness == Progress /\ SF_vars(\E r \in Rounds : Broadcast(r))
FairSpec == Spec /\ Fairness

-----------------------------------------------------------------------------
(* Properties *)

\* A dashboard shows at most one message too many for each INCR that the client sent again after it
\* had counted, and only in the figures of that very INCR's key (its minute, series and day); an INCR
\* that came late, was lost or answered by an error, and rounds that race, add nothing.
OverOnlyByResends ==
  LET m == shown[1]
      series == {n \in Minutes : m - SeriesLength < n /\ n <= m}
      ran == [n \in Minutes |-> sent[n] + twiceOfMinute[n]]
  IN  /\ shown[2] <= ran[m] /\ shown[3] <= Total(ran, series)
      /\ shown[4] <= Total(sent, MinutesOf(Day(m))) + twiceOfDay[Day(m)]

\* When the messages stop, what a dashboard shows becomes and stays what the
\* counters of its minute, its series and its day hold, although a round may
\* fail; when no INCR failed, that is what was sent in them.
BecomesRight ==
  <>[](LET m == shown[1]
           series == {n \in Minutes : m - SeriesLength < n /\ n <= m}
       IN  /\ shown[2] = ofMinute[m] /\ shown[4] = ofDay[Day(m)]
           /\ shown[3] = Total(ofMinute, series)
           /\ faults = 0 => /\ shown[2] = sent[m] /\ shown[3] = Total(sent, series)
                            /\ shown[4] = Total(sent, MinutesOf(Day(m))))

(* What a comment says and the code does not do: fails *)

\* "every 5s (one server does it, via a Redis lock)"
OneBroadcaster == \A r, q \in Rounds : round[r].at = "tick" /\ round[q].at = "tick" => r = q
=============================================================================

------------------------------ MODULE Analytics ------------------------------
(***************************************************************************)
(* The messages per calendar day of the admin dashboard:                   *)
(* src/modules/metrics/analytics.service.ts.                               *)
(*                                                                         *)
(* Time is counted in units from the epoch.  A time zone is where its days *)
(* begin: every DayLength from its offset on, and from one day on an hour  *)
(* earlier or later when the clocks change.  The labels of the report are  *)
(* the days of the instants now, now - 24 h, ..., and messages are counted *)
(* by slots, each of which goes to the day it begins in.  "Variant" marks  *)
(* a slip that a property notices.                                          *)
(***************************************************************************)
EXTENDS Integers, Sequences, FiniteSets, Functions

CONSTANTS
  SlotLength,  \* SLOT_MS
  DayLength,   \* DAY_MS
  DaysAsked,   \* query.days
  Changes,     \* what a change of the clocks adds to a day, 0 for none
  ChangeDay,   \* the day of the change
  MaxMessages, \* bound: messages
  Horizon      \* bound: the last instant

AnalyticsAssumption ==
  /\ {SlotLength, DayLength, DaysAsked, Horizon} \subseteq Nat \ {0}
  /\ DayLength % SlotLength = 0
  /\ Changes \subseteq Int /\ \A h \in Changes : h % SlotLength = 0 /\ -DayLength < h /\ h < DayLength
  /\ ChangeDay \in Nat /\ MaxMessages \in Nat

Instants == 0..Horizon

\* Offsets are whole slots, as all those of the time zone database are.
Zones == [offset : {SlotLength * i : i \in 0..(DayLength \div SlotLength - 1)}, change : Changes]

Begins(z, d) == z.offset + (d - 1) * DayLength + (IF d > ChangeDay THEN z.change ELSE 0)

\* dayOf.format
DayOf(z, t) == CHOOSE d \in 0..(Horizon \div DayLength + 3) : Begins(z, d) <= t /\ t < Begins(z, d + 1)

VARIABLES
  zone,     \* query.tz
  now,      \* when the report is asked for
  messages, \* createdAt of the messages
  report    \* <<>> or the report: labels, daily counts of all labels, total

vars == <<zone, now, messages, report>>

Init ==
  /\ zone \in Zones
  /\ now \in {t \in Instants : t >= (2 * DaysAsked + 1) * DayLength}
  /\ messages = <<>> /\ report = <<>>

Save(t) ==
  /\ Len(messages) < MaxMessages /\ report = <<>>
  /\ t <= now /\ \A i \in DOMAIN messages : messages[i] <= t
  /\ messages' = Append(messages, t)
  /\ UNCHANGED <<zone, now, report>>

-----------------------------------------------------------------------------
\* The instant label i is made from, i \in 1..2 * DaysAsked.
LabelAt(i) == now - (2 * DaysAsked - i) * DayLength

Labels == [i \in 1..(2 * DaysAsked) |-> DayOf(zone, LabelAt(i))]

Since == now - (2 * DaysAsked + 1) * DayLength

Found == {i \in DOMAIN messages : messages[i] >= Since}

\* Variant: slots of twice the length.
SlotOfCoarse(t) == 2 * (t \div (2 * SlotLength))

SlotOf(t) == t \div SlotLength

\* countMessagesPerDay: the messages of the slots that begin in the day.
CountOf(d) == Cardinality({i \in Found : DayOf(zone, SlotOf(messages[i]) * SlotLength) = d})

Current(seq) == SubSeq(seq, DaysAsked + 1, 2 * DaysAsked)

Total(daily) == SumFunction(Current(daily))

Compute ==
  /\ report = <<>>
  /\ LET daily == [i \in DOMAIN Labels |-> CountOf(Labels[i])]
     IN report' = <<[labels |-> Labels, daily |-> daily, total |-> Total(daily)]>>
  /\ UNCHANGED <<zone, now, messages>>

Next == (\E t \in Instants : Save(t)) \/ Compute

Spec == Init /\ [][Next]_vars

-----------------------------------------------------------------------------
(* Properties *)

\* Messages of a calendar day, counted one by one.
InDay(d) == Cardinality({i \in DOMAIN messages : DayOf(zone, messages[i]) = d})

\* Every day of the report holds the messages of that calendar day, no more and
\* no less: the slots do not reach over midnight in any zone, and the window
\* that is read covers the oldest day, with a change of the clocks, too.
DaysCountedRight ==
  report # <<>> =>
    \A i \in DOMAIN report[1].labels : report[1].daily[i] = InDay(report[1].labels[i])

(* What the header says and the code does not do: fails *)

\* "Messages per calendar day": the report is about the calendar days up to today,
\* each of them once.
EachDayOnce ==
  report # <<>> =>
    \A i \in DOMAIN report[1].labels :
      report[1].labels[i] = DayOf(zone, now) - (2 * DaysAsked - i)
=============================================================================

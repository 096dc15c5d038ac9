---- MODULE AnnouncementTimes ----
(* The times of an announcement: when it was first available (ingestion.py) and*)
(* the session whose close is the first that could know it (event_study.py).  *)
(* Times are half hours, 48 to a day; days are numbered, day 0 is a Monday.   *)
EXTENDS Integers, WellFoundedInduction, TLAPS

Open == 19
Close == 30
Day(t) == t \div 48
Slot(t) == t % 48
At(day, slot) == 48 * day + slot
Weekend(day) == day % 7 >= 5

Earliest(days) == CHOOSE d \in days : \A e \in days : d <= e

NextWeekday(day) == Earliest({d \in day..(day + 2) : ~Weekend(d)})

\* After the last session of the calendar, or without one, weekdays stand in.
NextOpening(day, calendar) ==
    LET later == {d \in calendar : d >= day}
    IN At(IF later # {} THEN Earliest(later) ELSE NextWeekday(day), Open)

\* Mutant: a date is taken for its midnight.
AvailableAtMidnight(publish, precision, calendar) ==
    IF Slot(publish) >= Close THEN NextOpening(Day(publish) + 1, calendar)
    ELSE IF Slot(publish) < Open THEN At(Day(publish), Open) ELSE publish

FirstAvailable(publish, precision, calendar) ==
    IF precision = "date" \/ Slot(publish) >= Close
    THEN NextOpening(Day(publish) + 1, calendar)
    ELSE IF Slot(publish) < Open THEN At(Day(publish), Open) ELSE publish

\* TradingCalendar.next_session.
SessionsFrom(day, calendar) == {d \in calendar : d >= day}

\* Mutant: the session of the day, whatever the hour.
ReferenceOfDay(t, calendar) == Earliest(SessionsFrom(Day(t), calendar))

\* resolve_reference_session, defined when the calendar reaches far enough.
Reference(t, calendar) ==
    IF Day(t) \in calendar /\ Slot(t) < Close THEN Day(t)
    ELSE Earliest(SessionsFrom(Day(t) + 1, calendar))

Resolves(t, calendar) ==
    \/ (Day(t) \in calendar /\ Slot(t) < Close)
    \/ SessionsFrom(Day(t) + 1, calendar) # {}

-----------------------------------------------------------------------------
(* For every time, precision and calendar a notice is not available before it *)
(* was published, and the reference session is the first that closes later.   *)

\* Every set of days has an earliest one.
LEMMA EarliestOf ==
    ASSUME NEW days \in SUBSET Nat, days # {}
    PROVE  /\ Earliest(days) \in days
           /\ \A d \in days : Earliest(days) <= d
<1>1. PICK x \in days : \A y \in days : ~(<<y, x>> \in OpToRel(<, Nat))
      BY NatLessThanWellFounded, WFMin
<1>2. \A y \in days : x <= y
  <2> SUFFICES ASSUME NEW y \in days PROVE x <= y
      OBVIOUS
  <2>1. x \in Nat /\ y \in Nat
        OBVIOUS
  <2>2. ~(y < x)
        BY <1>1, <2>1 DEF OpToRel
  <2> QED BY <2>1, <2>2
<1> QED BY <1>1, <1>2 DEF Earliest

\* Day and slot are the two digits of a time.
LEMMA Digits ==
    ASSUME NEW t \in Nat
    PROVE  /\ Day(t) \in Nat /\ Slot(t) \in 0..47
           /\ t = At(Day(t), Slot(t))
BY DEF Day, Slot, At

LEMMA DigitsOf ==
    ASSUME NEW day \in Nat, NEW slot \in 0..47
    PROVE  At(day, slot) \in Nat /\ Day(At(day, slot)) = day /\ Slot(At(day, slot)) = slot
BY DEF Day, Slot, At

\* Of three days in a row one is no Saturday and no Sunday.
LEMMA WeekdayAhead ==
    ASSUME NEW day \in Nat
    PROVE  NextWeekday(day) \in Nat /\ NextWeekday(day) >= day /\ ~Weekend(NextWeekday(day))
<1> DEFINE days == {d \in day..(day + 2) : ~Weekend(d)}
<1>1. days \in SUBSET Nat
      OBVIOUS
<1>2. days # {}
  <2>1. day % 7 \in 0..6 /\ (day + 2) % 7 \in 0..6
        OBVIOUS
  <2>2. CASE day % 7 < 5
        BY <2>2, <2>1, day \in days DEF Weekend
  <2>3. CASE day % 7 >= 5
    <3>1. (day + 2) % 7 < 5
          BY <2>3, <2>1
    <3>2. day + 2 \in days
          BY <3>1, <2>1 DEF Weekend
    <3> QED BY <3>2
  <2> QED BY <2>1, <2>2, <2>3
<1>3. Earliest(days) \in days
      BY <1>1, <1>2, EarliestOf
<1> QED BY <1>3 DEF NextWeekday

LEMMA OpeningAhead ==
    ASSUME NEW day \in Nat, NEW calendar \in SUBSET Nat
    PROVE  /\ NextOpening(day, calendar) \in Nat
           /\ Day(NextOpening(day, calendar)) >= day
           /\ Slot(NextOpening(day, calendar)) = Open
<1> DEFINE later == {d \in calendar : d >= day}
           session == IF later # {} THEN Earliest(later) ELSE NextWeekday(day)
<1>1. session \in Nat /\ session >= day
  <2>1. CASE later # {}
        BY <2>1, EarliestOf, later \in SUBSET Nat
  <2>2. CASE later = {}
        BY <2>2, WeekdayAhead
  <2> QED BY <2>1, <2>2
<1>2. Open \in 0..47
      BY DEF Open
<1>3. NextOpening(day, calendar) = At(session, Open)
      BY DEF NextOpening
<1>4. At(session, Open) \in Nat /\ Day(At(session, Open)) = session /\ Slot(At(session, Open)) = Open
  <2> HIDE DEF session
  <2> QED BY <1>1, <1>2, DigitsOf
<1> HIDE DEF session
<1> QED BY <1>1, <1>3, <1>4

\* FirstAvailable: never before the publication, and a date alone or a time after
\* the close waits for another day.
THEOREM AvailableNotBefore ==
    ASSUME NEW publish \in Nat, NEW precision, NEW calendar \in SUBSET Nat
    PROVE  /\ FirstAvailable(publish, precision, calendar) \in Nat
           /\ FirstAvailable(publish, precision, calendar) >= publish
           /\ \/ precision = "date"
              \/ Slot(publish) >= Close
              => Day(FirstAvailable(publish, precision, calendar)) > Day(publish)
<1> DEFINE available == FirstAvailable(publish, precision, calendar)
<1>1. Day(publish) \in Nat /\ Slot(publish) \in 0..47 /\ publish = At(Day(publish), Slot(publish))
      BY Digits
<1>2. CASE precision = "date" \/ Slot(publish) >= Close
  <2>1. available = NextOpening(Day(publish) + 1, calendar)
        BY <1>2 DEF FirstAvailable
  <2>2. Day(publish) + 1 \in Nat
        BY <1>1
  <2>3. available \in Nat /\ Day(available) >= Day(publish) + 1
        BY <2>1, <2>2, OpeningAhead
  <2>4. Day(available) \in Nat /\ Slot(available) \in 0..47
        /\ available = At(Day(available), Slot(available))
        BY <2>3, Digits
  <2>5. available >= publish
        BY <2>4, <2>3, <1>1 DEF At
  <2>6. Day(available) > Day(publish)
        BY <2>4, <2>3, <1>1
  <2> QED BY <2>3, <2>5, <2>6
<1>3. CASE ~(precision = "date" \/ Slot(publish) >= Close) /\ Slot(publish) < Open
  <2>1. available = At(Day(publish), Open)
        BY <1>3 DEF FirstAvailable
  <2> QED BY <2>1, <1>1, <1>3 DEF At, Open
<1>4. CASE ~(precision = "date" \/ Slot(publish) >= Close) /\ ~(Slot(publish) < Open)
  <2>1. available = publish
        BY <1>4 DEF FirstAvailable
  <2> QED BY <2>1, <1>4
<1> QED BY <1>2, <1>3, <1>4

\* resolve_reference_session: "First real session whose close is strictly later
\* than PIT availability".
THEOREM ReferenceIsFirst ==
    ASSUME NEW t \in Nat, NEW calendar \in SUBSET Nat, Resolves(t, calendar)
    PROVE  /\ Reference(t, calendar) \in calendar
           /\ At(Reference(t, calendar), Close) > t
           /\ \A s \in calendar : At(s, Close) > t => Reference(t, calendar) <= s
<1>1. Day(t) \in Nat /\ Slot(t) \in 0..47 /\ t = At(Day(t), Slot(t))
      BY Digits
<1>2. CASE Day(t) \in calendar /\ Slot(t) < Close
  <2>1. Reference(t, calendar) = Day(t)
        BY <1>2 DEF Reference
  <2>2. At(Day(t), Close) > t
        BY <1>1, <1>2 DEF At, Close
  <2>3. ASSUME NEW s \in calendar, At(s, Close) > t
        PROVE  Day(t) <= s
        BY <1>1, <2>3 DEF At, Close
  <2> QED BY <2>1, <2>2, <2>3, <1>2
<1>3. CASE ~(Day(t) \in calendar /\ Slot(t) < Close)
  <2> DEFINE later == SessionsFrom(Day(t) + 1, calendar)
  <2>1. later \in SUBSET Nat /\ later # {}
        BY <1>3 DEF Resolves, SessionsFrom
  <2>2. Reference(t, calendar) = Earliest(later)
        BY <1>3 DEF Reference
  <2>3. Earliest(later) \in later /\ \A d \in later : Earliest(later) <= d
        BY <2>1, EarliestOf
  <2>4. Earliest(later) \in calendar /\ Earliest(later) \in Nat /\ Earliest(later) >= Day(t) + 1
        BY <2>3 DEF SessionsFrom
  <2>5. At(Earliest(later), Close) > t
        BY <2>4, <1>1 DEF At, Close
  <2>6. ASSUME NEW s \in calendar, At(s, Close) > t
        PROVE  Earliest(later) <= s
    <3>1. s \in Nat /\ s >= Day(t)
          BY <2>6, <1>1 DEF At, Close
    <3>2. s # Day(t)
          BY <2>6, <1>1, <1>3 DEF At, Close
    <3>3. s \in later
          BY <3>1, <3>2, <1>1 DEF SessionsFrom
    <3> QED BY <3>3, <2>3
  <2> QED BY <2>2, <2>4, <2>5, <2>6
<1> QED BY <1>2, <1>3
====

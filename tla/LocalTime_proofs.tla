-------------------------- MODULE LocalTime_proofs --------------------------
(***************************************************************************)
(* What next_local_midnight returns, for any calendar.                     *)
(***************************************************************************)
EXTENDS LocalTime, TLAPS

\* A day has at least an hour, and no day is much longer than another.
LEMMA LengthType ==
  ASSUME NEW d \in Nat
  PROVE  Length(d) \in {HoursPerDay - 1, HoursPerDay, HoursPerDay + 1}
BY DEF Length

\* Away from clock changes it is the calendar's next midnight.
THEOREM NextMidnightOrdinary ==
  ASSUME NEW d \in Nat, NEW h \in Hours(d),
         d \notin LongDays \cup ShortDays, d + 1 \notin ShortDays
  PROVE  NextMidnight(d, h) = d + 1
<1>1. Length(d) = HoursPerDay /\ Length(d + 1) \in {HoursPerDay, HoursPerDay + 1}
  BY LengthType DEF Length
<1>2. DayAfter(d, h) = d + 1
  BY <1>1, CalendarAssumption DEF DayAfter, Hours
<1>3. d + 1 \notin NoMidnight
  BY CalendarAssumption
<1> QED BY <1>2, <1>3 DEF NextMidnight

\* It is a day to come, except in the first hour of a day on which the clocks
\* go back: then it is the midnight that day began with.
THEOREM NextMidnightAhead ==
  ASSUME NEW d \in Nat, NEW h \in Hours(d)
  PROVE  /\ NextMidnight(d, h) \in d .. d + 3
         /\ NextMidnight(d, h) = d => d \in LongDays /\ h = 0
<1>1. /\ Length(d) \in {HoursPerDay - 1, HoursPerDay, HoursPerDay + 1}
      /\ Length(d + 1) \in {HoursPerDay - 1, HoursPerDay, HoursPerDay + 1}
  BY LengthType
<1>2. DayAfter(d, h) \in d .. d + 2
  BY <1>1, CalendarAssumption DEF DayAfter, Hours
<1>3. DayAfter(d, h) = d => d \in LongDays /\ h = 0
  <2>1. SUFFICES ASSUME DayAfter(d, h) = d PROVE d \in LongDays /\ h = 0
    OBVIOUS
  <2>2. h + HoursPerDay < Length(d)
    BY <1>1, <2>1, CalendarAssumption DEF DayAfter, Hours
  <2> QED BY <2>2, CalendarAssumption DEF Length, Hours
<1> QED BY <1>2, <1>3 DEF NextMidnight

\* As time goes on it never moves back.
THEOREM NextMidnightMonotone ==
  ASSUME NEW d \in Nat, NEW h \in Hours(d)
  PROVE  /\ h + 1 \in Hours(d) => NextMidnight(d, h) <= NextMidnight(d, h + 1)
         /\ h = Length(d) - 1 => NextMidnight(d, h) <= NextMidnight(d + 1, 0)
<1> USE CalendarAssumption
<1>1. /\ Length(d) \in {HoursPerDay - 1, HoursPerDay, HoursPerDay + 1}
      /\ Length(d + 1) \in {HoursPerDay - 1, HoursPerDay, HoursPerDay + 1}
      /\ Length(d + 2) \in {HoursPerDay - 1, HoursPerDay, HoursPerDay + 1}
  BY LengthType
<1>2. ASSUME NEW a \in Nat, NEW b \in Nat, a <= b
      PROVE  (IF a \in NoMidnight THEN a + 1 ELSE a) <= (IF b \in NoMidnight THEN b + 1 ELSE b)
  BY <1>2
<1>3. ASSUME h + 1 \in Hours(d) PROVE NextMidnight(d, h) <= NextMidnight(d, h + 1)
  <2>1. /\ DayAfter(d, h) \in Nat /\ DayAfter(d, h + 1) \in Nat
        /\ DayAfter(d, h) <= DayAfter(d, h + 1)
    BY <1>1, <1>3 DEF DayAfter, Hours
  <2> QED BY <1>2, <2>1 DEF NextMidnight
<1>4. ASSUME h = Length(d) - 1 PROVE NextMidnight(d, h) <= NextMidnight(d + 1, 0)
  <2>1. /\ DayAfter(d, h) \in Nat /\ DayAfter(d + 1, 0) \in Nat
        /\ DayAfter(d, h) <= DayAfter(d + 1, 0)
    BY <1>1, <1>4 DEF DayAfter, Hours
  <2> QED BY <1>2, <2>1 DEF NextMidnight
<1> QED BY <1>3, <1>4
=============================================================================

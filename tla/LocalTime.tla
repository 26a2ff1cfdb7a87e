----------------------------- MODULE LocalTime -----------------------------
(***************************************************************************)
(* Local calendar time (crates/daemon/src/time.rs).  A local time is a day *)
(* and the hours elapsed since that day began.  A day on which the clocks  *)
(* go back is one hour longer, one on which they go forward an hour        *)
(* shorter.                                                                *)
(***************************************************************************)
EXTENDS Integers

CONSTANTS HoursPerDay,  \* 24, or fewer for the model checker
          LongDays,     \* days on which the clocks go back
          ShortDays,    \* days on which they go forward
          NoMidnight    \* the short days whose 00:00 is what they skip

ASSUME CalendarAssumption ==
  /\ HoursPerDay \in Nat \ {0, 1}
  /\ LongDays \subseteq Nat /\ ShortDays \subseteq Nat
  /\ LongDays \cap ShortDays = {}
  /\ NoMidnight \subseteq ShortDays
  /\ \A d \in NoMidnight : d + 1 \notin NoMidnight

Length(d) == CASE d \in LongDays -> HoursPerDay + 1
               [] d \in ShortDays -> HoursPerDay - 1
               [] OTHER -> HoursPerDay

Hours(d) == 0 .. Length(d) - 1

\* The day of `now + Duration::days(1)`: chrono adds elapsed time, 24 hours.
DayAfter(d, h) ==
  CASE h + HoursPerDay < Length(d) -> d
    [] h + HoursPerDay >= Length(d) + Length(d + 1) -> d + 2
    [] OTHER -> d + 1

\* next_local_midnight_after(now), as the day whose 00:00 it returns: a day
\* without a 00:00 is skipped.
NextMidnight(d, h) ==
  LET date == DayAfter(d, h) IN IF date \in NoMidnight THEN date + 1 ELSE date

\* What next_local_midnight may return at some hour of day d.
NextMidnights(d) == {NextMidnight(d, h) : h \in Hours(d)}
=============================================================================

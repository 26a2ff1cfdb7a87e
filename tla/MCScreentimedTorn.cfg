SPECIFICATION Spec
CONSTANTS
  Users = {alice}
  NoDay = NoDay
  TickSeconds = 1
  CounterModulus = 3
  MaxDay = 1
  HoursPerDay = 2
  LongDays = {1}
  ShortDays = {2}
  NoMidnight = {}
  MaxCrashes = 0
  Limit <- LimitOneTick
  Absent = Absent
  Empty = Empty
  Torn = Torn
  SaveMayFail = FALSE
INVARIANT NeverTorn

SPECIFICATION FairSpec
CONSTANTS
  Users = {alice}
  NoDay = NoDay
  TickSeconds = 1
  CounterModulus = 3
  MaxDay = 1
  HoursPerDay = 2
  LongDays = {1}
  ShortDays = {2}
  NoMidnight = {}
  MaxCrashes = 1
  Limit <- LimitOneTick
  Absent = Absent
  Empty = Empty
  Torn = Torn
  SaveMayFail = TRUE
INVARIANTS TypeOK CrashLosesAtMostOneTick ChangesAreBroadcast SaveInv
PROPERTIES DayCatchesUp DiskCatchesUp

SPECIFICATION Spec
CONSTANTS
  HoursPerDay = 2
  LongDays = {1}
  ShortDays = {2}
  NoMidnight = {}
  Limit = 3
  Thresholds = {1, 3}
  SocketCap = 1
  MaxUsed = 3
  MaxDay = 2
  MaxCrashes = 1
  None = None
INVARIANTS TypeOK OncePerCycle

SPECIFICATION Spec
CONSTANTS
  HoursPerDay = 2
  LongDays = {}
  ShortDays = {}
  NoMidnight = {}
  Limit = 3
  Thresholds = {1, 3}
  SocketCap = 1
  MaxUsed = 3
  MaxDay = 1
  MaxCrashes = 0
  None = None
PROPERTY RearmsWhenZeroed

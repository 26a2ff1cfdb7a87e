SPECIFICATION FairSpec
CONSTANTS
  Limit = 2
  ChannelCap = 1
  SocketCap = 1
  MaxUsed = 2
  MaxDay = 1
  MaxCrashes = 1
  None = None
INVARIANTS TypeOK NothingMissed
PROPERTIES ScreenCatchesUp FeedSpec

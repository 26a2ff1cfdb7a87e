SPECIFICATION FairSpec
CONSTANTS
  alice = alice
  bob = bob
  carol = carol
  Users = {alice, bob, carol}
  Configured = {alice, carol}
  NoAccount = {carol}
  Limit <- LimitOf
  Backoff = 2
  MaxUsed = 2
  Nobody = Nobody
INVARIANTS TypeOK LogModeSpawnsNothing KicksOnlyOverLimit
PROPERTIES BackoffHolds PassEnds OverLimitUserLeaves

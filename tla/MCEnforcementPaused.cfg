SPECIFICATION Spec
CONSTANTS
  alice = alice
  bob = bob
  carol = carol
  Users = {alice, bob, carol}
  Configured = {alice, carol}
  NoAccount = {carol}
  Limit <- LimitOf
  Backoff = 2
  MaxUsed = 2
  Nobody = Nobody
PROPERTY NoCommandWhilePaused

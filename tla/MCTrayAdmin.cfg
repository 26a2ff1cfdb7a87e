SPECIFICATION FairSpec
CONSTANTS
  Paths = {p1, p2}
  Default = p1
  Closed = Closed
INVARIANTS TypeOK ClickObeyed
PROPERTIES MenuCatchesUp OnlyStaleSavesRevert

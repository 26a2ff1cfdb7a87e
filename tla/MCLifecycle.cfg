SPECIFICATION Spec
CONSTANTS
  Bundles = 2
  Grace = 2
  Deadline = 4
  Writers = {ticker}
  Bodies = {b1, b2}
  Absent = Absent
  Empty = Empty
  Torn = Torn
  SaveMayFail = TRUE
SYMMETRY Symmetry
INVARIANTS TypeOK LostRegistrationIsTold VersionsAgree
PROPERTIES ActsOnRemoval AbstractSpec

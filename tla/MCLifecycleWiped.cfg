SPECIFICATION Spec
CONSTANTS
  Bundles = 1
  Grace = 1
  Deadline = 2
  Writers = {ticker}
  Bodies = {b1}
  Absent = Absent
  Empty = Empty
  Torn = Torn
  SaveMayFail = FALSE
INVARIANT WipedOnUninstall

SPECIFICATION ControlSpec
CONSTANTS
  empty = empty
  edited = edited
  odd = odd
  torn = torn
  marker = marker
  nopath = nopath
  Docs = {empty, edited, odd, torn}
  Invalid = {torn}
  Empty = empty
  Torn = torn
  Example = edited
  Config = config
  KillPaths = {marker}
  NoPath = nopath
  KillPath <- MCKillPath
  Absent = Absent
  Calls = {c1, c2}
SYMMETRY Symmetry
INVARIANTS TypeOK FileStaysLoadable SavesTakeEffect
PROPERTY RegisterSpec

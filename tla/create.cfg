SPECIFICATION LiveSpec
CONSTANTS
  s = s
  rice = rice
  oil = oil
  k1 = k1
  k2 = k2
  r1 = r1
  r2 = r2
  r3 = r3
  e1 = e1
  c1 = c1
  None = None
  Suppliers = {s}
  Items = {rice, oil}
  Requests = {r1, r2, r3, e1, c1}
  Body <- MCBody
  Edits <- MCEdits
  Keys = {k1, k2}
  MaxCrashes = 1
INVARIANTS
  NoDuplicates
  CreatesCounted
  SnapshotLive
PROPERTIES
  RequestsEnd
CHECK_DEADLOCK FALSE

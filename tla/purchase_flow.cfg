SPECIFICATION FlowSpec
CONSTANTS
  a = a
  b = b
  tp1 = tp1
  tp2 = tp2
  None = None
  Items = {a, b}
  Purchases = {tp1, tp2}
  s1 = s1
  s2 = s2
  Sessions = {s1, s2}
  Ops <- MCOps
  InitRows <- MCInitRows
  EditLines <- NoLines
  NeedsUnit = {}
  MaxQty = 2
  InitStock = 1
VIEW FlowView
INVARIANTS
  NetMatches
  NoStockWhenClosedAlone
  DeliveredCommittedAlone
PROPERTIES
  ReceivedOnce
CHECK_DEADLOCK FALSE

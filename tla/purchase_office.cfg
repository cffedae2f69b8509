SPECIFICATION Spec
CONSTANTS
  a = a
  b = b
  tp1 = tp1
  None = None
  Items = {a}
  Purchases = {tp1}
  Sessions = {s1}
  Ops <- OfficeOps
  InitRows <- Supplied
  EditLines <- SomeLines
  NeedsUnit = {a}
  MaxQty = 2
  InitStock = 1
INVARIANTS
  NoStockWhenClosedAlone
PROPERTIES
  EditedMatches
CHECK_DEADLOCK FALSE

SPECIFICATION Spec
CONSTANTS
  rice = rice
  soap = soap
  None = None
  Items = {rice, soap}
  Reorder <- McReorder
  Labelled = {rice}
  Perishable = {rice}
  EvictDays = 1
  Profiles <- McProfiles
  FirstProfile <- McFirst
  Handled = {rice}
  N = 2
  Orders <- McOrders
  Counts = {1000}
  Managed = {1}
  Disputes = {soap}
  Gaps = {2}
  LastDay = 2
  MaxStock = 13000
  MaxOps = 2
  TruckDays = 1
  DelayDays = 2
  Ages <- McAges
  WindowMin = 1
  WindowMax = 2
  WindowPages = 5
  HeaderSize = 1
  HeaderPages = 2
INVARIANTS
  ScreensAgree
  UnitStable
  DeliveriesShown
  VarianceTrue
CHECK_DEADLOCK FALSE

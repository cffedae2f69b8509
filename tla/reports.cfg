SPECIFICATION ReportsSpec
CONSTANTS
  rice = rice
  soap = soap
  staples = staples
  ghani = ghani
  roy = roy
  None = None
  Bills <- McBills
  Imported = {"old"}
  Items = {rice, soap}
  Cats = {staples}
  Types = {"fine"}
  Names = {"Grains", "Staples"}
  Suppliers = {ghani}
  Brokers = {roy}
  N = 2
  LastDay = 2
  Viewed <- McViewed
  MonthDays = 1
  SoonDays = 3
  Payments = {0, 100}
  MaxOps = 3
INVARIANTS
  ReportsAgree
  DebtsListed
  KeptTrue
CHECK_DEADLOCK FALSE

SPECIFICATION AllSpec
CONSTANTS
  ann = ann
  ben = ben
  cai = cai
  None = None
  Ids = {ann, ben, cai}
  Boss = ann
  Hired = ben
  HiredAs = {"staff"}
  Legacy <- MCLegacy
  Keys = {"reports_access", "delete_access"}
  Denied <- MCDenied
  Patches <- MCPatches
  Batches <- MCBatches
  Hirings = {"staff"}
  Grants <- MCGrants
  Posted <- MCPosted
  BulkActions = {"activate", "deactivate", "block", "unblock", "delete", "set_role"}
  BulkRole = "admin"
  PastScans <- MCScans
  PastEdits <- MCEdits
  LedgerLimit = 4
  Day = 2
  WeekDays = 2
  Start = 5
  LastTick = 6
  MaxOps = 3
  rice = rice
  oil = oil
  Persons = {ann, ben}
  Accounts0 = {ann}
  Workspaces = {1, 2, 3}
  Catalogue <- MCCatalogue
  Minimum <- MCMinimum
  Spaced = {"chilli  ar"}
  Renamed = "other"
  MaxEdits = 2
  MaxJobs = 3
  Nobody = Nobody
  Reporters = {ann, ben}
  Lines <- MCLines
  Items = {rice, oil}
  Given <- MCGiven
  MaxReports = 2
  MaxDecisions = 2
  NoOne = NoOne
  Members = {ann, ben, cai}
  FirstRank <- MCRank
  Goods = {rice}
  Expected <- MCExpected
  Saves <- MCSaves
  MaxSends = 2
  MaxReads = 1
  LastDay = 2
  PerPage = 1
  Never = Never
INVARIANTS
  RevokedStaysOut
  PermissionsFollowRole
  ListFitsRole
  LedgerTrue
  NoTwins
  ApprovedTold
  InboxTrue
CHECK_DEADLOCK FALSE

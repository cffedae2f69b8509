SPECIFICATION Spec
CONSTANTS
  b = b
  boss = boss
  hand = hand
  s1 = s1
  s2 = s2
  a1 = a1
  None = None
  Items = {b}
  Users = {boss, hand}
  Role <- OwnerRole
  Audits = {a1}
  Sessions = {s1, s2}
  UserOf <- MCUserOf
  OpsOf <- MCOpsOf
  Counts <- DeskCounts
  Edits <- DeskEdit
  Kinds = {"correction"}
  InitStock <- DeskStock
  MaxMoves = 2
  MaxLoads = 3
INVARIANTS
  LargeNeedsApproval
  UsageLogTrue
PROPERTIES
  CompletedIsFinal
CHECK_DEADLOCK FALSE

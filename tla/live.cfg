SPECIFICATION LiveSpec
CONSTANTS
  r = r
  n1 = n1
  n2 = n2
  owner = owner
  c1 = c1
  Writers = {r, n1, n2}
  Kind <- MCKind
  Key <- MCKey
  Users = {owner}
  Clients = {c1}
  Views = {"list", "month"}
  Window = 1
  MaxVisits = 1
PROPERTIES
  ToldOnce
  FreshAfterAck
  PurchaseShown
CHECK_DEADLOCK FALSE

SPECIFICATION Spec
CONSTANTS
  a = a
  b = b
  k1 = k1
  k2 = k2
  k3 = k3
  k4 = k4
  k5 = k5
  NoKey = NoKey
  None = None
  Items <- MCItems
  Keys <- MCKeys
  InitStock <- MCInitStock
  Sessions = {s1, s2}
  Jobs <- ReceiptJobs
  MaxBegun = 2
INVARIANTS
  LedgerChain

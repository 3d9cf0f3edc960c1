CONSTANTS
  l1 = l1
  l2 = l2
  l3 = l3
  l4 = l4
  a = a
  b = b
  d = d
  Listing = {l1, l2}
  Candidate = {a, b}
  Nobody = nobody
  Ttl = 1
  Tasks = {t1, t2}
  Bundle <- MCBundle
  Price <- MCPrice
  CostFrom <- MCCostFrom
  Adapted = {l1, l2}
  SettingsSet <- MCAmple
  NotSupplied = notsupplied
  MaxNow = 1
  MayRaise = TRUE
  CallBound <- MCCallBound
  MaxCallsOfA = 2
SPECIFICATION Spec
INVARIANT OutcomesAreTruthful
INVARIANT SoftClaimsAreOwned
PROPERTY KeepsLeases
CHECK_DEADLOCK FALSE

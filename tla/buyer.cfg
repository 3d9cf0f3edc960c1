CONSTANTS
  l1 = l1
  l2 = l2
  l3 = l3
  l4 = l4
  a = a
  b = b
  d = d
  Listing = {l1, l2, l3, l4}
  Candidate = {a, b, d}
  Nobody = nobody
  Ttl = 2
  Tasks = {t1, t2}
  Bundle <- MCBundle
  Price <- MCPrice
  CostFrom <- MCCostFrom
  Adapted = {l1, l2, l3}
  SettingsSet <- MCSettingsSet
  NotSupplied = notsupplied
  MaxNow = 1
  MayRaise = TRUE
  CallBound <- MCCallBound
  MaxCallsOfA = 1
SPECIFICATION Spec
INVARIANT TypeOK
INVARIANT CallWithinBudget
INVARIANT ClaimsFollowCalls
INVARIANT OneOrderPerListing
PROPERTY CallsEnd
CHECK_DEADLOCK FALSE

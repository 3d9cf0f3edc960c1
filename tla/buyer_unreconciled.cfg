CONSTANTS
  l1 = l1
  l2 = l2
  l3 = l3
  l4 = l4
  a = a
  b = b
  d = d
  Listing = {l1, l2, l3, l4}
  Candidate = {a, b}
  Nobody = nobody
  Ttl = 2
  Tasks = {t1}
  Bundle <- MCBundle
  Price <- MCPrice
  CostFrom <- MCCostFrom
  Adapted = {l1, l2, l3, l4}
  SettingsSet <- MCAmple
  NotSupplied = notsupplied
  MaxNow = 2
  MayRaise = FALSE
  CallBound <- MCCallBound
  MaxCallsOfA = 1
SPECIFICATION Spec
INVARIANT UnreconciledStaysClaimed
CHECK_DEADLOCK FALSE

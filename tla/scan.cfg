CONSTANTS
  l1 = l1
  l2 = l2
  l3 = l3
  l4 = l4
  a = a
  b = b
  d = d
  e = e
  x = x
  Listing = {l1, l2, l3, l4}
  Candidate = {a, b, d, e, x}
  Nobody = nobody
  Ttl = 1
  Bundle <- MCBundle
  Plans <- MCPlans
  ListingId <- MCListingId
  WithAdapter = {l1, l2, l4}
  IllDefined = {x}
  MaxCandidates = 2
  MaxNow = 1
SPECIFICATION Spec
INVARIANT TypeOK
INVARIANT DecisionsAreBacked
INVARIANT DecisionsAreComplete
PROPERTY ScansEnd

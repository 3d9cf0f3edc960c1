CONSTANTS
  Listing = {l1, l2}
  Candidate = {a, b, c}
  Nobody = nobody
  Ttl = 2
  MaxNow = 4
SPECIFICATION Spec
INVARIANT TypeOK
PROPERTY KeepsLeases
PROPERTY PurchaseIsKept

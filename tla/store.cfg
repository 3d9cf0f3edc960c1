CONSTANTS
  Process = {p1, p2}
  Scripts <- MCScripts
  None = none
  Key <- MCKey
  Cell <- MCCell
  Column <- MCColumn
  Stamps = {"observed_at"}
SYMMETRY MCSymmetry
SPECIFICATION Spec
INVARIANT TypeOK
INVARIANT OneActiveClaim
PROPERTY LedgerIsAppendOnly
PROPERTY StoreIsAtomic
CHECK_DEADLOCK FALSE

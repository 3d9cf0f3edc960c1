CONSTANTS
  Prospect <- MCProspect
  LeadOf <- MCLeadOf
  AboveFloor <- MCAboveFloor
  Allowed <- MCProspect
  Poison <- MCFirst
  Boards <- MCBoards
  Top = 2
  Window = 1
  MayMiss = TRUE
  Buyer = TRUE
SPECIFICATION Spec
INVARIANT TypeOK
INVARIANT LeadsRotate
INVARIANT ExecutionFollowsRecord
PROPERTY RotationReachesAll

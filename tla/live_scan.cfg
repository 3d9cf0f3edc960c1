CONSTANTS
  MaxAttempts = 3
  BaseDelay = 8
  MaxDelay = 12
  RetryAfters = {0, 40}
  PageLimit = 3
  Markets <- MCMarkets
  InputCount = 3
  Home <- MCHome
  InputRange <- MCInputRange
  Pool <- MCPool
  OutputRange <- MCOutputRange
  MaxDistinct = 2
  MinPerCollection = 1
  MaxBudgets = 6
  MaxCandidates = 8
  PointLimits = {1, 20}
  MaxWanted = 7
  NamesPerRequest = 4
  AskNameLimit = 1
  ListingLimit = 6
  PerNameLimit = 3
  TargetLists <- MCTargetLists
SPECIFICATION Spec
INVARIANT LiveTypeOK
INVARIANT RequestsAreAccounted
INVARIANT ReportIsHonest
INVARIANT BundlesAreBest
PROPERTY RequestsSettle
CHECK_DEADLOCK FALSE

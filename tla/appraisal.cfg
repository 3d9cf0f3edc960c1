CONSTANTS
  Haircut <- MCHaircut
  DaysToSale <- MCDaysToSale
  Confidence <- MCConfidence
  Weight <- MCWeight
  Quantile <- MCQuantile
  FullEvidence = 3
  MaxAge = 1
  CarryRate <- MCCarryRate
  FactorGrid = 10000
  SurvivalGrid = 100
  BaseSurvival = 97
  FloorSurvival = 50
  SalvageRate <- MCSalvageRate
  OperationalCost = 2
  FixedDays = 4
  Limits <- MCLimits
  Venue = 9
  Network = 8
  MaxQuoteAge = 2
  VolatilityHaircut <- MCVolatility
  Contracts = 3
  Headrooms <- MCHeadrooms
  Targets <- MCTargets
  Rates <- MCRates
  Candidate <- MCCandidates
  Schedule <- MCSchedules
  Quote <- MCQuotes
  Capital <- MCCapitals
  Said <- MCSaid
  Caps = {0, 1, 5, 10, 11, 12, 30}
  MaxAppraised = 2
  Key = {"k1", "k2"}
  Rarity = {"MIL_SPEC", "RESTRICTED"}
  Price <- MCPrices
  Currency = {"USD", "EUR"}
  Base = "USD"
  OrderLists <- MCOrderLists
  Boards <- MCBoards
  Measures <- MCMeasures
SPECIFICATION ReviewSpec
CHECK_DEADLOCK FALSE
INVARIANT AppraisalTypeOK
INVARIANT NothingOverstated
INVARIANT CardIsSound
INVARIANT CapIsExact
INVARIANT TargetsAreSafe
INVARIANT VerdictsRestOnEvidence
PROPERTY OrdersGetVerdicts

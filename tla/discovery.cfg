CONSTANTS
  Quality = {"NORMAL", "STATTRAK"}
  Exacts = {70, 95}
  Default = 12
  Cost = 30
  MinReliable = 2
  MaxRows = 3
  Payloads <- MCPayloads
  RuleSets <- MCRuleSets
  FillerPool = 2
  MaxUnpriced <- MCMaxUnpriced
  MaxCost = {34}
  Schedule <- MCSchedule
  Reference = "skinport"
  Catalogues <- MCCatalogues
  Listings <- MCListings
  Purse = "eur"
  Floors <- MCFloors
SPECIFICATION DiscoverySpec
INVARIANT DiscoveryTypeOK
INVARIANT ItemsAreIdentified
INVARIANT HaircutsFollowTheRecord
INVARIANT LeadsAreBuyable
PROPERTY OnlyNewsMoves

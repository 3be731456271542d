CONSTANTS
  NoVintage = NoVintage
  NoTract = NoTract
  Decennial <- MCDecennial
  ACS5 <- MCACS5
  Vintage <- MCVintage
  Stored = "t1"
  TractIn <- MCTractIn
  Trimmed <- MCTrimmed
  Suffixless = {"t1"}
  Published <- MCPublished
  MaxLosses = 2
  Places <- MCPlaces
  Portals <- MCPortals
  MaxRuns = 2
  MaxChanges = 1
  Catalogues <- MCCatalogues
  MaxItems = 2
  MaxTopoRuns = 2
  Pools <- MCPools
  TilePools <- MCTilePools
  Side <- MCSide
  Policies <- MCPolicies
  RetryAfters = {0, 54, 100000}
  SlotWaits = {0, 10}
SPECIFICATION TasksSpec
CHECK_DEADLOCK FALSE
INVARIANT EventsAreThisAddress

CONSTANTS
  Callers = {"a", "b"}
  Lives = {1, 3}
  Margin = 2
  MaxNow = 2
  Visitors = {"v1", "v2"}
  CensusPoint <- MCCensusPoint
  Points = {0, 1}
  Suggestions = {1}
  TractOf <- MCTractOf
  Radius = 1
  MaxSearches = 3
  NoPoint <- MCNoPoint
  None = "none"
  Requests = {"r1", "r2"}
  Processes = {"api"}
  Mosaic <- MCMosaic
  Life = 3
  CopyMargin = 2
  RowTTL = 2
  StacTTL = 2
  MaxReplacements = 1
  MaxTokens = 2
  MaxTime = 5
  Times = 2
  Window = 3
SPECIFICATION ServingSpec
CHECK_DEADLOCK FALSE
INVARIANT ServingTypeOK
INVARIANT TokensOutliveReads
INVARIANT MintsAreSound
INVARIANT OldScenesGoAway
INVARIANT ParcelsAreSound
INVARIANT RefusalsAreFair
PROPERTY WaitersAreAnswered
PROPERTY DeliveredIsShown

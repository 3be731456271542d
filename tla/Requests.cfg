CONSTANTS
  FullScope <- MCFullScope
  Attempted <- MCAttempted
  LedgerSource <- MCLedgerSource
  WholeSource = "topo"
  Seeds <- MCSeeds
  MaxRequests = 3
  MaxBad = 1
  MaxNow = 2
  MaxRedeliveries = 1
  Fleet <- MCFleet
  Parcels <- MCParcels
  Sessions = {"v"}
  HardCap = 2
  Reserves = {1, 3}
  Budget = 1
  MaxSweeps = 2
  MaxLate = 1
SPECIFICATION RequestsSpec
CHECK_DEADLOCK FALSE
INVARIANT BackfillTypeOK
INVARIANT BackfillsWait
INVARIANT NothingFailedIsForgotten
INVARIANT QueueIsShared
INVARIANT NobodyIsDropped
PROPERTY BackfillStaysQuiet
PROPERTY BackfillSettles
PROPERTY BackfillHealsOnce
PROPERTY SweepEnds

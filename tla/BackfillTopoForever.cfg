CONSTANTS
  FullScope <- MCFullScope
  Attempted <- MCAttempted
  LedgerSource <- MCLedgerSource
  WholeSource = "topo"
  Seeds <- MCSeeds
  MaxRequests = 3
  MaxBad = 1
  MaxNow = 2
  MaxRedeliveries = 1
SPECIFICATION BackfillSpec
CHECK_DEADLOCK FALSE
PROPERTY BackfillTopoEnds

SPECIFICATION FairSpec
CONSTANTS
    MaxRecords = 3
    MaxLive = 2
    EventCapacity = 2
    HistoryLimit = 2
    OutputCapacity = 1
    Setups <- MCSetups
INVARIANTS
  EndToldOnce
PROPERTIES
  SubmitsNewest
  LatestApplied
  RunReturns
CHECK_DEADLOCK FALSE

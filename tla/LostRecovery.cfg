SPECIFICATION FairSpec
CONSTANTS
  Kind = {"delta"}
  MaxSeq = 4
  MaxBlock = 1
  MaxSilent = 2
  DirectAppends = FALSE
  Retention = 5
  MaxPending = 2
  MaxBatchSize = 2
  MaxFaults = 0
  MaxVisits = 0
PROPERTY IncompleteProjectionsRecover
CHECK_DEADLOCK FALSE

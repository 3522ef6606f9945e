SPECIFICATION FairSpec
CONSTANTS
  Kind = {"cut", "delta"}
  MaxSeq = 3
  MaxBlock = 1
  MaxSilent = 1
  DirectAppends = FALSE
  Retention = 5
  MaxPending = 1
  MaxBatchSize = 2
  MaxFaults = 0
  MaxVisits = 0
PROPERTY RecoversUnlessOverlapped
CHECK_DEADLOCK FALSE

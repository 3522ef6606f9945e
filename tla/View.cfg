SPECIFICATION FairSpec
CONSTANTS
  Kind = {"delta"}
  MaxSeq = 2
  MaxBlock = 2
  MaxSilent = 0
  DirectAppends = TRUE
  Retention = 0
  MaxPending = 1
  MaxBatchSize = 2
  MaxFaults = 1
  MaxVisits = 1
INVARIANT TypeOK
INVARIANT AcceptedIsHandedOver
PROPERTY ViewSpec
PROPERTY PublishedArrives
CHECK_DEADLOCK FALSE

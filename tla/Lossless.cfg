SPECIFICATION Spec
CONSTANTS
  Kind = {"delta", "terminal"}
  MaxSeq = 3
  MaxBlock = 2
  MaxSilent = 0
  DirectAppends = FALSE
  Retention = 1
  MaxPending = 1
  MaxBatchSize = 2
  MaxFaults = 1
  MaxVisits = 1
INVARIANT LosslessDelivery
CHECK_DEADLOCK FALSE

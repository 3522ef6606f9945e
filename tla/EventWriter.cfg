SPECIFICATION FairSpec
CONSTANTS
  Thread = {"a", "b"}
  Stream = {"content", "reasoning", "item", "raw", "preview"}
  Streaming = {"a"}
  MaxAppends = 3
  MaxFlushes = 1
  MaxFaults = 1
CHECK_DEADLOCK FALSE
INVARIANT TypeOK
INVARIANT StreamsAreKept
INVARIANT OrderIsKept
INVARIANT FlushMeansStored
PROPERTY WriterSettles

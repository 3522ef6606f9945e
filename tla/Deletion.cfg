SPECIFICATION FairSpec
CONSTANTS
  Turn = {t1,t2}
  t1 = t1
  t2 = t2
  Input = {i1}
  i1 = i1
  NoTurn = NoTurn
  NoInput = NoInput
  MaxQueued = 1
  DispatchMayFail = FALSE
  MaxPending = 0
  MaxOther = 1
  OtherKind = {"user_shell","review"}
  MaxCancels = 0
  MaxRestarts = 0
  Deletes = TRUE
  Migrates = FALSE
CHECK_DEADLOCK FALSE
INVARIANT TypeOK
INVARIANT DeletionHasDrained
PROPERTY DeletionIsReached
PROPERTY QueueDrains
PROPERTY CallsAreAnswered

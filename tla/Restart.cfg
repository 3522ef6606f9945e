SPECIFICATION Spec
CONSTANTS
  Turn = {t1,t2,t3}
  t1 = t1
  t2 = t2
  t3 = t3
  Input = {i1,i2}
  i1 = i1
  i2 = i2
  NoTurn = NoTurn
  NoInput = NoInput
  MaxQueued = 2
  DispatchMayFail = TRUE
  MaxPending = 1
  MaxOther = 0
  OtherKind = {}
  MaxCancels = 1
  MaxRestarts = 1
  Deletes = FALSE
  Migrates = TRUE
SYMMETRY Symmetry
INVARIANT OneHolder
INVARIANT SingleActive
INVARIANT NoStrandedSteer
INVARIANT SettledTurnHasEnded
PROPERTY LedgerSpec
PROPERTY MigrationFreezesThread
CHECK_DEADLOCK FALSE

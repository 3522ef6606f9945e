SPECIFICATION Spec
CONSTANTS
  Turn = {t1,t2,t3}
  t1 = t1
  t2 = t2
  t3 = t3
  Input = {i1,i2,i3}
  i1 = i1
  i2 = i2
  i3 = i3
  NoTurn = NoTurn
  NoInput = NoInput
  MaxQueued = 2
  DispatchMayFail = FALSE
  MaxPending = 1
  MaxOther = 0
  OtherKind = {}
  MaxCancels = 1
  MaxRestarts = 0
  Deletes = FALSE
  Migrates = FALSE
SYMMETRY Symmetry
INVARIANT SentAtMostOnce
INVARIANT WithdrawnIsNotSent
INVARIANT AcceptedInputIsKept
INVARIANT QueueIsBounded
INVARIANT QueueDoesNotStall
PROPERTY ReorderIsExact
PROPERTY LateSettlementDoesNotPause
CHECK_DEADLOCK FALSE

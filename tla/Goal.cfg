SPECIFICATION Spec
CONSTANTS
  t1 = t1
  t2 = t2
  o1 = o1
  o2 = o2
  Turn = {t1, t2}
  NoTurn = NoTurn
  Objective = {o1, o2}
  Keep = Keep
  NoGoal = NoGoal
  NoReceipt = NoReceipt
  MaxAutomatic = 1
  MaxIdle = 1
  MaxAttempts = 1
  MaxSpent = 3
  Failures = TRUE
  Commands = TRUE
SYMMETRY Symmetry
CHECK_DEADLOCK FALSE
INVARIANT TypeOK
INVARIANT UserStopHolds
INVARIANT UsageCountedOnce
INVARIANT AutonomyIsBounded
PROPERTY CompletionIsVerified

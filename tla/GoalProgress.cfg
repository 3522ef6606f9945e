SPECIFICATION FairSpec
CONSTANTS
  t1 = t1
  t2 = t2
  o1 = o1
  Turn = {t1, t2}
  NoTurn = NoTurn
  Objective = {o1}
  Keep = Keep
  NoGoal = NoGoal
  NoReceipt = NoReceipt
  MaxAutomatic = 1
  MaxIdle = 1
  MaxAttempts = 1
  MaxSpent = 3
  Failures = FALSE
  Commands = TRUE
CHECK_DEADLOCK FALSE
PROPERTY GoalDoesNotStall

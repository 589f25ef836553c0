SPECIFICATION FairSpec
CONSTANTS
  Ids = {i1, i2}
  Tasks = {t1, t2}
  None = None
  Free = Free
  Capacity = 3
  Delays = {0, 1, 2, 3}
  MaxBacklog = 1
  FreshIds = TRUE
INVARIANTS
  WheelInv
  CancelledStaysSilent
PROPERTY
  TimerGetsItsTurn

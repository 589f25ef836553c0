SPECIFICATION FairSpec
CONSTANTS
  Looper = looper
  Others = {th1, th2}
  Owner = looper
  Tasks = {f1, f2, f3}
  None = None
INVARIANTS
  SleepSafe
  LoopInv
PROPERTIES
  ServiceSpec
  TaskGetsItsTurn
  QuitReturns

SPECIFICATION Spec
CONSTANTS
  Ids = {i1}
  Tasks = {t1, t2}
  None = None
  Free = Free
  Capacity = 4
  Delays = {0, 1, 2, 3, 4}
  MaxBacklog = 2
  FreshIds = FALSE
SYMMETRY TaskSymmetry
INVARIANTS
  FiresOnSchedule
  EarlyByLagOnly
PROPERTY
  ServiceSpec

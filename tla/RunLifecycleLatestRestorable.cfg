SPECIFICATION Spec
CONSTANTS
  None = None
  Total = 2
  Trainers <- MCTrainers
  Keep = 1
  ParentStep = 1
  MaxLaunches = 3
INVARIANTS
  LatestIsRestorable
CHECK_DEADLOCK FALSE

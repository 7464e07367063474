SPECIFICATION Spec
CONSTANTS
  None = None
  Total = 2
  Trainers <- MCTrainers
  Keep = 1
  ParentStep = 1
  MaxLaunches = 3
INVARIANTS
  TypeOK
  CompletedIsWhole
  SelectedIsPublic
  SB3LatestIsRestorable
PROPERTIES
  SB3LatestNeverRegresses
CHECK_DEADLOCK FALSE

SPECIFICATION Spec
CONSTANTS
  None = None
  Horizon = 2
  MinVelocity = 1
  FlatSteps = 2
  TotalSteps = 4
  RoughSteps = 2
  PilotSteps = 1
  Cadence = 1
  EpisodeCount = 2
  Required = 1
  PreferredMean = 1
  Velocities <- FallsOrCrawls
  Digests = {d1, d2}
  MaxLaunches = 3
INVARIANTS
  TypeOK
  FinalSeedsTouchOneCheckpoint
  FinalIsProven
  PilotIsAuthorized
CHECK_DEADLOCK FALSE

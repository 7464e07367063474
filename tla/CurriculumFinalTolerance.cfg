SPECIFICATION Spec
CONSTANTS
  None = None
  Horizon = 2
  MinVelocity = 2
  FlatSteps = 2
  TotalSteps = 4
  RoughSteps = 2
  PilotSteps = 1
  Cadence = 1
  EpisodeCount = 3
  Required = 2
  PreferredMean = 3
  Velocities <- FallsOrWalks
  Digests = {d1, d2}
  MaxLaunches = 1
INVARIANT FinalAcceptanceTolerates
CHECK_DEADLOCK FALSE

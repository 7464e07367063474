SPECIFICATION Spec
CONSTANTS
  None = None
  robot = robot
  setup = setup
  r1 = r1
  r2 = r2
  i1 = i1
  i2 = i2
  Robot = robot
  Setup = setup
  Releases = {r1, r2}
  Images = {i1, i2}
  ReleaseOf <- MCReleaseOf
  Supports <- MCSupports
  Deployments <- MCDeployments
  MaxDeploys = 1
  Task = "walk-forward"
  Contract <- MCContract
  RunawayAt = 20
  Stride = 1000
  Threshold = 90
  Motions <- MCMotions
  Settled <- MCSettled
  TotalSteps = 6
  RolloutSteps = 4
  CheckpointEvery = 2
  EvaluationEvery = 2
  ProgressSeeds <- MCProgressSeeds
  ProgressEpisodes = 1
  FinalSeeds <- MCFinalSeeds
  FinalEpisodes = 2
INVARIANTS
  TypeOK
  AcceptedIsProven
  TrainsWhatWasAccepted
  ListedIsWhole
  PublishedIsEarliestBest
CHECK_DEADLOCK FALSE

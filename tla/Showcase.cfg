SPECIFICATION Spec
CONSTANTS
  g1 = g1
  hopper = hopper
  r1 = r1
  recording = recording
  h1 = h1
  h2 = h2
  None = None
  Examples <- MCExamples
  Threads <- MCThreads
  Manifests <- MCManifests
  Pinnings <- MCPinnings
  Environment <- MCEnvironment
  Backend <- MCBackend
  Phases <- MCPhases
  Recordings <- MCRecordings
  Required = {"policy", "video"}
  Patience = 1
  MaxDeploys = 1
  MaxPublished = 2
INVARIANTS
  TypeOK
  ServedIsEvidenced
PROPERTIES
  GoodRunsAppear

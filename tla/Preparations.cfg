SPECIFICATION FairSpec
CONSTANTS
  s1 = s1
  s2 = s2
  v1 = v1
  v2 = v2
  None = None
  Setups <- MCSetups
  Versions <- MCVersions
  MaxActive = 1
  FinalizeAttempts = 1
  MaxAttempts = 2
  MaxCrashes = 2
INVARIANTS
  TypeOK
  OneUsablePerFingerprint
  EvidenceIsGenuine
  ReadyCanStart
PROPERTIES
  EveryAttemptFinishes
  ImplementsContract
CHECK_DEADLOCK FALSE

SPECIFICATION FairSpec
CONSTANTS
  j1 = j1
  j2 = j2
  t1 = t1
  k1 = k1
  k2 = k2
  None = None
  Jobs <- MCJobs
  Tenants <- MCTenants
  Keys <- MCKeys
  MaxActive = 1
  MaxDaily = 1
  Timeout = 1
  Margin = 1
  RemoteLife = 2
  FinalizeAttempts = 2
  MaxCrashes = 1
INVARIANTS
  TypeOK
  QuotaRespected
  CompletedIsGated
  SubmittedOnce
  OneJobPerKey
  LiveRemoteAccounted
  ExecutingIsNonTerminalUntilRestart
PROPERTIES
  EveryJobFinishes
  ImplementsContract

SPECIFICATION FairSpec
CONSTANTS
  r1 = r1
  r2 = r2
  addr = addr
  Unknown = Unknown
  NoRequest = NoRequest
  Requests <- MCRequests
  Clients <- MCClients
  Kinds <- MCKinds
  Settings <- MCSettings
  FileConfig <- MCFileConfig
  Burst = 1
  PerMinute = 60
  MaxTime = 1
  CallsMayFail = TRUE
  MaxRestarts = 1
INVARIANTS
  TypeOK
  UpstreamSeesOnlyPassed
  RecordsFollowVerdicts
PROPERTIES
  ImplementsFirewall
  CallsHoldNobodyUp
CHECK_DEADLOCK FALSE

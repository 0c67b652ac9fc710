SPECIFICATION FairSpec
CONSTANTS
  r1 = r1
  r2 = r2
  addr = addr
  Unknown = Unknown
  NoRequest = NoRequest
  Requests <- MCRequests
  Clients <- MCClients
  Kinds <- MCKinds
  Settings <- MCSettings
  FileConfig <- MCFileConfig
  Burst = 1
  PerMinute = 60
  MaxTime = 1
  CallsMayFail = FALSE
  MaxRestarts = 0
PROPERTY
  BlockedIsReported
CHECK_DEADLOCK FALSE

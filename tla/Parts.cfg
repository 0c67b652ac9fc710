SPECIFICATION PartsSpec
CONSTANTS
  Clients = {"c1", "c2"}
  Burst = 2
  PerMinute = 40
  MaxTime = 5
  Shapes <- MCShapes
  NoIp = "no ip"
  Threshold <- MCThreshold
  Window = 2
  Rapid = 1
  MaxEvents = 2
  MaxLate = 1
  MaxArrivals = 4
  MaxSeconds = 2
  Streams = {"s1", "s2", "s3"}
  Events = {"m1", "m2"}
  StreamBuffer = 1
  DayLength = 3
  Zones <- MCZones
  Minutes = 1
  Retention = 1
  MaxSkew = 1
  MaxRows = 2
  MaxTick = 7
  RuleIds = {"seed1", "seed2", "own"}
  Seeds = {"seed1", "seed2"}
  Addresses = {"ip"}
  Reasons = {"scan", "spam"}
  NoReason = "no reason"
  Agents = {"agent"}
  Postures = {"monitor", "standard"}
  FilePosture = "standard"
  SeedPosture = "monitor"
  MaxEdits = 4
  MaxStarts = 3
  Visitors = {"v1", "v2"}
  Reports = {"i1", "i2"}
  MaxCounted = 2
  LogEvents = {"e1", "e2", "e3", "e4"}
  FirstLimit = 1
  PollLimit = 2
  MaxStamp = 3
INVARIANTS
  PartsTypeOK
  RateBound
  SseMissesAreExplained
  WindowsErrByADay
  TablesFollowEdits
  PartWithinWhole
  LogMissesAreExplained
PROPERTIES
  SiemTellsTheWindow
CHECK_DEADLOCK FALSE

SPECIFICATION RunFairSpec
CONSTANTS
  Scans = {"s1", "s2"}
  NoScan = "no scan"
  Findings = 2
  MaxRestarts = 1
  Https = {"s1"}
INVARIANTS
  RunTypeOK
  GuardMatchesScan
  RowsTellTheScan
  FindingsAreMadeUp
  StatsTellTheScan
PROPERTIES
  GuardIsGivenBack
  OnlyAnUntimedStepHangs
CHECK_DEADLOCK FALSE

SPECIFICATION FairSpec
CONSTANTS
  c1 = c1
  c2 = c2
  c3 = c3
  NoCaller = NoCaller
  CountMod = 4
  Callers <- MCCallers
  Configs <- MCConfigs
INVARIANTS
  TypeOK
  HalfOpenMissesQuorum
PROPERTIES
  OpensAtThreshold
  ClosesAfterQuorum
  InversionIsForEver
  CallsReturn
  ImplementsPromise
CHECK_DEADLOCK FALSE

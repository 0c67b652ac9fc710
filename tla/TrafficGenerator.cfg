SPECIFICATION FairSpec
CONSTANTS
  Admins = {"a1", "a2"}
  MaxStarts = 3
PROPERTY
  StartBeginsTraffic
CHECK_DEADLOCK FALSE

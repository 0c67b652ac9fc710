SPECIFICATION WindowSpec
CONSTANTS
  DayLength = 3
  Zones = {0}
  Minutes = 1
  Retention = 1
  MaxSkew = 0
  MaxRows = 1
  MaxTick = 7
INVARIANT CountsAreOfTheWindow
CHECK_DEADLOCK FALSE

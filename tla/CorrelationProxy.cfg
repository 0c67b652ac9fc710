SPECIFICATION Spec
CONSTANTS
  Messages <- ProxyMessages
  AtLeast <- Thresholds
  Within <- Windows
  Period = 2
  Lag = 1
  Ahead = 0
  Retention = 3
  QueriesMayFail = FALSE
  MaxRows = 2
  MaxTime = 4
INVARIANT IncidentsAreTrue
CHECK_DEADLOCK FALSE

SPECIFICATION Spec
CONSTANTS
  Messages <- MixedMessages
  AtLeast <- Thresholds
  Within <- Windows
  Period = 2
  Lag = 1
  Ahead = 1
  Retention = 3
  QueriesMayFail = TRUE
  MaxRows = 3
  MaxTime = 6
INVARIANTS
  TypeOK
  IncidentsErrBySenders
  NoticedInTime
CHECK_DEADLOCK FALSE

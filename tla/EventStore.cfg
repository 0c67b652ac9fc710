SPECIFICATION FairSpec
CONSTANTS
  k1 = k1
  k2 = k2
  FlushLoop = FlushLoop
  NoFlusher = NoFlusher
  Closers <- MCClosers
  QueueCap = 3
  FlushSize = 2
  WritesMayFail = TRUE
  MaxEvents = 4
  MaxRestarts = 1
INVARIANTS
  TypeOK
  EveryEventInOnePlace
  SettledInArrivalOrder
PROPERTIES
  QueuedIsSettled
  CloseReturns
CHECK_DEADLOCK FALSE

SPECIFICATION FairSpec
CONSTANTS
  FlushLoop = FlushLoop
  NoFlusher = NoFlusher
  Closers = {}
  QueueCap = 2
  FlushSize = 2
  WritesMayFail = FALSE
  MaxEvents = 4
  MaxRestarts = 0
PROPERTY
  EverythingIsPersisted

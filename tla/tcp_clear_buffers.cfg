SPECIFICATION Spec
CONSTANTS
  MaxBlockSize = 3
  ChunkSize = 2
  IoThreads = 1
  Calls <- Clearing
  LossErrors <- AnyLoss
  ShutdownErrors <- AnyShutdownError
  NetCapacity = 2
  MaxBytes = 2
  MaxPeerBytes = 2
  MaxConnects = 1
INVARIANT QueuedDataSurvives
CHECK_DEADLOCK FALSE

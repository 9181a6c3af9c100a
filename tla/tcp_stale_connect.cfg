SPECIFICATION Spec
CONSTANTS
  MaxBlockSize = 3
  ChunkSize = 2
  IoThreads = 1
  Calls <- Redialling
  LossErrors <- AnyLoss
  ShutdownErrors <- AnyShutdownError
  NetCapacity = 2
  MaxBytes = 2
  MaxPeerBytes = 2
  MaxConnects = 2
INVARIANT ConnectedMeansOpen
CHECK_DEADLOCK FALSE

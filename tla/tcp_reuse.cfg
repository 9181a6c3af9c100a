SPECIFICATION Spec
CONSTANTS
  MaxBlockSize = 2
  ChunkSize = 2
  IoThreads = 2
  Calls <- AnyOrder
  LossErrors <- AnyLoss
  ShutdownErrors <- AnyShutdownError
  NetCapacity = 2
  MaxBytes = 2
  MaxPeerBytes = 2
  MaxConnects = 2
INVARIANTS
  TypeOK
  OneSendInFlight
  OneReceiveInFlight
  BuffersBounded
CHECK_DEADLOCK FALSE

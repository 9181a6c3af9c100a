SPECIFICATION FairSpec
CONSTANTS
  MaxBlockSize = 3
  ChunkSize = 2
  IoThreads = 1
  Calls <- OneConnection
  LossErrors <- AnyLoss
  ShutdownErrors <- AnyShutdownError
  NetCapacity = 2
  MaxBytes = 2
  MaxPeerBytes = 4
  MaxConnects = 1
INVARIANTS
  SendIntegrity
  ReceiveIntegrity
  EraseWithinBuffer
  ReceiveNeverStalls
  SendNeverStalls
  FinAfterData
  EofAfterData
PROPERTIES
  ShutdownCompletes
  AcceptedBytesLeave
  PeerBytesDelivered
CHECK_DEADLOCK FALSE

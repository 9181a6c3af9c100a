SPECIFICATION Spec
CONSTANTS
  MaxBlockSize = 3
  ChunkSize = 2
  IoThreads = 1
  NetCapacity = 2
  BytesAtoB = 4
  BytesBtoA = 2
PROPERTIES
  BothStreams
  GracefulTermination
CHECK_DEADLOCK FALSE

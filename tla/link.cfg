SPECIFICATION FairSpec
CONSTANTS
  Streams <- TwoStreams
  MessageStreams <- OnlySecond
  HeaderSize = 2
  SizeField = 1
  MaxBlockSize = 5
  ChunkSize = 3
  Reopenings <- Explicit
  MaxSegments = 3
  MaxConnections = 2
  One = 0
  Other = 1
INVARIANTS
  TypeOK
  InStep
PROPERTIES
  EachStream
  Delivery
CHECK_DEADLOCK FALSE

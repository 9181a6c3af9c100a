SPECIFICATION FairSpec
CONSTANTS
  Senders = {e1, e2}
  MaxBlockSize = 2
  MaxDatagram = 2
  UdpFaults = {"clear", "close", "error"}
  MaxBytes = 2
  MaxUdpFaults = 2
  ListenerFaults = {"close", "listen", "reset", "error"}
  MaxPeers = 2
  MaxListenerFaults = 2
  MaxThreads = 2
  MaxStops = 1
INVARIANTS
  BytesInOrder
  UdpNeverStalls
  FetchedOnce
  AcceptsOn
PROPERTIES
  DatagramsDelivered
  ConnectionsFetched
CHECK_DEADLOCK FALSE

SPECIFICATION FairSpec
CONSTANTS
  MaxQueued = 2
  MaxRecords = 2
  MaxBlocks = 2
INVARIANT DataIntegrity
PROPERTIES
  DataArrives
  ClosureCompletes
CHECK_DEADLOCK FALSE

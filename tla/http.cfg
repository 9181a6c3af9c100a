SPECIFICATION FairSpec
CONSTANTS
  Requests = {r1, r2}
  None = None
  Kinds = {"keep", "close", "eof"}
  Faults = {"drop", "die", "slow", "race"}
  MaxSends = 3
  MaxFaults = 2
INVARIANTS
  ResponseIntegrity
  Synchronized
  AskedIsOutstanding
PROPERTIES
  EveryRequestCompletes
CHECK_DEADLOCK FALSE

SPECIFICATION FairSpec
CONSTANTS
  c1 = c1
  c2 = c2
  Clients <- OneClient
  Values = {0}
  Relocate = FALSE
  LinkCapacity = 2
  MaxObjects = 2
INVARIANT OnlyTaintedFail
PROPERTIES
  CreationsArrive
  DestructionsArrive
CHECK_DEADLOCK FALSE

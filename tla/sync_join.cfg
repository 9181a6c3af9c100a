SPECIFICATION Spec
CONSTANTS
  c1 = c1
  c2 = c2
  Clients <- OneClient
  Values = {0, 1}
  Relocate = FALSE
  LinkCapacity = 4
  MaxObjects = 2
INVARIANT CreatedOnce
CHECK_DEADLOCK FALSE

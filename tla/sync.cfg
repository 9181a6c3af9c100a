SPECIFICATION Spec
CONSTANTS
  c1 = c1
  c2 = c2
  Clients <- TwoClients
  Values = {0, 7}
  Relocate = TRUE
  LinkCapacity = 1
  MaxObjects = 1
INVARIANTS
  TypeOK
  UpdatesResolve
  ModifiedPending
  ReplicaFollows
SYMMETRY Anyone
CHECK_DEADLOCK FALSE

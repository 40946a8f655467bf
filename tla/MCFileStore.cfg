CONSTANTS
  k1 = k1
  k2 = k2
  p1 = p1
  p2 = p2
  p3 = p3
  empty = empty
  Clients <- MCClients
  Keys <- MCKeys
  Empty = empty
  Plans <- MCPlans
  WorldSize = 3
SPECIFICATION Spec
CHECK_DEADLOCK FALSE
INVARIANTS
  CountsClients
PROPERTIES
  StoreSpec
  GetReturns
  NobodyStuck

CONSTANTS
  k1 = k1
  k2 = k2
  p1 = p1
  p2 = p2
  p3 = p3
  Clients = {p1, p2, p3}
  Server = p1
  Keys = {k1, k2}
  Empty = empty
  Garbled = garbled
  Plans <- MCPlans
  WorldSize = 3
SPECIFICATION Spec
CHECK_DEADLOCK FALSE
INVARIANTS
  WaitsAreTrue
PROPERTIES
  StoreSpec
  GroupForms

CONSTANTS
  t1 = t1
  t2 = t2
  t3 = t3
  t4 = t4
  Tensors <- MCTensors
  Sizes <- MCSizes
  Alignment = 2
SYMMETRY Symmetric
SPECIFICATION Spec
INVARIANTS
  Coalesced
  Accounted
PROPERTIES
  LowestAddress
  AllocatorSpec

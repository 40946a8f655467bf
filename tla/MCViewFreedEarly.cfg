CONSTANTS
  Tensors <- MCTensors
  Graphs <- FreedEarly
  Alignment = 2
SPECIFICATION Spec
INVARIANT ValuesIntact

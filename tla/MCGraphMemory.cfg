CONSTANTS
  Tensors <- MCTensors
  Graphs <- MCGraphs
  Alignment = 2
SPECIFICATION Spec
INVARIANTS
  OperandsIntact
  FitsWorkspace
PROPERTIES
  PlannersLegal
  Terminates

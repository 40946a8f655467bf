SPECIFICATION Spec
CONSTANTS
  p1 = p1
  p2 = p2
  Processes = {p1, p2}
  Tasks = {1, 2}
  Static = {2}
  Candidates = {0, 1}
  Splits <- MCSplits
  Plans <- MCPlans
  Clear = Clear
  Nobody = Nobody
INVARIANTS
  KernelsFit
  Agreement
  RunsAreRecorded
PROPERTIES
  FailsOnTornOnly
  EveryRunEnds
CHECK_DEADLOCK FALSE

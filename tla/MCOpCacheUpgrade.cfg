CONSTANTS
  p1 = p1
  p2 = p2
  Procs <- MCProcs
  Casts <- PlainCasts
  MaxCrashes = 0
SPECIFICATION Spec
INVARIANTS
  OwnVersion

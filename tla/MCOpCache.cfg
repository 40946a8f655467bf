CONSTANTS
  p1 = p1
  p2 = p2
  Procs <- MCProcs
  Casts <- MCCasts
  MaxCrashes = 2
SPECIFICATION Spec
INVARIANTS
  OneBuilder
  FoundIsComplete
  SomeBuildSucceeds
PROPERTIES
  LibraryStays
  EveryoneEnds

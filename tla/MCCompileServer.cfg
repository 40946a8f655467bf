CONSTANTS
  a = a
  b = b
  a1 = a1
  a2 = a2
  b1 = b1
  c1 = c1
  c2 = c2
  good = good
  bad = bad
  Servers <- MCServers
  Threads <- MCThreads
  ServerOf <- MCServerOf
  Commits <- MCCommits
  Modules <- MCModules
  Failing = {bad}
  Loads <- MCLoads
  Stop = Stop
  Nobody = Nobody
  MaxWorkers = 1
  MaxFaults = 1
SPECIFICATION Spec
CHECK_DEADLOCK FALSE
INVARIANTS
  OwnResult
  OneCompiling
  AnswersAreWhole
  FailuresAreReal
PROPERTIES
  LibraryKept
  EveryoneAnswered

CONSTANTS
  w1 = w1
  w2 = w2
  w3 = w3
  plain = plain
  tuned = tuned
  served = served
  broken = broken
  bad = bad
  Main = Main
  Tasks <- MCTasks
  Workers <- MCWorkers
  Calls <- MCCalls
  Plans <- MCPlans
  MaxKills = 1
SPECIFICATION BatchSpec
CHECK_DEADLOCK FALSE
INVARIANTS
  FailuresAreReal
  PermitsKept
PROPERTY EveryBatchEnds

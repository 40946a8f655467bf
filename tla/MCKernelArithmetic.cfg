CONSTANTS
  W = 8
  Modes <- MCModes
  Lengths <- MCLengths
  PartSizes <- MCSizes
  Divisors <- MCDivisors
  SwizzleBits <- MCSwizzleBits
  Bases <- MCBases
SPECIFICATION Spec
CHECK_DEADLOCK FALSE
INVARIANTS
  LayoutsKeepTheirFunction
  LayoutsCompose
  DividesExactly

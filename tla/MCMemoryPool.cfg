CONSTANTS
  Requests = {1, 2, 3}
  BlockSize = 2
  MaxReserve = 4
  Capacity = 8
SPECIFICATION Spec
CONSTRAINT Undisturbed
INVARIANTS
  LiveIsAllocated
  NothingLost
  MemoryErrorIsReal

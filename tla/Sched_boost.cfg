SPECIFICATION Spec
CONSTANTS
  NCORES = 2
  MAX_TASKS = 5
  TIME_SLICE = 2
  Boot <- MiddleBoot
  Holders <- MCHolders
  Objs = {}
  MaxSleep = 0
  MaxPid = 5
INVARIANTS NoZombieLeak BoundedByOneSlice

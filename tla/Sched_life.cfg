SPECIFICATION Spec
CONSTANTS
  NCORES = 2
  MAX_TASKS = 4
  TIME_SLICE = 1
  Boot <- OneBoot
  Holders <- NoHolders
  Objs = {o}
  MaxSleep = 1
  MaxPid = 6
INVARIANTS StackOwned NoPhantomAspace
PROPERTIES ZombieStaysDead WaitIsLeftByWaking

SPECIFICATION Spec
CONSTANTS
  NCORES = 2
  MAX_TASKS = 5
  TIME_SLICE = 1
  Boot <- OneBoot
  Holders <- NoHolders
  Objs = {}
  MaxSleep = 0
  MaxPid = 6
PROPERTY KillHitsTarget

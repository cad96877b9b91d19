SPECIFICATION Spec
CONSTANTS
  NCORES = 2
  MAX_TASKS = 5
  TIME_SLICE = 1
  Boot <- InversionBoot
  Holders <- MCHolders
  Objs = {o}
  MaxSleep = 1
  MaxPid = 5
PROPERTY ZombieStaysDead

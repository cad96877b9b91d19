SPECIFICATION FairSpec
CONSTANTS
  NTASKS = 3
  Base <- ThreePrios
  CoreOf <- TwoCores
  Processes = {1}
  Sems = {s}
  Mutexes = {m}
  InitCount <- OneToken
  MaxCount = 2
  MaxTimeout = 2
INVARIANTS NoLostWakeup NoLostHandoff
PROPERTIES TimeoutXorOwner NoUnboundedInversion TimedCallReturns
CHECK_DEADLOCK FALSE

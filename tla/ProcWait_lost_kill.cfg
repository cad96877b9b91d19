SPECIFICATION FairSpec
CONSTANTS
    MAXPID = 3
    ROOTS = 1
    MAX_TASKS = 3
    MAX_USER_PROCS = 3
    Admins <- ChildIsAdmin
    ExitCodes <- WideCode
PROPERTIES
    KillWorks
CHECK_DEADLOCK FALSE

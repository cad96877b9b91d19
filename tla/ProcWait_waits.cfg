SPECIFICATION FairSpec
CONSTANTS
    MAXPID = 4
    ROOTS = 1
    MAX_TASKS = 2
    MAX_USER_PROCS = 2
    Admins <- ChildIsAdmin
    ExitCodes <- WideCode
PROPERTIES AnswerIsTruth EvictsOrphansFirst WaitAnswered KilledDies
CHECK_DEADLOCK FALSE

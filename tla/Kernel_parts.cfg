SPECIFICATION KernelSpec
CONSTANTS
    NCORES = 2
    MAX_TASKS = 4
    TIME_SLICE = 2
    Boot <- EqualBoot
    Holders <- NoHolders
    Objs = {o}
    MaxSleep = 1
    MaxPid = 4
    EVQ_N = 4
    Events = {none, press, move}
    Zero = none
    Callers = {p1, p2}
    VI_MAX_WORKERS = 4
    MaxRegions = 2
    EndsEarly = FALSE
    Keys = {"a", "b"}
    NoKey = "none"
    Moves <- TwoMoves
    Buttons = {0, 1}
    XMAX = 2
    YMAX = 1
    XK_RING = 3
    MaxReports = 3
    MaxPortEvents = 1
INVARIANTS JoinIsBarrier InputSettles
PROPERTIES ImplementsQueue GetsServed
CHECK_DEADLOCK FALSE

SPECIFICATION MachineSpec
CONSTANTS
    Procs = {p1, p2, p3}
    Cores = {c1, c2}
    MAX_USER_PROCS = 2
    MMU_MAX_ASPACE = 2
    MaxDepth = 3
    VNET_QSIZE = 2
    Wrap = 4
    Frames = {"a", "b"}
    File <- TwoFiles
    MaxTries = 2
    MaxNetFaults = 2
SYMMETRY Alike
INVARIANTS Accounted TranslatesOwn AspaceLeft NetExclusive DaifRestored OkMeansWritten
PROPERTY RingsAreQueues
CHECK_DEADLOCK FALSE

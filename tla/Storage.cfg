CONSTANTS
    Root = k0
    Clusters = {k0, k1, k2, k3}
    Free = Free
    Eoc = Eoc
    Nil = Nil
    Slots = 3
    Dirs = {"d"}
    Leaves = {"a", "b"}
    Paths <- MCPaths
    Long = {"b"}
    one = one
    two = two
    Data = {one, two}
    Blocks <- MCBlocks
    Absent = Absent
    NoCall = NoCall
    GrowthFaults = FALSE
    MaxFaults = 1
    Names = {"bob", "eve"}
    Callers = {c1, c2}
    Passwords = {"pw"}
    Default = "admin"
    MAX_USERS = 2
    MaxUid = 3
    UserFaults = 2
    Tears = TRUE
    HealFails = FALSE
    Corrupt = Corrupt
    NoSave = NoSave
    Pieces = 2
    Values = {"v", "w"}
    Junk = Junk
    MaxCalls = 3
    MaxUsbFaults = 1
SPECIFICATION StorageSpec
SYMMETRY Symmetry
INVARIANTS VolumeSound CacheSafe NoClusterLost Durable AlwaysAGoodCopy UidStable OkMeansDone
PROPERTY VolumeIsStore
CHECK_DEADLOCK FALSE

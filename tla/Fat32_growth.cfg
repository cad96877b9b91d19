CONSTANTS
    Root = c0
    Clusters = {c0, c1, c2, c3}
    Free = Free
    Eoc = Eoc
    Nil = Nil
    Slots = 3
    Dirs = {"d"}
    Leaves = {"a", "b"}
    Paths <- MCPaths
    Long = {"b"}
    one = one
    two = two
    Data = {one, two}
    Blocks <- MCBlocks
    Absent = Absent
    NoCall = NoCall
    GrowthFaults = TRUE
    MaxFaults = 1
SPECIFICATION Spec
SYMMETRY Symmetry
INVARIANT OrphansOnly
CHECK_DEADLOCK TRUE

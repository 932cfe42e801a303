SPECIFICATION LobsterSpec
CONSTANTS
    W32 = 8
    W64 = 16
    Refs = {r1, r2}
    Slots = {o1, o2}
    Prices <- MCPrices
    Quantities = {1, 2}
    kLevels = 2
    nullptr = nullptr
    NDEBUG = FALSE
    Conforming = TRUE
    Times <- MCTimes
    kDepth = 2
    Bad = Bad
    MaxEvents = 3
    MaxBad = 0
SYMMETRY Symmetry
CHECK_DEADLOCK FALSE
INVARIANT SnapshotAfterEvent

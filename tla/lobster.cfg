SPECIFICATION LobsterSpec
CONSTANTS
    W32 = 8
    W64 = 16
    Refs = {r1, r2}
    Slots = {o1, o2}
    Prices <- MCThreePrices
    Quantities = {1}
    kLevels = 2
    nullptr = nullptr
    NDEBUG = FALSE
    Conforming = TRUE
    Times <- MCTimes
    kDepth = 3
    Bad = Bad
    MaxEvents = 4
    MaxBad = 1
SYMMETRY Symmetry
CHECK_DEADLOCK FALSE
INVARIANT PerfectBookScoresZero
PROPERTIES ComparedOnTime LeftOutIsReported

SPECIFICATION Spec
CONSTANTS
    W32 = 10
    W64 = 30
    Refs = {r1, r2, r3, r4}
    Slots = {o1, o2, o3}
    Prices <- MCGapPrices
    Quantities = {1, 2}
    kLevels = 3
    nullptr = nullptr
    NDEBUG = FALSE
    Conforming = TRUE
SYMMETRY Symmetry
CHECK_DEADLOCK FALSE
INVARIANTS TypeOK BestIsFirst MemorySafe LevelAccounting NoLeak IndexMatchesPrice BBOIsBest StopsAreExplained
PROPERTIES TimePriority ClosedNeverGrows ImplementsITCH

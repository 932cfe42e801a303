SPECIFICATION Spec
CONSTANTS
    W32 = 8
    W64 = 16
    Refs = {r1, r2}
    Slots = {o1, o2}
    Prices <- MCRawPrices
    Quantities = {2, 4}
    kLevels = 2
    nullptr = nullptr
    NDEBUG = TRUE
    Conforming = FALSE
SYMMETRY Symmetry
CHECK_DEADLOCK FALSE
INVARIANTS BestIsFirst MemorySafe LevelAccounting

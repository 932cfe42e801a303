SPECIFICATION Spec
CONSTANTS
    W32 = 8
    W64 = 24
    Refs = {r1, r2, r3}
    Slots = {o1, o2, o3}
    Prices <- MCPrices
    Quantities = {1, 2}
    kLevels = 2
    nullptr = nullptr
    NDEBUG = FALSE
    Conforming = TRUE
SYMMETRY Symmetry
CHECK_DEADLOCK FALSE
PROPERTY HeadIsOldest

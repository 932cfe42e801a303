SPECIFICATION ListsSpec
CONSTANTS
    W32 = 2
    W64 = 4
    Capacity = 3
    kLevels = 2
    nullptr = nullptr
INVARIANT WellLinked
PROPERTY ImplementsQueues

SPECIFICATION BenchSpec
CONSTANTS
    W32 = 64
    W64 = 2048
    Refs <- MCRefs
    Slots <- MCSlots
    Prices <- MCPrices
    Quantities = {1, 2, 16}
    kLevels = 10
    nullptr = nullptr
    NDEBUG = FALSE
    Conforming = TRUE
    Times = {0}
    kBid = 5
    kAsk = 6
    kWarm = 5
    kSpread = 5
    kTick = 1
    kN = 3
    kGap = 20
    kLot = 1
    kBig = 16
    MaxIter = 40
    kBuckets = 4
    Nanoseconds = {0, 1, 2, 9}
    MaxCount = 4
INVARIANTS EveryMessageActs SteadyState PoolSuffices WindowLockedIn PercentileIsRank PrintedInOrder
PROPERTIES MeasuresHits

\* The same ladders and workload: the totals differ.
SPECIFICATION Spec
CONSTANTS
    RawPrices = {3, 4, 5, 6, 8, 10}
    U32 = 16
    U64 = 64
    SLOTS = 3
    TICK = 2
    Base = 4
    Orders = {o1, o2, o3}
    ShareCounts = {0, 2}
    OpShares = 2
    NSeed = 1
    NReplay = 4
    MaxSteps = 10
INVARIANT
    SameLevels
CHECK_DEADLOCK FALSE

\* Three slots of two raw units above a base of 4: prices below the band, on
\* and off the grid, in the last slot and beyond it.  A workload of five
\* operations, replayed twice.
SPECIFICATION Spec
CONSTANTS
    RawPrices = {3, 4, 5, 6, 8, 10}
    U32 = 16
    U64 = 64
    SLOTS = 3
    TICK = 2
    Base = 4
    Orders = {o1, o2, o3}
    ShareCounts = {0, 2}
    OpShares = 2
    NSeed = 1
    NReplay = 4
    MaxSteps = 10
INVARIANTS
    FlatIsMap
    ArrayIndexed
    ArrayIsMap
    SlotsAreSums
    SameShapes
CHECK_DEADLOCK FALSE

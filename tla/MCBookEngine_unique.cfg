\* A feed with unique references on one instrument: orders sharing a level,
\* replacements under the old and under a new reference, partial, exact,
\* oversized and zero-share reductions.
SPECIFICATION Spec
CONSTANTS
    ABC = ABC  aBC = aBC  XYZ = XYZ  abc = abc  xyz = xyz
    Refs = {r1, r2}
    Locates = {7}
    Prices = {10001, 20000}
    Sides = {"B", "S"}
    ShareCounts = {0, 1, 3}
    Attributions = {"MPID"}
    Symbols = {ABC}
    Lowercase <- MCLowercase
    TradingStates = {"T"}
    RoundLots = {100}
    Timestamps = {1}
    U32 = 8
    U64 = 64
    UniqueRefs = TRUE
    SnapshotInterval = 2
    MaxMessages = 5
SYMMETRY RefSymmetry
INVARIANTS
    Consistent
    SnapshotShowsOrders
PROPERTY
    ImplementsRestingOrders
CHECK_DEADLOCK FALSE

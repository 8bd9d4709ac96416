\* Any feed on two instruments: references are reused while their order rests,
\* so levels keep orders the index has forgotten; instruments registered before
\* and renamed during the feed share symbols, exactly or up to case.
SPECIFICATION Spec
CONSTANTS
    ABC = ABC  aBC = aBC  XYZ = XYZ  abc = abc  xyz = xyz
    Refs = {r1, r2}
    Locates = {7, 8}
    Prices = {1, 2}
    Sides = {"?"}
    ShareCounts = {1, 7}
    Attributions = {}
    Symbols = {ABC, aBC}
    Lowercase <- MCLowercase
    TradingStates = {"T"}
    RoundLots = {100}
    Timestamps = {1}
    U32 = 8
    U64 = 64
    UniqueRefs = FALSE
    SnapshotInterval = 2
    MaxMessages = 4
SYMMETRY RefSymmetry
INVARIANTS
    Covers
    NoPhantomLevel
    TopIsBest
    OrdersHaveBooks
    SnapshotLag
    FinalSnapshot
    SymbolsResolve
CHECK_DEADLOCK FALSE

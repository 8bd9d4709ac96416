\* Two requests at any time beside an engine with two instruments, whose
\* symbols may be the same or differ only in case.
SPECIFICATION RestSpec
CONSTANTS
    ABC = ABC  aBC = aBC  abc = abc
    Refs = {r1, r2}
    Locates = {7, 8}
    Prices = {10001, 20000}
    Sides = {"B", "S"}
    ShareCounts = {1}
    Attributions = {}
    Symbols = {ABC, aBC}
    Lowercase <- MCLowercase
    TradingStates = {"T"}
    RoundLots = {100}
    Timestamps = {1}
    U32 = 8
    U64 = 64
    UniqueRefs = TRUE
    SnapshotInterval = 2
    MaxMessages = 2
    Workers = {w1, w2}
    Requests <- MCRequests
    NoDepth = NoDepth
    NotInteger = NotInteger
    MaxInt32 = 29999
    MaxRequests = 2
SYMMETRY MCSymmetry
INVARIANTS
    FreshAtArrival
    TopIsEngineTop
    BookAndTopAgree
    ListedIsFound
CHECK_DEADLOCK FALSE

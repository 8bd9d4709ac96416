\* The same feed: an order whose delete or last execution was lost stays.
SPECIFICATION GapSpec
CONSTANTS
    Refs = {r1, r2, r3}
    Locates = {7}
    Prices = {1, 2}
    Sides = {"B"}
    ShareCounts = {1, 3}
    Attributions = {}
    Symbols = {}
    Lowercase = NoNames
    TradingStates = {"T"}
    RoundLots = {}
    Timestamps = {1}
    U32 = 8
    U64 = 64
    UniqueRefs = TRUE
    SnapshotInterval = 7
    MaxMessages = 5
    ExchangeRefs = {r1, r2, r3}
    MaxHeard = 5
    MaxLost = 3
INVARIANT
    NoImmortalOrder
CHECK_DEADLOCK FALSE

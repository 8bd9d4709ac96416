\* One instrument, trading or halted.
SPECIFICATION StatusSpec
CONSTANTS
    Refs = {r1}
    Locates = {7}
    Prices = {1}
    Sides = {"B"}
    ShareCounts = {1}
    Attributions = {}
    Symbols = {ABC}
    Lowercase = NoNames
    TradingStates = {"T", "H"}
    RoundLots = {100}
    Timestamps = {1}
    U32 = 8
    U64 = 64
    UniqueRefs = TRUE
    SnapshotInterval = 7
    MaxMessages = 4
INVARIANT
    StateIsLastSaid
CHECK_DEADLOCK FALSE

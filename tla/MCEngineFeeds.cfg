\* The exchange: up to three losses among messages about up to three orders.
\* The benchmarks: two orders and three operations after them, so that the
\* rounds come round within ten messages.
SPECIFICATION FeedsSpec
CONSTANTS
    Refs = {1, 2, 3, 4, 5, 6, 7, 8, 9, 10}
    Locates = {7}
    Prices = {1, 2}
    Sides = {"B", "S"}
    ShareCounts = {1, 3}
    Attributions = {}
    Symbols = {"AAPL"}
    Lowercase = NoNames
    TradingStates = {"T"}
    RoundLots = {100}
    Timestamps = {1}
    U32 = 16
    U64 = 256
    UniqueRefs = FALSE
    SnapshotInterval = 11
    MaxMessages = 10
    ExchangeRefs = {1, 2, 3}
    MaxHeard = 5
    MaxLost = 3
    NOrders = 2
    NMixed = 3
    BenchShares = 2
    SeedPrices = 2
INVARIANTS
    GapsOverstate
    ExactWithoutGaps
    MixedTargetsLive
    RoundsPileUp
    MicrosHit
CHECK_DEADLOCK FALSE

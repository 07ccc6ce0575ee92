CONSTANTS
    o1 = o1
    o2 = o2
    o3 = o3
    Keys = {1, 2}
    FeedChain <- MCFeedChain
    Chains = {8, 9}
    Dest = 9
    Oracles = {o1, o2, o3}
    Byzantine = {}
    Readers <- MCReaders
    F = 1
    FChain <- MCFChain
    Flaky = {}
    Lagging = {}
    MaxPrice = 2
    MarketPrices = {2}
    Heartbeat = FALSE
    HeartbeatOnly = {}
    MaxSeqNr = 2
    InflightPriceCheckRetries = 1
    MaxPricesPerReport = 1
SPECIFICATION Spec
SYMMETRY MCSymmetry
PROPERTIES DetectedPricesUpdated

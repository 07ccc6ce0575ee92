CONSTANTS
    o1 = o1
    o2 = o2
    o3 = o3
    Keys = {1}
    FeedChain <- MCFeedChain
    Chains = {8, 9}
    Dest = 9
    Oracles = {o1, o2, o3}
    Byzantine = {}
    Readers <- MCReaders
    F = 1
    FChain <- MCFChain
    Flaky = {o3}
    Lagging = {o1, o2}
    MaxPrice = 2
    MarketPrices = {2}
    Heartbeat = TRUE
    HeartbeatOnly = {}
    MaxSeqNr = 3
    InflightPriceCheckRetries = 2
    MaxPricesPerReport = 0
SPECIFICATION RoundsSpec
PROPERTY InflightPricesEnd

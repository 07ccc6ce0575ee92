CONSTANTS
    o1 = o1
    o2 = o2
    o3 = o3
    Keys = {1}
    FeedChain <- MCFeedChain
    Chains = {8, 9}
    Dest = 9
    Oracles = {o1, o2, o3, b}
    Byzantine = {b}
    Readers <- MCReaders
    F = 1
    FChain <- MCFChain
    Flaky = {}
    Lagging = {}
    MaxPrice = 4
    MarketPrices = {2, 3}
    Heartbeat = FALSE
    HeartbeatOnly = {}
    MaxSeqNr = 2
    InflightPriceCheckRetries = 1
    MaxPricesPerReport = 0
SPECIFICATION Spec
SYMMETRY MCSymmetry
INVARIANTS TypeOK ReportedPricesQuoted DetectedPricesRecorded
PROPERTIES NothingAgreedWhileInflight StoredPricesNeverRollBack

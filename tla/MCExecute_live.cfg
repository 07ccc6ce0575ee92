SPECIFICATION FairSpec
CONSTANTS
    o1 = o1  o2 = o2  o3 = o3  o4 = o4
    Oracles = {o1, o2, o3, o4}
    Byzantine = {o4}
    F = 1
    SourceReaders = {o1, o2, o3, o4}
    DestReaders = {o1, o2, o3, o4}
    FSource = 1  FDest = 1
    Roots <- MCTwoRoots
    Sender <- MCSender
    Nonce <- MCOrdered
    Cost <- MCCost
    NeedsTokenData = {}
    Fallible = {}
    Flaky = {o1}
    Cursable = FALSE
    Settles = TRUE
    MaxMsgsPerObs = 1
    BuilderSettings <- MCSingle
INVARIANTS TypeOK AgreedIsReal
PROPERTIES ReportedAgainAfterLapse EveryMessageAttempted
CHECK_DEADLOCK FALSE

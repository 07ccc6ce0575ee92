CONSTANTS
    o1 = o1
    o2 = o2
    o3 = o3
    Sources = {1}
    Dest = 9
    Oracles = {o1, o2, o3, b}
    Byzantine = {b}
    Readers <- MCReaders
    F = 1
    FChain <- MCFChain
    Flaky = {o3}
    Cursable = {1}
    Switchable = {1}
    Settles = TRUE
    MaxSeqNum = 1
    MaxMessages = 1
    MaxMerkleTreeSize = 2
    MaxInterval = 2
    MaxReportTransmissionCheckAttempts = 2
    MaxMerkleRootsPerReport = 0
    MultipleReportsEnabled = FALSE
SPECIFICATION FairSpec
INVARIANTS AttestedReportsSound
PROPERTIES WaitEndsOnProgress EveryMessageCommitted WaitingEnds

CONSTANTS
    o1 = o1
    o2 = o2
    o3 = o3
    Sources = {1, 2}
    Dest = 9
    Oracles = {o1, o2, o3}
    Byzantine = {}
    Readers <- MCReaders
    F = 1
    FChain <- MCFChain
    Flaky = {}
    Cursable = {}
    Switchable = {}
    Settles = FALSE
    MaxSeqNum = 2
    MaxMessages = 2
    MaxMerkleTreeSize = 2
    MaxInterval = 2
    MaxReportTransmissionCheckAttempts = 2
    MaxMerkleRootsPerReport = 1
    MultipleReportsEnabled = TRUE
SPECIFICATION Spec
SYMMETRY MCSymmetry
INVARIANTS TypeOK AttestedReportsSound CommittedIntervalsTile
PROPERTIES WaitEndsOnProgress ImplementsCommitLane

SPECIFICATION Spec
CONSTANTS
    o1 = o1  o2 = o2  o3 = o3  o4 = o4
    Oracles = {o1, o2, o3, o4}
    Byzantine = {o4}
    F = 1
    SourceReaders = {o1, o2, o3, o4}
    DestReaders = {o1, o2, o3, o4}
    FSource = 1  FDest = 1
    Roots <- MCOneRoot
    Sender <- MCSender
    Nonce <- MCOneOrdered
    Cost <- MCCost
    NeedsTokenData = {2}
    Fallible = {1}
    Flaky = {}
    Cursable = TRUE
    Settles = FALSE
    MaxMsgsPerObs = 2
    BuilderSettings <- MCBoth
SYMMETRY MCSymmetry
INVARIANTS SignedIsCommitted
PROPERTIES ImplementsLane
CHECK_DEADLOCK FALSE

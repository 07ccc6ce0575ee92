SPECIFICATION FairSpec
CONSTANTS
    Callers = {c1, c2}
    Workers = {w1, w2}
    Messages = {m1, m2}
    NoMessage = NoMessage
INVARIANTS TypeOK SignalPerMessage NoneLockedOut
PROPERTIES ObserveReturns CloseReturns EveryMessageFetched
CHECK_DEADLOCK FALSE

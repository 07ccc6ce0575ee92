SPECIFICATION Spec
CONSTANTS
    Reports = {1}
    Messages <- MCOneRoot
    MessageVisibilityInterval = 4
    RootSnoozeTime = 1
    EvictionGracePeriod = 1
    LookbackGracePeriod = 1
    MaxFinalizedReports = 3
    MaxUnconfirmedReports = 2
    LogDelay = 1
    MaxAttempts = 2
    MaxTime = 3
    MaxFaults = 0
INVARIANT SettledRootsNotOffered
CHECK_DEADLOCK FALSE

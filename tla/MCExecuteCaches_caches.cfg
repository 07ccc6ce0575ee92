SPECIFICATION Spec
CONSTANTS
    Reports = {1, 2, 3}
    Messages <- MCMessages
    MessageVisibilityInterval = 3
    RootSnoozeTime = 1
    EvictionGracePeriod = 1
    LookbackGracePeriod = 1
    MaxFinalizedReports = 2
    MaxUnconfirmedReports = 2
    LogDelay = 1
    MaxAttempts = 1
    MaxTime = 4
    MaxFaults = 1
INVARIANTS TypeOK CachedReportsFinal NoReportPassedBy ExecutedRootsFinal ExecutedRootsRemembered SnoozeBounded SettledRootsNotOffered
PROPERTIES RefreshProgresses
CHECK_DEADLOCK FALSE

SPECIFICATION SemFairSpec
CONSTANTS
    MAX_TASKS = 4
    PRIORITY_IDLE = 2
    Spinners <- OneSpinner
    SleepTicks <- Ticks
    MaxTick = 3
    maxCount = 2
    initialCount = 1
    Signallers <- OneSignaller
    Timeouts <- Finite
    WAIT_FOREVER = WAIT_FOREVER
INVARIANTS
    SemTypeOK
    WaitersBlocked
    NoIdlePermit
PROPERTIES
    ReleasedWaiterReturns
    ImplementsPermits

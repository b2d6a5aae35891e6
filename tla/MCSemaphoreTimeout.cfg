SPECIFICATION SemFairSpec
CONSTANTS
    MAX_TASKS = 3
    PRIORITY_IDLE = 2
    Spinners <- OneSpinner
    SleepTicks <- Ticks
    MaxTick = 3
    maxCount = 2
    initialCount = 1
    Signallers <- OneSignaller
    Timeouts <- Finite
    WAIT_FOREVER = WAIT_FOREVER
PROPERTY
    FiniteWaitEnds

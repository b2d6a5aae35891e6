SPECIFICATION SemSpec
CONSTANTS
    MAX_TASKS = 3
    PRIORITY_IDLE = 2
    Spinners <- OneSpinner
    SleepTicks <- Ticks
    MaxTick = 2
    maxCount = 2
    initialCount = 1
    Signallers <- OneSignaller
    Timeouts <- Finite
    WAIT_FOREVER = WAIT_FOREVER
INVARIANT
    NoTaskLost

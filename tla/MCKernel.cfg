SPECIFICATION FairSpec
CONSTANTS
    MAX_TASKS = 4
    PRIORITY_IDLE = 3
    Spinners <- OneSpinner
    SleepTicks <- Ticks
    MaxTick = 3
INVARIANTS
    TypeOK
    NoSleepwalking
    ReadyListExact
    SleepersExact
    ReadyTasksReachable
    NoSpinnerLost
PROPERTIES
    ImplementsPromise
    SleepersWake
    MostUrgentRuns

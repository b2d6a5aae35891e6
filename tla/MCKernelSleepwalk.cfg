SPECIFICATION Spec
CONSTANTS
    MAX_TASKS = 3
    PRIORITY_IDLE = 2
    Spinners <- NoSpinner
    SleepTicks <- Ticks
    MaxTick = 2
INVARIANT
    NoSleepwalking

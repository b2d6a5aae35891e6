SPECIFICATION Spec
CONSTANTS
    MAX_TASKS = 3
    PRIORITY_IDLE = 2
    Spinners <- OneSpinner
    SleepTicks <- Ticks
    MaxTick = 2
PROPERTY
    UrgentKeepsProcessor

SPECIFICATION EventFairSpec
CONSTANTS
    MAX_TASKS = 4
    PRIORITY_IDLE = 2
    Spinners <- OneSpinner
    SleepTicks <- Ticks
    MaxTick = 2
    Flag <- Flags
    FlagSets <- Subsets
    Timeouts <- Endless
PROPERTY
    ClearSparesReleased

SPECIFICATION PartsSpec
CONSTANTS
    MAX_TASKS = 5
    PRIORITY_IDLE = 2
    Spinners <- OneSpinner
    SleepTicks <- NoTicks
    MaxTick = 2
    Nobody = Nobody
    Timeouts <- Finite
    WAIT_FOREVER = WAIT_FOREVER
    MaskStays = FALSE
    a = a
    b = b
    c = c
    s1 = s1
    s2 = s2
    r1 = r1
    r2 = r2
    Sender <- Senders
    Receiver <- Receivers
    NoOwner = NoOwner
    Item <- Items
    Default = Default
    MAX_ITEMS = 4
    MAX_MESSAGES = 2
INVARIANTS
    MutexTypeOK
    OneHolder
    WaitersBlocked
    NoStrandedWaiter
    OneReadyBit
    FifoTypeOK
    GetAtReadsWritten
    MsgTypeOK
PROPERTIES
    ImplementsMutex
    ImplementsQueue
    LossNeedsRace
    NothingNeedsRace

SPECIFICATION BothSpec
CONSTANTS
    Task <- Tasks
    Idle = "idle"
    None = None
    STACK = 20
    Locals <- Depths
    t1 = t1
    t2 = t2
    t3 = t3
    Thread <- ThreeTasks
    MutexUsers <- OneUser
    PRIO_BITS = 8
    MAX_SYSCALL_INTERRUPT_PRIORITY = 5
    MIN_INTERRUPT_PRIORITY = 255
    CounterSize = 8
INVARIANTS
    TypeOK
    ContextKept
    SectionMasked
    SectionsExclusive

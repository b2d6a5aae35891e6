SPECIFICATION PortSpec
CONSTANTS
    t1 = t1
    t2 = t2
    t3 = t3
    Thread <- ThreeTasks
    MutexUsers <- NoUser
    PRIO_BITS = 4
    MAX_SYSCALL_INTERRUPT_PRIORITY = 5
    MIN_INTERRUPT_PRIORITY = 255
    CounterSize = 8
INVARIANT
    SectionsExclusive

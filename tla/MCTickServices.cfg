SPECIFICATION Spec
CONSTANTS
    Timer <- Timers
    Counter <- OneCounter
    Alarm <- Alarms
    MAX_TIMERS = 2
    MAX_ALARMS = 2
    None = None
    Wrap = 4
    Periods <- PeriodsUsed
    AutoReload <- Reloading
    MaxAllowedValue = 3
    CounterValues <- Values
    CounterOf <- OnCounter
    AlarmTime <- FirstTime
    CycleTime <- Cycle
    TaskAlarm <- ForTasks
INVARIANT
    TypeOK
PROPERTIES
    ImplementsTimers
    ImplementsAlarms
CONSTRAINT
    Together

---------------------------- MODULE TickServices ----------------------------
(***************************************************************************)
(* What Kernel::tick does after it has woken the sleepers: software timers *)
(* (Source/Timer.cpp), counters (Source/Counter.cpp) and alarms            *)
(* (Source/Alarm.cpp), with their registration in the slots of the kernel  *)
(* (Source/Kernel.cpp), and the operations that tasks and callbacks call.  *)
(*                                                                         *)
(* None of these operations enters a critical section.  One that stores    *)
(* twice, or looks at one slot after the other, is several steps in a      *)
(* task, between which ticks come; a callback runs inside SysTick, where   *)
(* nothing interrupts it, and may call any number of operations on any     *)
(* timer or alarm, its own included.                                       *)
(*                                                                         *)
(* An alarm may activate a task instead of calling back: it sets the state *)
(* of the task and no ready bit, which Kernel.tla has no part in.          *)
(***************************************************************************)
EXTENDS Naturals

CONSTANTS
    Timer, Counter, Alarm,
    MAX_TIMERS, MAX_ALARMS,   \* Settings: the numbers of slots
    None,                     \* the null pointer
    Wrap,                     \* values of a std::uint32_t
    Periods,                  \* the periods timers get
    AutoReload,               \* the timers created to reload
    MaxAllowedValue,          \* of the counters
    CounterValues,            \* the arguments of SetCounterValue
    CounterOf,                \* the counter of each alarm
    AlarmTime, CycleTime,     \* the times each alarm is created with
    TaskAlarm                 \* the alarms that activate a task

ASSUME ServicesAssumption ==
    /\ None \notin Timer \cup Counter \cup Alarm \cup Nat
    /\ None \notin [op : {"allocate", "deallocate", "free"}, of : Timer,
                   value : 1 .. MAX_TIMERS]
    /\ Timer \cap Alarm = {}
    /\ MAX_TIMERS \in Nat \ {0} /\ MAX_ALARMS \in Nat \ {0}
    /\ Wrap \in Nat \ {0, 1} /\ Periods \subseteq 0 .. Wrap - 1
    /\ AutoReload \subseteq Timer /\ TaskAlarm \subseteq Alarm
    /\ MaxAllowedValue \in 1 .. Wrap - 1
    /\ CounterValues \subseteq 0 .. MaxAllowedValue
    /\ CounterOf \in [Alarm -> Counter]
    \* A counter does not count up to the times left out.
    /\ AlarmTime \in [Alarm -> 0 .. MaxAllowedValue - 1]
    /\ CycleTime \in [Alarm -> 0 .. MaxAllowedValue - 1]

VARIABLES
    timers, alarms,     \* Kernel::timers and alarms, the slots
    counters,           \* Kernel::counters, as a set
    periodTicks, remainingTicks, running, allocated,    \* members of Timer
    currentTick,        \* of Counter
    startTick, alarmTime, active,   \* members of Alarm
    phase, slot,        \* how far SysTick is: in which loop, at which slot
    caller,             \* the timer or alarm that has gone off
    pending             \* the operation a task is inside, and what it does next

timerVars   == <<timers, periodTicks, remainingTicks, running, allocated>>
counterVars == <<counters, currentTick>>
alarmVars   == <<alarms, startTick, alarmTime, active>>
tickVars    == <<phase, slot, caller>>
vars        == <<timerVars, counterVars, alarmVars, tickVars, pending>>

TimerInit ==
    /\ periodTicks \in [Timer -> Periods]
    /\ remainingTicks = periodTicks
    /\ running = [t \in Timer |-> FALSE]
    /\ allocated = [t \in Timer |-> FALSE]

CounterInit == currentTick = [c \in Counter |-> 0]

AlarmInit ==
    /\ startTick = [a \in Alarm |-> 0]
    /\ alarmTime = AlarmTime
    /\ active = [a \in Alarm |-> FALSE]

Init ==
    /\ timers = [i \in 1 .. MAX_TIMERS |-> None]
    /\ alarms = [i \in 1 .. MAX_ALARMS |-> None]
    /\ counters = {}
    /\ TimerInit /\ CounterInit /\ AlarmInit
    /\ phase = "tasks" /\ slot = 1 /\ caller = None
    /\ pending = None

InTask     == phase = "tasks" /\ pending = None
InCallback == phase \in {"timerCallback", "alarmCallback"}

\* A task goes on with op after any number of ticks.
StoreLater(op, x, value) ==
    /\ InTask
    /\ pending' = [op |-> op, of |-> x, value |-> value]

GoesOn(ops) == phase = "tasks" /\ pending # None /\ pending.op \in ops

-----------------------------------------------------------------------------
(***************************************************************************)
(* Timers.                                                                 *)
(***************************************************************************)
start(t) ==
    /\ running' = [running EXCEPT ![t] = TRUE]
    /\ \/ InCallback /\ remainingTicks' = [remainingTicks EXCEPT ![t] = periodTicks[t]]
                     /\ UNCHANGED pending
       \/ StoreLater("start", t, 0) /\ UNCHANGED remainingTicks
    /\ UNCHANGED <<timers, periodTicks, allocated, counterVars, alarmVars, tickVars>>

setPeriod(t, p) ==
    /\ periodTicks' = [periodTicks EXCEPT ![t] = p]
    /\ \/ InCallback /\ remainingTicks' = [remainingTicks EXCEPT
                                             ![t] = IF running[t] THEN p ELSE @]
                     /\ UNCHANGED pending
       \/ StoreLater("setPeriod", t, p) /\ UNCHANGED remainingTicks
    /\ UNCHANGED <<timers, running, allocated, counterVars, alarmVars, tickVars>>

\* The second half of start or setPeriod.
StoreRemaining ==
    /\ GoesOn({"start", "setPeriod"})
    /\ remainingTicks' =
         [remainingTicks EXCEPT ![pending.of] =
            IF pending.op = "start" THEN periodTicks[pending.of]
            ELSE IF running[pending.of] THEN pending.value ELSE @]
    /\ pending' = None
    /\ UNCHANGED <<timers, periodTicks, running, allocated, counterVars,
                   alarmVars, tickVars>>

stop(t) ==
    /\ InTask \/ InCallback
    /\ running' = [running EXCEPT ![t] = FALSE]
    /\ UNCHANGED <<timers, periodTicks, remainingTicks, allocated, counterVars,
                   alarmVars, tickVars, pending>>

reset(t) ==
    /\ InTask \/ InCallback
    /\ remainingTicks' = [remainingTicks EXCEPT ![t] = periodTicks[t]]
    /\ UNCHANGED <<timers, periodTicks, running, allocated, counterVars,
                   alarmVars, tickVars, pending>>

\* A registration begins with the first slot.  Callbacks register nothing, one
\* task at a time does, and only what is in no slot: the kernel does not look.
Register(op, x, slots) ==
    /\ \A i \in DOMAIN slots : slots[i] # x
    /\ StoreLater(op, x, 1)

\* A slot is taken: it goes on to the next one, or returns false.
TryNextSlot(slots) ==
    /\ slots[pending.value] # None
    /\ pending' = IF pending.value + 1 \in DOMAIN slots
                  THEN [pending EXCEPT !.value = @ + 1] ELSE None

addTimer(t) ==
    /\ Register("addTimer", t, timers)
    /\ UNCHANGED <<timerVars, counterVars, alarmVars, tickVars>>

TakeTimerSlot ==
    /\ GoesOn({"addTimer"})
    /\ \/ /\ timers[pending.value] = None
          /\ timers' = [timers EXCEPT ![pending.value] = pending.of]
          /\ pending' = [pending EXCEPT !.op = "allocate"]
       \/ TryNextSlot(timers) /\ UNCHANGED timers
    /\ UNCHANGED <<periodTicks, remainingTicks, running, allocated, counterVars,
                   alarmVars, tickVars>>

allocate ==
    /\ GoesOn({"allocate"})
    /\ allocated' = [allocated EXCEPT ![pending.of] = TRUE]
    /\ pending' = None
    /\ UNCHANGED <<timers, periodTicks, remainingTicks, running, counterVars,
                   alarmVars, tickVars>>

\* Fault: the slot is kept.
deallocateOnly(t) ==
    /\ InTask \/ InCallback
    /\ \E i \in DOMAIN timers : timers[i] = t
    /\ allocated' = [allocated EXCEPT ![t] = FALSE]
    /\ running' = [running EXCEPT ![t] = FALSE]
    /\ UNCHANGED <<timers, periodTicks, remainingTicks, counterVars, alarmVars,
                   tickVars, pending>>

\* Three stores.  Nothing reads allocated, so that nobody can tell whether a
\* tick comes before or after the first.
removeTimer(t) ==
    /\ \E i \in DOMAIN timers :
         /\ timers[i] = t
         /\ \/ /\ InCallback
               /\ timers' = [timers EXCEPT ![i] = None]
               /\ running' = [running EXCEPT ![t] = FALSE]
               /\ UNCHANGED pending
            \/ StoreLater("deallocate", t, i) /\ UNCHANGED <<timers, running>>
    /\ allocated' = [allocated EXCEPT ![t] = FALSE]
    /\ UNCHANGED <<periodTicks, remainingTicks, counterVars, alarmVars, tickVars>>

\* The second store of removeTimer.
deallocate ==
    /\ GoesOn({"deallocate"})
    /\ running' = [running EXCEPT ![pending.of] = FALSE]
    /\ pending' = [pending EXCEPT !.op = "free"]
    /\ UNCHANGED <<timers, periodTicks, remainingTicks, allocated, counterVars,
                   alarmVars, tickVars>>

\* The third.
FreeTimerSlot ==
    /\ GoesOn({"free"})
    /\ timers' = [timers EXCEPT ![pending.value] = None]
    /\ pending' = None
    /\ UNCHANGED <<periodTicks, remainingTicks, running, allocated, counterVars,
                   alarmVars, tickVars>>

(***************************************************************************)
(* Counters and alarms.                                                    *)
(***************************************************************************)
addCounter(c) ==
    /\ InTask /\ c \notin counters
    /\ counters' = counters \cup {c}
    /\ UNCHANGED <<timerVars, currentTick, alarmVars, tickVars, pending>>

removeCounter(c) ==
    /\ InTask \/ InCallback
    /\ counters' = counters \ {c}
    /\ UNCHANGED <<timerVars, currentTick, alarmVars, tickVars, pending>>

SetCounterValue(c, v) ==
    /\ InTask \/ InCallback
    /\ currentTick' = [currentTick EXCEPT ![c] = v]
    /\ UNCHANGED <<timerVars, counters, alarmVars, tickVars, pending>>

addAlarm(a) ==
    /\ Register("addAlarm", a, alarms)
    /\ UNCHANGED <<timerVars, counterVars, alarmVars, tickVars>>

TakeAlarmSlot ==
    /\ GoesOn({"addAlarm"})
    /\ \/ /\ alarms[pending.value] = None
          /\ alarms' = [alarms EXCEPT ![pending.value] = pending.of]
          /\ pending' = None
       \/ TryNextSlot(alarms) /\ UNCHANGED alarms
    /\ UNCHANGED <<timerVars, counterVars, startTick, alarmTime, active, tickVars>>

\* The alarm stays active.
removeAlarm(a) ==
    /\ InTask \/ InCallback
    /\ \E i \in DOMAIN alarms : alarms[i] = a /\ alarms' = [alarms EXCEPT ![i] = None]
    /\ UNCHANGED <<timerVars, counterVars, startTick, alarmTime, active, tickVars,
                   pending>>

Start(a) ==
    /\ startTick' = [startTick EXCEPT ![a] = currentTick[CounterOf[a]]]
    /\ \/ InCallback /\ active' = [active EXCEPT ![a] = TRUE] /\ UNCHANGED pending
       \/ StoreLater("Start", a, 0) /\ UNCHANGED active
    /\ UNCHANGED <<timerVars, counterVars, alarms, alarmTime, tickVars>>

\* The second half of Start.
StoreActive ==
    /\ GoesOn({"Start"})
    /\ active' = [active EXCEPT ![pending.of] = TRUE]
    /\ pending' = None
    /\ UNCHANGED <<timerVars, counterVars, alarms, startTick, alarmTime, tickVars>>

Stop(a) ==
    /\ InTask \/ InCallback
    /\ active' = [active EXCEPT ![a] = FALSE]
    /\ UNCHANGED <<timerVars, counterVars, alarms, startTick, alarmTime, tickVars,
                   pending>>

-----------------------------------------------------------------------------
(***************************************************************************)
(* Kernel::tick.                                                           *)
(***************************************************************************)
Tick ==
    /\ phase = "tasks"
    /\ phase' = "timer" /\ slot' = 1
    /\ UNCHANGED <<timerVars, counterVars, alarmVars, caller, pending>>

\* On to the next slot of the same loop.
NextSlot(p) == phase' = p /\ slot' = slot + 1

CallBack(p, x) == phase' = p /\ caller' = x /\ UNCHANGED slot

Decremented(t) == (remainingTicks[t] + Wrap - 1) % Wrap

\* Fault: the value before the decrement is compared.
TickTimerLate ==
    /\ phase = "timer" /\ slot \in DOMAIN timers
    /\ LET t == timers[slot]
       IN  IF t # None /\ running[t]
           THEN /\ remainingTicks' = [remainingTicks EXCEPT ![t] = Decremented(t)]
                /\ IF remainingTicks[t] = 0
                   THEN CallBack("timerCallback", t)
                   ELSE NextSlot("timer") /\ UNCHANGED caller
           ELSE NextSlot("timer") /\ UNCHANGED <<caller, remainingTicks>>
    /\ UNCHANGED <<timers, periodTicks, running, allocated, counterVars, alarmVars,
                   pending>>

TickTimer ==
    /\ phase = "timer" /\ slot \in DOMAIN timers
    /\ LET t == timers[slot]
       IN  IF t # None /\ running[t]
           THEN /\ remainingTicks' = [remainingTicks EXCEPT ![t] = Decremented(t)]
                /\ IF Decremented(t) = 0
                   THEN CallBack("timerCallback", t)
                   ELSE NextSlot("timer") /\ UNCHANGED caller
           ELSE NextSlot("timer") /\ UNCHANGED <<caller, remainingTicks>>
    /\ UNCHANGED <<timers, periodTicks, running, allocated, counterVars, alarmVars,
                   pending>>

\* The rest of Timer::tick, which overrides what the callback did to its own
\* timer: a one-shot timer stops even if it was started again.
TimerCallbackReturns ==
    /\ phase = "timerCallback"
    /\ NextSlot("timer") /\ caller' = None
    /\ IF caller \in AutoReload
       THEN /\ remainingTicks' = [remainingTicks EXCEPT ![caller] = periodTicks[caller]]
            /\ UNCHANGED running
       ELSE running' = [running EXCEPT ![caller] = FALSE] /\ UNCHANGED remainingTicks
    /\ UNCHANGED <<timers, periodTicks, allocated, counterVars, alarmVars,
                   pending>>

Increment(v) == IF v + 1 >= MaxAllowedValue THEN 0 ELSE v + 1

IncrementCounters ==
    /\ phase = "timer" /\ slot > MAX_TIMERS
    /\ currentTick' = [c \in Counter |-> IF c \in counters THEN Increment(currentTick[c])
                                         ELSE currentTick[c]]
    /\ phase' = "alarm" /\ slot' = 1
    /\ UNCHANGED <<timerVars, counters, alarmVars, caller, pending>>

\* Fault: the wrap of the counter is forgotten.
ElapsedUnwrapped(a) ==
    LET now == currentTick[CounterOf[a]]
    IN  (now + Wrap - startTick[a]) % Wrap

GetElapsedValue(a) ==
    LET now == currentTick[CounterOf[a]]
    IN  IF now >= startTick[a] THEN now - startTick[a]
        ELSE (MaxAllowedValue - startTick[a]) + now

Due(a) == active[a] /\ GetElapsedValue(a) >= alarmTime[a]

CheckAndTrigger ==
    /\ phase = "alarm" /\ slot \in DOMAIN alarms
    /\ LET a == alarms[slot]
       IN  IF a # None /\ Due(a)
           THEN /\ IF CycleTime[a] > 0
                   THEN /\ startTick' = [startTick EXCEPT
                                           ![a] = currentTick[CounterOf[a]]]
                        /\ alarmTime' = [alarmTime EXCEPT ![a] = CycleTime[a]]
                        /\ UNCHANGED active
                   ELSE /\ active' = [active EXCEPT ![a] = FALSE]
                        /\ UNCHANGED <<startTick, alarmTime>>
                /\ CallBack(IF a \in TaskAlarm THEN "alarmTask" ELSE "alarmCallback", a)
           ELSE /\ NextSlot("alarm")
                /\ UNCHANGED <<startTick, alarmTime, active, caller>>
    /\ UNCHANGED <<timerVars, counterVars, alarms, pending>>

AlarmReturns ==
    /\ phase \in {"alarmCallback", "alarmTask"}
    /\ NextSlot("alarm") /\ caller' = None
    /\ UNCHANGED <<timerVars, counterVars, alarmVars, pending>>

TickReturns ==
    /\ phase = "alarm" /\ slot > MAX_ALARMS
    /\ phase' = "tasks" /\ slot' = 1
    /\ UNCHANGED <<timerVars, counterVars, alarmVars, caller, pending>>

-----------------------------------------------------------------------------

UserStep ==
    \/ \E t \in Timer : \/ start(t) \/ stop(t) \/ reset(t)
                        \/ addTimer(t) \/ removeTimer(t)
                        \/ \E p \in Periods : setPeriod(t, p)
    \/ \E c \in Counter : \/ addCounter(c) \/ removeCounter(c)
                          \/ \E v \in CounterValues : SetCounterValue(c, v)
    \/ \E a \in Alarm : addAlarm(a) \/ removeAlarm(a) \/ Start(a) \/ Stop(a)
    \/ StoreRemaining \/ TakeTimerSlot \/ allocate \/ deallocate \/ FreeTimerSlot
    \/ TakeAlarmSlot \/ StoreActive

TickStep ==
    \/ Tick \/ TickTimer \/ TimerCallbackReturns \/ IncrementCounters
    \/ CheckAndTrigger \/ AlarmReturns \/ TickReturns

Next == UserStep \/ TickStep

Spec == Init /\ [][Next]_vars

-----------------------------------------------------------------------------
(***************************************************************************)
(* Properties.                                                             *)
(***************************************************************************)

\* The type invariant; a timer is in one slot at most, and is marked allocated
\* then unless a call that adds or removes it is still at work (Kernel.cpp:129,
\* 143).  The converse does not hold: a timer that a callback removes between
\* the two stores of addTimer stays allocated in no slot.
TypeOK ==
    /\ timers \in [1 .. MAX_TIMERS -> Timer \cup {None}]
    /\ alarms \in [1 .. MAX_ALARMS -> Alarm \cup {None}]
    /\ counters \subseteq Counter
    /\ periodTicks \in [Timer -> Periods]
    /\ remainingTicks \in [Timer -> 0 .. Wrap - 1]
    /\ running \in [Timer -> BOOLEAN]
    /\ allocated \in [Timer -> BOOLEAN]
    /\ currentTick \in [Counter -> 0 .. MaxAllowedValue]
    /\ startTick \in [Alarm -> 0 .. MaxAllowedValue]
    /\ alarmTime \in [Alarm -> 0 .. MaxAllowedValue - 1]
    /\ active \in [Alarm -> BOOLEAN]
    /\ phase \in {"tasks", "timer", "timerCallback", "alarm", "alarmCallback",
                "alarmTask"}
    /\ caller \in Timer \cup Alarm \cup {None}
    /\ \A t \in Timer : (\E i \in DOMAIN timers : timers[i] = t) =>
                          \/ allocated[t]
                          \/ /\ pending # None /\ pending.of = t
                             /\ pending.op \in {"allocate", "deallocate", "free"}
    /\ \A i, j \in DOMAIN timers : timers[i] = timers[j] => i = j \/ timers[i] = None

\* Whether this tick's loop still has to come to the slot of x.
ToCome(slots, x, loop, callback) ==
    \E i \in DOMAIN slots : /\ slots[i] = x
                            /\ \/ phase = loop /\ slot <= i
                               \/ phase \in callback /\ slot < i

\* Ticks until each timer goes off.  A count of zero takes a whole turn; what
\* the rest of tick is about to do to the timer that calls back has its effect
\* when the timer goes off.
Whole(n) == IF n = 0 THEN Wrap ELSE n

timerLeft ==
    [t \in Timer |->
       IF ~running[t] \/ \A i \in DOMAIN timers : timers[i] # t THEN None
       ELSE IF caller = t THEN IF t \in AutoReload THEN Whole(periodTicks[t]) ELSE None
       ELSE IF ToCome(timers, t, "timer", {"timerCallback"}) THEN Decremented(t)
       ELSE Whole(remainingTicks[t])]

\* What a counter that stands at now has counted since it stood at then.
Since(then, now) ==
    IF now >= then THEN now - then ELSE MaxAllowedValue - then + now

\* Ticks until each alarm goes off: when this tick or a later one finds that
\* its counter has counted its time.  From its maximum, where it may be set, a
\* counter goes to zero like from the value before.
alarmLeft ==
    [a \in Alarm |->
       LET now     == currentTick[CounterOf[a]]
           next    == IF CounterOf[a] \in counters THEN Increment(now) ELSE now
           reached == Since(startTick[a], now) >= alarmTime[a]
           later   == Since(startTick[a], next)
           checked == ToCome(alarms, a, "alarm", {"alarmCallback", "alarmTask"})
       IN  IF ~active[a] \/ \A i \in DOMAIN alarms : alarms[i] # a THEN None
           ELSE IF checked /\ reached THEN 0
           ELSE IF later >= alarmTime[a] THEN 1
           ELSE IF CounterOf[a] \in counters THEN alarmTime[a] - later + 1
           ELSE None]

\* The user has the processor.
userRuns == phase = "tasks" \/ InCallback

\* Timers keep the promise of Countdown, whatever callbacks and interrupted
\* calls do: every tick counts once for each running timer, in every slot and
\* across the wrap of remainingTicks, and the callback comes when, and only
\* when, the count is over (Timer.cpp:49).
TimerPromise == INSTANCE Countdown WITH
    Clock <- Timer, Off <- None, left <- timerLeft,
    ringing <- IF caller \in Timer THEN caller ELSE None, free <- userRuns

ImplementsTimers == TimerPromise!Spec

\* So do alarms, across the wrap of their counter and with the counters
\* advanced before the alarms are looked at (Alarm.cpp:39, Kernel.cpp:285).
AlarmPromise == INSTANCE Countdown WITH
    Clock <- Alarm, Off <- None, left <- alarmLeft,
    ringing <- IF caller \in Alarm THEN caller ELSE None, free <- userRuns

ImplementsAlarms == AlarmPromise!Spec

=============================================================================

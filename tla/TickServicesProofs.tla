------------------------- MODULE TickServicesProofs -------------------------
(***************************************************************************)
(* Theorems about TickServices.tla, for any timers, counters and alarms,   *)
(* any number of slots, any periods, and any width of the counts.          *)
(***************************************************************************)
EXTENDS TickServices, Integers, TLAPS

TimerSlot == 1 .. MAX_TIMERS
AlarmSlot == 1 .. MAX_ALARMS
Count     == 0 .. Wrap - 1
Value     == 0 .. MaxAllowedValue
Time      == 0 .. MaxAllowedValue - 1

(***************************************************************************)
(* The inductive invariant.                                                *)
(***************************************************************************)

\* What a task may be about to do.
PendingTimer ==
    [op : {"start", "setPeriod"}, of : Timer, value : Count]
    \cup [op : {"addTimer", "allocate", "deallocate", "free"}, of : Timer, value : TimerSlot]

PendingAlarm ==
    [op : {"Start"}, of : Alarm, value : {0}]
    \cup [op : {"addAlarm"}, of : Alarm, value : AlarmSlot]

PendingKnown == pending # None => pending \in PendingTimer \cup PendingAlarm

\* What is being registered is in no slot yet, and a timer that is being removed
\* is in the slot about to be freed, or has been removed by a callback.
PendingSlots ==
    pending # None =>
        /\ pending.op = "addTimer" => \A i \in TimerSlot : timers[i] # pending.of
        /\ pending.op = "addAlarm" => \A i \in AlarmSlot : alarms[i] # pending.of
        /\ pending.op \in {"deallocate", "free"} =>
             \A i \in TimerSlot : timers[i] = pending.of => i = pending.value

\* A call that adds or removes the timer has not come to its end.
AtWork(t) ==
    /\ pending # None /\ pending.of = t
    /\ pending.op \in {"allocate", "deallocate", "free"}

\* The timer in a slot is marked allocated as it should be.
Marked(i) == allocated[timers[i]] \/ AtWork(timers[i])

\* Each loop of tick stays within its slots and calls back its own objects.
LoopSlots ==
    /\ phase = "timer" => slot \in 1 .. MAX_TIMERS + 1
    /\ phase = "timerCallback" => slot \in TimerSlot /\ caller \in Timer
    /\ phase = "alarm" => slot \in 1 .. MAX_ALARMS + 1
    /\ phase \in {"alarmCallback", "alarmTask"} => slot \in AlarmSlot /\ caller \in Alarm
    /\ phase \in {"tasks", "timer", "alarm"} => caller = None

\* A timer whose callback runs is in the slot the loop is at, unless the
\* callback has removed it: a callback adds no timer.
CallerServed ==
    phase = "timerCallback" => \A i \in TimerSlot : timers[i] = caller => i = slot

AlarmsOnce ==
    \A i, j \in AlarmSlot : alarms[i] = alarms[j] => i = j \/ alarms[i] = None

TInv ==
    /\ TypeOK
    /\ PendingKnown
    /\ PendingSlots
    /\ LoopSlots
    /\ CallerServed
    /\ AlarmsOnce

-----------------------------------------------------------------------------
(***************************************************************************)
(* The arithmetic of the counts.                                           *)
(***************************************************************************)
LEMMA Constants ==
    /\ MAX_TIMERS \in Nat \ {0} /\ MAX_ALARMS \in Nat \ {0}
    /\ None \notin Timer /\ None \notin Alarm /\ None \notin Nat
    /\ Timer \cap Alarm = {}
    /\ None \notin [op : {"allocate", "deallocate", "free"}, of : Timer, value : TimerSlot]
    /\ Wrap \in Nat /\ Wrap >= 2 /\ Periods \subseteq Count
    /\ AutoReload \subseteq Timer /\ TaskAlarm \subseteq Alarm
    /\ MaxAllowedValue \in Nat /\ MaxAllowedValue >= 1
    /\ CounterValues \subseteq Value
    /\ CounterOf \in [Alarm -> Counter]
    /\ AlarmTime \in [Alarm -> Time] /\ CycleTime \in [Alarm -> Time]
BY ServicesAssumption DEF Count, Value, Time, TimerSlot

\* One slot of an array of slots gets another content.
LEMMA SlotStored ==
    ASSUME NEW Slots, NEW Content, NEW old \in [Slots -> Content], NEW new,
           NEW i \in Slots, NEW x \in Content, new = [old EXCEPT ![i] = x]
    PROVE  /\ new \in [Slots -> Content]
           /\ \A j \in Slots : new[j] = IF j = i THEN x ELSE old[j]
OBVIOUS

\* Nothing is in two slots if what is stored was in none, or is nothing.
LEMMA SlotsStayApart ==
    ASSUME NEW Slots, NEW old, NEW new, NEW i \in Slots, NEW x,
           \A j \in Slots : new[j] = IF j = i THEN x ELSE old[j],
           \A j, k \in Slots : old[j] = old[k] => j = k \/ old[j] = None,
           x = None \/ \A j \in Slots : old[j] # x
    PROVE  \A j, k \in Slots : new[j] = new[k] => j = k \/ new[j] = None
<1> SUFFICES ASSUME NEW j \in Slots, NEW k \in Slots, new[j] = new[k], j # k
             PROVE  new[j] = None
    OBVIOUS
<1>1. CASE j = i
      BY <1>1
<1>2. CASE k = i
      BY <1>2
<1>3. CASE j # i /\ k # i
      BY <1>3
<1> QED BY <1>1, <1>2, <1>3

\* A count of zero wraps to the largest one.
LEMMA DecrementedCount ==
    ASSUME NEW r \in Count
    PROVE  /\ (r + Wrap - 1) % Wrap = IF r = 0 THEN Wrap - 1 ELSE r - 1
           /\ (r + Wrap - 1) % Wrap \in Count
           /\ Whole(r) \in Nat \ {0} /\ (r + Wrap - 1) % Wrap = Whole(r) - 1
<1>1. Wrap \in Nat /\ Wrap >= 2 /\ r \in Int /\ 0 <= r /\ r < Wrap
      BY Constants DEF Count
<1>2. (r + Wrap - 1) % Wrap = IF r = 0 THEN Wrap - 1 ELSE r - 1
      BY <1>1
<1> QED BY <1>1, <1>2 DEF Count, Whole

LEMMA IncrementedCount ==
    ASSUME NEW v \in Value
    PROVE  /\ Increment(v) \in Time
           /\ Increment(v) = IF v + 1 >= MaxAllowedValue THEN 0 ELSE v + 1
BY Constants DEF Value, Time, Increment

\* What the code takes for the elapsed time is what its counter has counted.
LEMMA Elapsed ==
    ASSUME TypeOK, NEW a \in Alarm
    PROVE  /\ GetElapsedValue(a) = Since(startTick[a], currentTick[CounterOf[a]])
           /\ Since(startTick[a], currentTick[CounterOf[a]]) \in Value
<1>1. /\ currentTick[CounterOf[a]] \in Int /\ startTick[a] \in Int
      /\ 0 <= currentTick[CounterOf[a]] /\ currentTick[CounterOf[a]] <= MaxAllowedValue
      /\ 0 <= startTick[a] /\ startTick[a] <= MaxAllowedValue
      BY Constants DEF TypeOK
<1> QED BY <1>1, Constants DEF GetElapsedValue, Since, Value

LEMMA SinceRange ==
    ASSUME NEW then \in Value, NEW now \in Value
    PROVE  Since(then, now) \in Value
BY Constants DEF Since, Value

\* Around the end of the counter and away from its maximum, time goes on by one.
LEMMA SinceGoesOn ==
    ASSUME NEW then \in Value, NEW now \in Time, Since(then, now) < MaxAllowedValue - 1
    PROVE  Since(then, Increment(now)) = Since(then, now) + 1
<1>1. /\ then \in Int /\ 0 <= then /\ then <= MaxAllowedValue
      /\ now \in Int /\ 0 <= now /\ now < MaxAllowedValue
      /\ MaxAllowedValue \in Int
      BY Constants DEF Value, Time
<1> QED BY <1>1 DEF Since, Increment

-----------------------------------------------------------------------------
\* What the invariant says of each variable, in the names of this module.
LEMMA Types ==
    ASSUME TInv
    PROVE  /\ timers \in [TimerSlot -> Timer \cup {None}] /\ DOMAIN timers = TimerSlot
           /\ alarms \in [AlarmSlot -> Alarm \cup {None}] /\ DOMAIN alarms = AlarmSlot
           /\ counters \subseteq Counter
           /\ periodTicks \in [Timer -> Periods] /\ periodTicks \in [Timer -> Count]
           /\ remainingTicks \in [Timer -> Count]
           /\ running \in [Timer -> BOOLEAN] /\ allocated \in [Timer -> BOOLEAN]
           /\ currentTick \in [Counter -> Value] /\ startTick \in [Alarm -> Value]
           /\ alarmTime \in [Alarm -> Time] /\ active \in [Alarm -> BOOLEAN]
           /\ \A i \in TimerSlot : timers[i] # None => Marked(i)
           /\ \A i, j \in TimerSlot : timers[i] = timers[j] => i = j \/ timers[i] = None
<1>1. timers \in [TimerSlot -> Timer \cup {None}] /\ DOMAIN timers = TimerSlot
      BY DEF TInv, TypeOK, TimerSlot
<1>2. alarms \in [AlarmSlot -> Alarm \cup {None}] /\ DOMAIN alarms = AlarmSlot
      BY DEF TInv, TypeOK, AlarmSlot
<1>3. periodTicks \in [Timer -> Periods] /\ periodTicks \in [Timer -> Count]
      BY Constants DEF TInv, TypeOK
<1>4. \A i \in TimerSlot : timers[i] # None => Marked(i)
  <2> SUFFICES ASSUME NEW i \in TimerSlot, timers[i] # None
               PROVE  Marked(i)
      OBVIOUS
  <2>1. timers[i] \in Timer
        BY <1>1
  <2> QED BY <1>1, <2>1 DEF TInv, TypeOK, AtWork, Marked
<1> QED BY <1>1, <1>2, <1>3, <1>4 DEF TInv, TypeOK, Count, Value, Time

LEMMA TInvInit == Init => TInv
<1> SUFFICES ASSUME Init
             PROVE  TInv
    OBVIOUS
<1> USE Constants DEF Init, TimerInit, CounterInit, AlarmInit
<1>1. TypeOK
  <2>1. 0 \in Value /\ AlarmTime \in [Alarm -> Time]
        BY DEF Value
  <2>2. /\ timers \in [TimerSlot -> Timer \cup {None}]
        /\ alarms \in [AlarmSlot -> Alarm \cup {None}]
        BY DEF TimerSlot, AlarmSlot
  <2>3. periodTicks \in [Timer -> Periods] /\ remainingTicks \in [Timer -> Count]
        OBVIOUS
  <2>4. \A t \in Timer : ~\E i \in DOMAIN timers : timers[i] = t
        OBVIOUS
  <2> QED BY <2>1, <2>2, <2>3, <2>4 DEF TypeOK, TimerSlot, AlarmSlot, Count, Value, Time
<1>2. PendingKnown /\ PendingSlots /\ LoopSlots /\ CallerServed /\ AlarmsOnce
      BY DEF PendingKnown, PendingSlots, LoopSlots, CallerServed, AlarmsOnce, AlarmSlot
<1> QED BY <1>1, <1>2 DEF TInv

\* The operations on timers, from a task or from a callback.
LEMMA TimerOperation ==
    ASSUME TInv, NEW t \in Timer,
           \/ start(t) \/ stop(t) \/ reset(t) \/ addTimer(t)
           \/ \E p \in Periods : setPeriod(t, p)
    PROVE  TInv'
<1> USE Constants DEF TInv
<1>1. /\ UNCHANGED <<timers, allocated, alarms, counters, currentTick, startTick,
                     alarmTime, active, phase, slot, caller>>
      BY DEF start, stop, reset, addTimer, setPeriod, timerVars, counterVars,
             alarmVars, tickVars
<1>2. LoopSlots' /\ AlarmsOnce' /\ CallerServed'
      BY <1>1 DEF LoopSlots, AlarmsOnce, CallerServed
<1>3. ASSUME periodTicks' \in [Timer -> Periods], remainingTicks' \in [Timer -> Count],
             running' \in [Timer -> BOOLEAN],
             UNCHANGED pending \/ (pending = None /\ PendingKnown' /\ PendingSlots')
      PROVE  TInv'
  <2>1. TypeOK'
    <3>1. \A u \in Timer : (\E i \in DOMAIN timers : timers[i] = u) =>
                              \/ allocated[u]
                              \/ /\ pending' # None /\ pending'.of = u
                                 /\ pending'.op \in {"allocate", "deallocate", "free"}
          BY <1>3 DEF TypeOK
    <3> QED BY <1>1, <1>3, <3>1 DEF TypeOK, Count
  <2>2. PendingKnown' /\ PendingSlots'
        BY <1>1, <1>3 DEF PendingKnown, PendingSlots
  <2> QED BY <1>2, <2>1, <2>2
<1>4. CASE start(t)
  <2>1. remainingTicks' \in [Timer -> Count] /\ running' \in [Timer -> BOOLEAN]
        BY <1>4, Types DEF start
  <2>2. UNCHANGED pending \/ (pending = None /\ PendingKnown' /\ PendingSlots')
        BY <1>4 DEF start, StoreLater, InTask, Count, PendingKnown, PendingSlots, PendingTimer
  <2> QED BY <1>3, <1>4, <2>1, <2>2 DEF start, TypeOK
<1>5. ASSUME NEW p \in Periods, setPeriod(t, p)
      PROVE  TInv'
  <2>1. remainingTicks' \in [Timer -> Count] /\ periodTicks' \in [Timer -> Periods]
        BY <1>5, Types DEF setPeriod
  <2>2. UNCHANGED pending \/ (pending = None /\ PendingKnown' /\ PendingSlots')
        BY <1>5 DEF setPeriod, StoreLater, InTask, Count, PendingKnown, PendingSlots,
                    PendingTimer
  <2> QED BY <1>3, <1>5, <2>1, <2>2 DEF setPeriod, TypeOK
<1>6. CASE stop(t)
      BY <1>3, <1>6 DEF stop, TypeOK, Count
<1>7. CASE reset(t)
  <2>1. remainingTicks' \in [Timer -> Count]
        BY <1>7 DEF reset, TypeOK, Count
  <2> QED BY <1>3, <1>7, <2>1 DEF reset, TypeOK
<1>8. CASE addTimer(t)
  <2>1. /\ pending = None /\ pending' = [op |-> "addTimer", of |-> t, value |-> 1]
        /\ \A i \in TimerSlot : timers[i] # t
        BY <1>8, Types DEF addTimer, Register, StoreLater, InTask
  <2>2. PendingKnown' /\ PendingSlots'
        BY <1>1, <2>1 DEF PendingKnown, PendingSlots, PendingTimer, TimerSlot
  <2> QED BY <1>3, <1>8, <2>1, <2>2, Types DEF addTimer, timerVars
<1> QED BY <1>4, <1>5, <1>6, <1>7, <1>8

\* A slot is emptied, by a callback or by the last store of a task.
LEMMA SlotFreed ==
    ASSUME TInv, NEW t \in Timer, NEW i \in TimerSlot,
           timers' = [timers EXCEPT ![i] = None], timers[i] \in {t, None},
           UNCHANGED <<phase, slot, caller>>
    PROVE  /\ timers' \in [TimerSlot -> Timer \cup {None}] /\ DOMAIN timers' = TimerSlot
           /\ \A j \in TimerSlot : timers'[j] = IF j = i THEN None ELSE timers[j]
           /\ \A j, k \in TimerSlot : timers'[j] = timers'[k] => j = k \/ timers'[j] = None
           /\ CallerServed'
<1>1. /\ timers' \in [TimerSlot -> Timer \cup {None}] /\ DOMAIN timers' = TimerSlot
      /\ \A j \in TimerSlot : timers'[j] = IF j = i THEN None ELSE timers[j]
      BY Types
<1>2. \A j, k \in TimerSlot : timers'[j] = timers'[k] => j = k \/ timers'[j] = None
  <2>1. \A j, k \in TimerSlot : timers[j] = timers[k] => j = k \/ timers[j] = None
        BY Types
  <2> QED BY <1>1, <2>1
<1>3. CallerServed'
      BY <1>1, Constants DEF TInv, CallerServed, LoopSlots
<1> QED BY <1>1, <1>2, <1>3

\* The type invariant of the slots, from what they hold.
LEMMA SlotsTyped ==
    ASSUME TInv, UNCHANGED <<alarms, counters, currentTick, startTick, alarmTime,
                             active, phase, caller, periodTicks, remainingTicks>>,
           timers' \in [TimerSlot -> Timer \cup {None}], DOMAIN timers' = TimerSlot,
           running' \in [Timer -> BOOLEAN], allocated' \in [Timer -> BOOLEAN],
           \A j, k \in TimerSlot : timers'[j] = timers'[k] => j = k \/ timers'[j] = None,
           \A j \in TimerSlot : timers'[j] # None => Marked(j)'
    PROVE  TypeOK'
<1>1. \A u \in Timer : (\E j \in DOMAIN timers' : timers'[j] = u) =>
                          \/ allocated'[u]
                          \/ /\ pending' # None /\ pending'.of = u
                             /\ pending'.op \in {"allocate", "deallocate", "free"}
  <2> SUFFICES ASSUME NEW u \in Timer, NEW j \in TimerSlot, timers'[j] = u
               PROVE  allocated'[u] \/ AtWork(u)'
      BY DEF AtWork
  <2> QED BY Constants DEF Marked
<1> QED BY <1>1 DEF TInv, TypeOK, TimerSlot

LEMMA TimerRemoval ==
    ASSUME TInv, NEW t \in Timer, removeTimer(t)
    PROVE  TInv'
<1> USE Constants DEF TInv
<1>1. /\ UNCHANGED <<alarms, counters, currentTick, startTick, alarmTime, active,
                     phase, slot, caller, periodTicks, remainingTicks>>
      /\ allocated' = [allocated EXCEPT ![t] = FALSE]
      BY DEF removeTimer, counterVars, alarmVars, tickVars
<1>2. LoopSlots' /\ AlarmsOnce' /\ allocated' \in [Timer -> BOOLEAN]
      BY <1>1, Types DEF LoopSlots, AlarmsOnce
<1>3. PICK i \in TimerSlot :
        /\ timers[i] = t
        /\ \/ /\ timers' = [timers EXCEPT ![i] = None]
              /\ running' = [running EXCEPT ![t] = FALSE]
              /\ UNCHANGED pending
           \/ /\ pending = None /\ pending' = [op |-> "deallocate", of |-> t, value |-> i]
              /\ UNCHANGED <<timers, running>>
      BY Types DEF removeTimer, StoreLater, InTask
<1>4. \A j \in TimerSlot : timers[j] = t => j = i
      BY <1>3, Types
<1>5. CASE UNCHANGED pending /\ timers' = [timers EXCEPT ![i] = None]
                             /\ running' = [running EXCEPT ![t] = FALSE]
  <2>1. /\ timers' \in [TimerSlot -> Timer \cup {None}] /\ DOMAIN timers' = TimerSlot
        /\ \A j \in TimerSlot : timers'[j] = IF j = i THEN None ELSE timers[j]
        /\ \A j, k \in TimerSlot : timers'[j] = timers'[k] => j = k \/ timers'[j] = None
        /\ CallerServed'
        BY <1>1, <1>3, <1>5, SlotFreed
  <2>2. ASSUME NEW j \in TimerSlot, timers'[j] # None
        PROVE  Marked(j)'
    <3>1. j # i /\ timers'[j] = timers[j] /\ timers[j] # t /\ timers[j] \in Timer
          BY <1>4, <2>1, <2>2, Types
    <3>2. Marked(j)
          BY <3>1, Types
    <3> QED BY <1>1, <1>5, <3>1, <3>2, Types DEF AtWork, Marked
  <2>3. running' \in [Timer -> BOOLEAN]
        BY <1>5, Types
  <2>4. TypeOK'
        BY <1>1, <1>2, <2>1, <2>2, <2>3, SlotsTyped
  <2>5. PendingKnown'
        BY <1>5 DEF PendingKnown
  <2>6. PendingSlots'
    <3>1. \A j \in TimerSlot : timers'[j] = timers[j] \/ timers'[j] = None
          BY <2>1
    <3>2. pending # None /\ pending.op \in {"addTimer", "deallocate", "free"} =>
            pending.of \in Timer
          BY DEF PendingKnown, PendingTimer, PendingAlarm
    <3> QED BY <1>1, <1>5, <3>1, <3>2 DEF PendingSlots
  <2> QED BY <1>2, <2>1, <2>4, <2>5, <2>6
<1>6. CASE /\ pending = None /\ pending' = [op |-> "deallocate", of |-> t, value |-> i]
           /\ UNCHANGED <<timers, running>>
  <2>1. ASSUME NEW j \in TimerSlot, timers'[j] # None
        PROVE  Marked(j)'
    <3>1. timers[j] \in Timer /\ allocated[timers[j]]
          BY <1>6, <2>1, Types DEF AtWork, Marked
    <3>2. pending' # None
          BY <1>6, Constants
    <3>3. CASE timers[j] = t
          BY <1>6, <3>2, <3>3 DEF AtWork, Marked
    <3>4. CASE timers[j] # t
          BY <1>1, <1>6, <3>1, <3>4, Types DEF Marked
    <3> QED BY <3>3, <3>4
  <2>2. TypeOK'
        BY <1>1, <1>2, <1>6, <2>1, Types, SlotsTyped
  <2>3. PendingKnown' /\ PendingSlots' /\ CallerServed'
        BY <1>1, <1>4, <1>6 DEF PendingKnown, PendingSlots, PendingTimer, CallerServed
  <2> QED BY <1>2, <2>2, <2>3
<1> QED BY <1>3, <1>5, <1>6

\* The operations on counters and alarms, from a task or from a callback.
LEMMA AlarmOperation ==
    ASSUME TInv,
           \/ \E c \in Counter : \/ addCounter(c) \/ removeCounter(c)
                                 \/ \E v \in CounterValues : SetCounterValue(c, v)
           \/ \E a \in Alarm : addAlarm(a) \/ Start(a) \/ Stop(a)
    PROVE  TInv'
<1> USE Constants DEF TInv
<1>1. UNCHANGED <<timers, periodTicks, remainingTicks, running, allocated, phase, slot,
                  caller, alarms, alarmTime>>
      BY DEF addCounter, removeCounter, SetCounterValue, addAlarm, Start, Stop,
             timerVars, alarmVars, tickVars
<1>2. LoopSlots' /\ CallerServed' /\ AlarmsOnce'
      BY <1>1 DEF LoopSlots, CallerServed, AlarmsOnce
<1>3. ASSUME counters' \subseteq Counter, currentTick' \in [Counter -> Value],
             startTick' \in [Alarm -> Value], active' \in [Alarm -> BOOLEAN],
             UNCHANGED pending \/ (pending = None /\ PendingKnown' /\ PendingSlots')
      PROVE  TInv'
  <2>1. TypeOK'
    <3>1. \A u \in Timer : (\E i \in DOMAIN timers : timers[i] = u) =>
                              \/ allocated[u]
                              \/ /\ pending' # None /\ pending'.of = u
                                 /\ pending'.op \in {"allocate", "deallocate", "free"}
          BY <1>3 DEF TypeOK
    <3> QED BY <1>1, <1>3, <3>1 DEF TypeOK, Value
  <2>2. PendingKnown' /\ PendingSlots'
        BY <1>1, <1>3 DEF PendingKnown, PendingSlots
  <2> QED BY <1>2, <2>1, <2>2
<1>4. ASSUME NEW c \in Counter, addCounter(c) \/ removeCounter(c)
      PROVE  TInv'
  <2>1. counters' \subseteq Counter
        BY <1>4, Types DEF addCounter, removeCounter
  <2> QED BY <1>3, <1>4, <2>1, Types DEF addCounter, removeCounter, alarmVars
<1>5. ASSUME NEW c \in Counter, NEW v \in CounterValues, SetCounterValue(c, v)
      PROVE  TInv'
  <2>1. currentTick' \in [Counter -> Value]
        BY <1>5 DEF SetCounterValue, TypeOK, Value
  <2> QED BY <1>3, <1>5, <2>1 DEF SetCounterValue, alarmVars, TypeOK, Value
<1>6. ASSUME NEW a \in Alarm, Start(a)
      PROVE  TInv'
  <2>1. startTick' \in [Alarm -> Value] /\ active' \in [Alarm -> BOOLEAN]
        BY <1>6 DEF Start, TypeOK, Value
  <2>2. UNCHANGED pending \/ (pending = None /\ PendingKnown' /\ PendingSlots')
        BY <1>6 DEF Start, StoreLater, InTask, PendingKnown, PendingSlots, PendingAlarm
  <2> QED BY <1>3, <1>6, <2>1, <2>2 DEF Start, counterVars, TypeOK, Value
<1>7. ASSUME NEW a \in Alarm, Stop(a)
      PROVE  TInv'
      BY <1>3, <1>7 DEF Stop, counterVars, TypeOK, Value
<1>8. ASSUME NEW a \in Alarm, addAlarm(a)
      PROVE  TInv'
  <2>1. /\ pending = None /\ pending' = [op |-> "addAlarm", of |-> a, value |-> 1]
        /\ \A i \in AlarmSlot : alarms[i] # a
        BY <1>8, Types DEF addAlarm, Register, StoreLater, InTask
  <2>2. PendingKnown' /\ PendingSlots'
        BY <1>1, <2>1 DEF PendingKnown, PendingSlots, PendingAlarm, AlarmSlot
  <2> QED BY <1>3, <1>8, <2>1, <2>2, Types DEF addAlarm, counterVars, alarmVars
<1> QED BY <1>4, <1>5, <1>6, <1>7, <1>8

\* An alarm comes into a slot, or out of it.
LEMMA AlarmSlotStored ==
    ASSUME TInv, NEW x \in Alarm \cup {None}, NEW i \in AlarmSlot,
           alarms' = [alarms EXCEPT ![i] = x],
           x # None => \A j \in AlarmSlot : alarms[j] # x,
           UNCHANGED <<timerVars, counterVars, startTick, alarmTime, active, tickVars>>,
           PendingKnown', PendingSlots',
           UNCHANGED pending
             \/ (pending # None /\ pending.op = "addAlarm" /\ pending' = None)
    PROVE  TInv'
<1> USE Constants DEF TInv
<1>1. /\ alarms' \in [AlarmSlot -> Alarm \cup {None}]
      /\ \A j \in AlarmSlot : alarms'[j] = IF j = i THEN x ELSE alarms[j]
      BY Types
<1>2. AlarmsOnce'
  <2>1. \A j, k \in AlarmSlot : alarms[j] = alarms[k] => j = k \/ alarms[j] = None
        BY DEF AlarmsOnce
  <2>2. \A j, k \in AlarmSlot : alarms'[j] = alarms'[k] => j = k \/ alarms'[j] = None
        BY <1>1, <2>1
  <2> QED BY <2>2 DEF AlarmsOnce
<1>3. TypeOK'
  <2>1. \A u \in Timer : (\E j \in DOMAIN timers : timers[j] = u) =>
                            \/ allocated[u]
                            \/ /\ pending' # None /\ pending'.of = u
                               /\ pending'.op \in {"allocate", "deallocate", "free"}
        BY DEF TypeOK
  <2> QED BY <1>1, <2>1 DEF TypeOK, AlarmSlot, timerVars, counterVars, tickVars
<1>4. LoopSlots' /\ CallerServed'
      BY DEF LoopSlots, CallerServed, timerVars, tickVars
<1> QED BY <1>2, <1>3, <1>4

LEMMA AlarmRemoval ==
    ASSUME TInv, NEW a \in Alarm, removeAlarm(a)
    PROVE  TInv'
<1>1. PICK i \in AlarmSlot : alarms' = [alarms EXCEPT ![i] = None]
      BY Types DEF removeAlarm
<1>2. /\ UNCHANGED <<timerVars, counterVars, startTick, alarmTime, active, tickVars>>
      /\ UNCHANGED pending
      BY DEF removeAlarm
<1>3. PendingKnown'
      BY <1>2 DEF TInv, PendingKnown
<1>4. PendingSlots'
  <2>1. \A j \in AlarmSlot : alarms'[j] = alarms[j] \/ alarms'[j] = None
        BY <1>1, Types
  <2>2. pending # None /\ pending.op = "addAlarm" => pending.of \in Alarm
        BY DEF TInv, PendingKnown, PendingTimer, PendingAlarm
  <2> QED BY <1>2, <2>1, <2>2, Constants DEF TInv, PendingSlots, timerVars
<1> QED BY <1>1, <1>2, <1>3, <1>4, AlarmSlotStored

\* A task goes on with an operation that it began.
LEMMA StoreKeepsInv ==
    ASSUME TInv, StoreRemaining \/ StoreActive
    PROVE  TInv'
<1> USE Constants DEF TInv
<1>1. /\ pending' = None /\ UNCHANGED <<timers, periodTicks, running, allocated, counters,
         currentTick, alarms, startTick, alarmTime, phase, slot, caller>>
      BY DEF StoreRemaining, StoreActive, GoesOn, timerVars, counterVars, alarmVars,
             tickVars
<1>2. /\ remainingTicks' \in [Timer -> Count] /\ active' \in [Alarm -> BOOLEAN]
      /\ pending.op \notin {"allocate", "deallocate", "free"}
  <2>1. CASE StoreRemaining
    <3>1. /\ pending.of \in Timer /\ pending.value \in Count
          /\ UNCHANGED active /\ pending.op \in {"start", "setPeriod"}
          BY <2>1 DEF StoreRemaining, GoesOn, PendingKnown, PendingTimer, PendingAlarm,
                      alarmVars
    <3> QED BY <2>1, <3>1 DEF StoreRemaining, TypeOK, Count
  <2>2. CASE StoreActive
        BY <2>2 DEF StoreActive, GoesOn, timerVars, TypeOK, Count
  <2> QED BY <2>1, <2>2
<1>3. PendingKnown' /\ PendingSlots' /\ LoopSlots' /\ CallerServed' /\ AlarmsOnce'
      BY <1>1 DEF PendingKnown, PendingSlots, LoopSlots, CallerServed, AlarmsOnce
<1>4. TypeOK'
      BY <1>1, <1>2 DEF TypeOK, Count
<1> QED BY <1>3, <1>4

LEMMA TakeTimerSlotKeepsInv ==
    ASSUME TInv, TakeTimerSlot
    PROVE  TInv'
<1> USE Constants DEF TInv
<1>0. PICK t, i : t = pending.of /\ i = pending.value
      OBVIOUS
<1>1. /\ phase = "tasks" /\ pending # None /\ pending.op = "addTimer"
      /\ t \in Timer /\ i \in TimerSlot
      /\ pending = [op |-> "addTimer", of |-> t, value |-> i]
      /\ \A j \in TimerSlot : timers[j] # t
      /\ UNCHANGED <<alarms, counters, currentTick, startTick, alarmTime, active,
                     phase, slot, caller, periodTicks, remainingTicks, running, allocated>>
      BY <1>0 DEF TakeTimerSlot, GoesOn, PendingKnown, PendingTimer, PendingAlarm,
                  PendingSlots, counterVars, alarmVars, tickVars
<1>2. LoopSlots' /\ AlarmsOnce' /\ CallerServed'
      BY <1>1 DEF LoopSlots, AlarmsOnce, CallerServed
<1>3. CASE timers[i] = None /\ timers' = [timers EXCEPT ![i] = t]
           /\ pending' = [pending EXCEPT !.op = "allocate"]
  <2>1. /\ timers' \in [TimerSlot -> Timer \cup {None}] /\ DOMAIN timers' = TimerSlot
        /\ \A j \in TimerSlot : timers'[j] = IF j = i THEN t ELSE timers[j]
        /\ pending' = [op |-> "allocate", of |-> t, value |-> i]
        BY <1>1, <1>3, Types
  <2>2. \A j, k \in TimerSlot : timers'[j] = timers'[k] => j = k \/ timers'[j] = None
    <3>1. \A j, k \in TimerSlot : timers[j] = timers[k] => j = k \/ timers[j] = None
          BY Types
    <3> QED BY <1>1, <2>1, <3>1
  <2>3. ASSUME NEW j \in TimerSlot, timers'[j] # None
        PROVE  Marked(j)'
    <3>1. pending' # None
          BY <1>1, <2>1
    <3>2. CASE j = i
          BY <2>1, <3>1, <3>2 DEF AtWork, Marked
    <3>3. CASE j # i
      <4>1. Marked(j)
            BY <2>1, <2>3, <3>3, Types
      <4> QED BY <1>1, <2>1, <3>3, <4>1 DEF AtWork, Marked
    <3> QED BY <3>2, <3>3
  <2>4. TypeOK'
        BY <1>1, <2>1, <2>2, <2>3, SlotsTyped DEF TypeOK
  <2>5. PendingKnown' /\ PendingSlots'
        BY <1>1, <2>1 DEF PendingKnown, PendingSlots, PendingTimer
  <2> QED BY <1>2, <2>4, <2>5
<1>4. CASE TryNextSlot(timers) /\ UNCHANGED timers
  <2>1. /\ pending' = None \/ /\ pending' = [op |-> "addTimer", of |-> t, value |-> i + 1]
                               /\ i + 1 \in TimerSlot
        BY <1>0, <1>1, <1>4, Types DEF TryNextSlot
  <2>2. PendingKnown' /\ PendingSlots'
        BY <1>1, <1>4, <2>1 DEF PendingKnown, PendingSlots, PendingTimer
  <2>3. ASSUME NEW j \in TimerSlot, timers'[j] # None
        PROVE  Marked(j)'
        BY <1>1, <1>4, <2>3, Types DEF AtWork, Marked
  <2>4. TypeOK'
        BY <1>1, <1>4, <2>3, Types, SlotsTyped
  <2> QED BY <1>2, <2>2, <2>4
<1> QED BY <1>0, <1>3, <1>4 DEF TakeTimerSlot

\* The stores that end addTimer and removeTimer.
LEMMA AllocationKeepsInv ==
    ASSUME TInv, allocate \/ deallocate \/ FreeTimerSlot
    PROVE  TInv'
<1> USE Constants DEF TInv
<1>0. PICK t, i : t = pending.of /\ i = pending.value
      OBVIOUS
<1>1. /\ phase = "tasks" /\ pending # None
      /\ t \in Timer /\ i \in TimerSlot
      /\ pending = [op |-> pending.op, of |-> t, value |-> i]
      /\ UNCHANGED <<alarms, counters, currentTick, startTick, alarmTime, active,
                     phase, slot, caller, periodTicks, remainingTicks>>
      BY <1>0 DEF allocate, deallocate, FreeTimerSlot, GoesOn, PendingKnown, PendingTimer,
                  PendingAlarm, counterVars, alarmVars, tickVars
<1>2. LoopSlots' /\ AlarmsOnce'
      BY <1>1 DEF LoopSlots, AlarmsOnce
<1>3. CASE allocate
  <2>1. /\ allocated' = [allocated EXCEPT ![t] = TRUE] /\ pending' = None
        /\ UNCHANGED <<timers, running>>
        BY <1>0, <1>3 DEF allocate
  <2>2. allocated' \in [Timer -> BOOLEAN]
        BY <2>1, Types
  <2>3. ASSUME NEW j \in TimerSlot, timers'[j] # None
        PROVE  Marked(j)'
    <3>1. timers[j] \in Timer /\ Marked(j)
          BY <2>1, <2>3, Types
    <3> QED BY <1>0, <2>1, <3>1, Types DEF AtWork, Marked
  <2>4. TypeOK'
        BY <1>1, <2>1, <2>2, <2>3, Types, SlotsTyped
  <2>5. PendingKnown' /\ PendingSlots' /\ CallerServed'
        BY <1>1, <2>1 DEF PendingKnown, PendingSlots, CallerServed
  <2> QED BY <1>2, <2>4, <2>5
<1>4. CASE deallocate
  <2>1. /\ running' = [running EXCEPT ![t] = FALSE]
        /\ pending.op = "deallocate"
        /\ pending' = [op |-> "free", of |-> t, value |-> i]
        /\ UNCHANGED <<timers, allocated>>
        BY <1>0, <1>1, <1>4 DEF deallocate, GoesOn
  <2>2. running' \in [Timer -> BOOLEAN]
        BY <2>1, Types
  <2>a. pending' # None
        BY <1>1, <2>1
  <2>3. PendingKnown' /\ PendingSlots' /\ CallerServed'
        BY <1>0, <1>1, <2>1 DEF PendingKnown, PendingSlots, PendingTimer, CallerServed
  <2>4. ASSUME NEW j \in TimerSlot, timers'[j] # None
        PROVE  Marked(j)'
    <3>1. Marked(j)
          BY <2>1, <2>4, Types
    <3> QED BY <1>0, <2>1, <2>a, <3>1 DEF AtWork, Marked
  <2>5. TypeOK'
        BY <1>1, <2>1, <2>2, <2>4, Types, SlotsTyped
  <2> QED BY <1>2, <2>3, <2>5
<1>5. CASE FreeTimerSlot
  <2>1. /\ timers' = [timers EXCEPT ![i] = None] /\ pending' = None
        /\ pending.op = "free" /\ UNCHANGED <<running, allocated>>
        BY <1>0, <1>5 DEF FreeTimerSlot, GoesOn
  <2>2. \A j \in TimerSlot : timers[j] = t => j = i
        BY <1>0, <1>1, <2>1 DEF PendingSlots
  <2>3. /\ timers' \in [TimerSlot -> Timer \cup {None}] /\ DOMAIN timers' = TimerSlot
        /\ \A j \in TimerSlot : timers'[j] = IF j = i THEN None ELSE timers[j]
        BY <1>1, <2>1, Types
  <2>4. \A j, k \in TimerSlot : timers'[j] = timers'[k] => j = k \/ timers'[j] = None
    <3>1. \A j, k \in TimerSlot : timers[j] = timers[k] => j = k \/ timers[j] = None
          BY Types
    <3> QED BY <2>3, <3>1
  <2>5. ASSUME NEW j \in TimerSlot, timers'[j] # None
        PROVE  Marked(j)'
    <3>1. j # i /\ timers'[j] = timers[j] /\ timers[j] # t
          BY <2>2, <2>3, <2>5
    <3>2. Marked(j)
          BY <2>5, <3>1, Types
    <3> QED BY <1>0, <2>1, <3>1, <3>2 DEF AtWork, Marked
  <2>6. TypeOK'
        BY <1>1, <2>1, <2>3, <2>4, <2>5, Types, SlotsTyped
  <2>7. PendingKnown' /\ PendingSlots' /\ CallerServed'
        BY <1>1, <2>1 DEF PendingKnown, PendingSlots, CallerServed
  <2> QED BY <1>2, <2>6, <2>7
<1> QED BY <1>3, <1>4, <1>5

LEMMA TakeAlarmSlotKeepsInv ==
    ASSUME TInv, TakeAlarmSlot
    PROVE  TInv'
<1> USE Constants DEF TInv
<1>0. PICK a, i : a = pending.of /\ i = pending.value
      OBVIOUS
<1>1. /\ phase = "tasks" /\ pending # None /\ pending.op = "addAlarm"
      /\ a \in Alarm /\ i \in AlarmSlot
      /\ pending = [op |-> "addAlarm", of |-> a, value |-> i]
      /\ \A j \in AlarmSlot : alarms[j] # a
      /\ UNCHANGED <<timerVars, counterVars, startTick, alarmTime, active, tickVars>>
      BY <1>0 DEF TakeAlarmSlot, GoesOn, PendingKnown, PendingTimer, PendingAlarm,
                  PendingSlots
<1>2. CASE alarms[i] = None /\ alarms' = [alarms EXCEPT ![i] = a] /\ pending' = None
  <2>1. PendingKnown' /\ PendingSlots'
        BY <1>2 DEF PendingKnown, PendingSlots
  <2> QED BY <1>1, <1>2, <2>1, AlarmSlotStored
<1>3. CASE TryNextSlot(alarms) /\ UNCHANGED alarms
  <2>1. /\ pending' = None \/ /\ pending' = [op |-> "addAlarm", of |-> a, value |-> i + 1]
                               /\ i + 1 \in AlarmSlot
        BY <1>0, <1>1, <1>3, Types DEF TryNextSlot
  <2>2. PendingKnown' /\ PendingSlots'
        BY <1>1, <1>3, <2>1 DEF PendingKnown, PendingSlots, PendingAlarm
  <2>3. TypeOK'
    <3>1. \A u \in Timer : (\E j \in DOMAIN timers : timers[j] = u) => allocated[u]
          BY <1>1 DEF TypeOK
    <3> QED BY <1>1, <1>3, <3>1 DEF TypeOK, timerVars, counterVars, tickVars
  <2>4. LoopSlots' /\ CallerServed' /\ AlarmsOnce'
        BY <1>1, <1>3 DEF LoopSlots, CallerServed, AlarmsOnce, timerVars, tickVars
  <2> QED BY <2>2, <2>3, <2>4
<1> QED BY <1>0, <1>2, <1>3 DEF TakeAlarmSlot

\* The loops of tick.
LEMMA TickKeepsInv ==
    ASSUME TInv, TickStep
    PROVE  TInv'
<1> USE Constants DEF TInv
<1>1. UNCHANGED <<timers, periodTicks, allocated, counters, alarms, pending>>
      BY DEF TickStep, Tick, TickTimer, TimerCallbackReturns, IncrementCounters,
             CheckAndTrigger, AlarmReturns, TickReturns, timerVars, counterVars, alarmVars
<1>2. PendingKnown' /\ PendingSlots' /\ AlarmsOnce'
      BY <1>1 DEF PendingKnown, PendingSlots, AlarmsOnce
<1>3. ASSUME remainingTicks' \in [Timer -> Count], running' \in [Timer -> BOOLEAN],
             currentTick' \in [Counter -> Value], startTick' \in [Alarm -> Value],
             alarmTime' \in [Alarm -> Time], active' \in [Alarm -> BOOLEAN],
             phase' \in {"tasks", "timer", "timerCallback", "alarm", "alarmCallback",
                         "alarmTask"},
             caller' \in Timer \cup Alarm \cup {None},
             LoopSlots', CallerServed'
      PROVE  TInv'
      BY <1>1, <1>2, <1>3 DEF TypeOK, Count, Value, Time
<1>4. CASE Tick \/ TickReturns \/ AlarmReturns
  <2>1. UNCHANGED <<remainingTicks, running, currentTick, startTick, alarmTime, active>>
        BY <1>4 DEF Tick, TickReturns, AlarmReturns, timerVars, counterVars, alarmVars
  <2>2. /\ phase' \in {"timer", "tasks", "alarm"} /\ caller' \in {caller, None}
        /\ LoopSlots' /\ CallerServed'
        BY <1>4 DEF Tick, TickReturns, AlarmReturns, NextSlot, LoopSlots, CallerServed,
                    AlarmSlot
  <2>3. caller' \in Timer \cup Alarm \cup {None}
        BY <2>2 DEF TypeOK
  <2> QED BY <1>3, <2>1, <2>2, <2>3 DEF TypeOK, Count, Value, Time
<1>5. CASE TickTimer
  <2> DEFINE t == timers[slot]
  <2>1. /\ phase = "timer" /\ slot \in TimerSlot /\ t \in Timer \cup {None}
        /\ caller = None
        /\ UNCHANGED <<running, currentTick, startTick, alarmTime, active>>
        BY <1>5 DEF TickTimer, counterVars, alarmVars, TypeOK, TimerSlot, LoopSlots
  <2>2. remainingTicks' \in [Timer -> Count]
    <3>1. t # None => Decremented(t) \in Count
          BY <2>1, DecrementedCount, Types DEF Decremented
    <3> QED BY <1>5, <2>1, <3>1, Types DEF TickTimer
  <2>3. \/ phase' = "timer" /\ slot' = slot + 1 /\ caller' = None
        \/ phase' = "timerCallback" /\ slot' = slot /\ caller' = t /\ t \in Timer
        BY <1>5, <2>1 DEF TickTimer, NextSlot, CallBack
  <2>4. LoopSlots' /\ CallerServed'
    <3>1. CASE phase' = "timer"
          BY <2>1, <2>3, <3>1 DEF LoopSlots, CallerServed, TimerSlot
    <3>2. CASE phase' = "timerCallback"
      <4>1. \A i \in TimerSlot : timers[i] = t => i = slot
            BY <2>1, <2>3, <3>2, Types
      <4> QED BY <1>1, <2>1, <2>3, <3>2, <4>1 DEF LoopSlots, CallerServed
    <3> QED BY <2>3, <3>1, <3>2
  <2>5. /\ phase' \in {"timer", "timerCallback"}
        /\ caller' \in Timer \cup Alarm \cup {None}
        BY <2>1, <2>3
  <2> QED BY <1>3, <2>1, <2>2, <2>4, <2>5 DEF TypeOK, Count, Value, Time
<1>6. CASE TimerCallbackReturns
  <2>1. /\ phase = "timerCallback" /\ slot \in TimerSlot /\ caller \in Timer
        /\ phase' = "timer" /\ slot' = slot + 1 /\ caller' = None
        /\ UNCHANGED <<currentTick, startTick, alarmTime, active>>
        BY <1>6 DEF TimerCallbackReturns, NextSlot, counterVars, alarmVars, LoopSlots
  <2>2. remainingTicks' \in [Timer -> Count] /\ running' \in [Timer -> BOOLEAN]
    <3>1. CASE caller \in AutoReload
      <4>1. /\ remainingTicks' = [remainingTicks EXCEPT ![caller] = periodTicks[caller]]
            /\ UNCHANGED running
            BY <1>6, <3>1 DEF TimerCallbackReturns
      <4> QED BY <2>1, <4>1, Types
    <3>2. CASE caller \notin AutoReload
      <4>1. /\ running' = [running EXCEPT ![caller] = FALSE]
            /\ UNCHANGED remainingTicks
            BY <1>6, <3>2 DEF TimerCallbackReturns
      <4> QED BY <2>1, <4>1, Types
    <3> QED BY <3>1, <3>2
  <2>3. LoopSlots' /\ CallerServed'
        BY <2>1 DEF LoopSlots, CallerServed, TimerSlot
  <2> QED BY <1>3, <2>1, <2>2, <2>3 DEF TypeOK, Value, Time
<1>7. CASE IncrementCounters
  <2>1. /\ phase = "timer" /\ phase' = "alarm" /\ slot' = 1 /\ caller' = None
        /\ UNCHANGED <<remainingTicks, running, startTick, alarmTime, active>>
        BY <1>7 DEF IncrementCounters, timerVars, alarmVars, LoopSlots
  <2>2. currentTick' \in [Counter -> Value]
    <3>1. \A c \in Counter : currentTick[c] \in Value /\ Increment(currentTick[c]) \in Value
          BY IncrementedCount DEF TypeOK, Value, Time
    <3> QED BY <1>7, <3>1 DEF IncrementCounters
  <2>3. LoopSlots' /\ CallerServed'
        BY <2>1 DEF LoopSlots, CallerServed
  <2> QED BY <1>3, <2>1, <2>2, <2>3 DEF TypeOK, Count, Value, Time
<1>8. CASE CheckAndTrigger
  <2> DEFINE a == alarms[slot]
  <2>1. /\ phase = "alarm" /\ slot \in AlarmSlot /\ a \in Alarm \cup {None}
        /\ caller = None
        /\ UNCHANGED <<remainingTicks, running, currentTick>>
        BY <1>8 DEF CheckAndTrigger, timerVars, counterVars, TypeOK, AlarmSlot, LoopSlots
  <2>2. /\ startTick' \in [Alarm -> Value] /\ alarmTime' \in [Alarm -> Time]
        /\ active' \in [Alarm -> BOOLEAN]
    <3>1. CASE a # None /\ Due(a)
      <4>1. currentTick[CounterOf[a]] \in Value /\ CycleTime[a] \in Time
            BY <2>1, <3>1, Types
      <4>2. \/ /\ startTick' = [startTick EXCEPT ![a] = currentTick[CounterOf[a]]]
               /\ alarmTime' = [alarmTime EXCEPT ![a] = CycleTime[a]]
               /\ UNCHANGED active
            \/ /\ active' = [active EXCEPT ![a] = FALSE]
               /\ UNCHANGED <<startTick, alarmTime>>
            BY <1>8, <3>1 DEF CheckAndTrigger
      <4> QED BY <2>1, <4>1, <4>2, Types
    <3>2. CASE ~(a # None /\ Due(a))
          BY <1>8, <3>2, Types DEF CheckAndTrigger
    <3> QED BY <3>1, <3>2
  <2>3. \/ phase' = "alarm" /\ slot' = slot + 1 /\ caller' = None
        \/ /\ phase' \in {"alarmCallback", "alarmTask"} /\ slot' = slot
           /\ caller' = a /\ a \in Alarm
        BY <1>8, <2>1 DEF CheckAndTrigger, NextSlot, CallBack
  <2>4. LoopSlots' /\ CallerServed'
        BY <2>1, <2>3 DEF LoopSlots, CallerServed, AlarmSlot
  <2>5. /\ phase' \in {"alarm", "alarmCallback", "alarmTask"}
        /\ caller' \in Timer \cup Alarm \cup {None}
        BY <2>1, <2>3
  <2> QED BY <1>3, <2>1, <2>2, <2>4, <2>5 DEF TypeOK, Count, Value, Time
<1> QED BY <1>4, <1>5, <1>6, <1>7, <1>8 DEF TickStep

LEMMA TInvStep == TInv /\ [Next]_vars => TInv'
<1> SUFFICES ASSUME TInv, [Next]_vars
             PROVE  TInv'
    OBVIOUS
<1>1. CASE UNCHANGED vars
  <2>1. UNCHANGED <<timers, periodTicks, remainingTicks, running, allocated, counters,
                    currentTick, alarms, startTick, alarmTime, active, phase, slot,
                    caller, pending>>
        BY <1>1 DEF vars, timerVars, counterVars, alarmVars, tickVars
  <2> QED BY <2>1 DEF TInv, TypeOK, PendingKnown, PendingSlots, LoopSlots, CallerServed,
                        AlarmsOnce
<1> QED BY <1>1, TimerOperation, TimerRemoval, AlarmOperation, AlarmRemoval, StoreKeepsInv,
           TakeTimerSlotKeepsInv, AllocationKeepsInv, TakeAlarmSlotKeepsInv, TickKeepsInv
        DEF Next, UserStep

LEMMA Invariance == Spec => []TInv
<1>1. Init => TInv
      BY TInvInit
<1>2. TInv /\ [Next]_vars => TInv'
      BY TInvStep
<1> QED BY <1>1, <1>2, PTL DEF Spec

\* A timer is in one slot at most, and marked allocated then unless a call that
\* adds or removes it is at work, and no count leaves its range, whatever
\* callbacks do between the stores of interrupted calls.
THEOREM TypeCorrect == Spec => []TypeOK
<1>1. TInv => TypeOK
      BY DEF TInv
<1> QED BY <1>1, Invariance, PTL

-----------------------------------------------------------------------------
(***************************************************************************)
(* Timers implement Countdown.                                             *)
(***************************************************************************)
InSlotOf(slots, t) == \E i \in DOMAIN slots : slots[i] = t
InSlot(t)      == \E i \in TimerSlot : timers[i] = t
TimerToCome(t) == ToCome(timers, t, "timer", {"timerCallback"})

\* A step that leaves a timer alone, and its place in the loop, leaves its time.
LEMMA TimerUndisturbed ==
    ASSUME NEW t \in Timer, timers' = timers, running'[t] = running[t],
           remainingTicks'[t] = remainingTicks[t], periodTicks' = periodTicks,
           caller' = t <=> caller = t, TimerToCome(t)' <=> TimerToCome(t)
    PROVE  timerLeft'[t] = timerLeft[t]
BY DEF timerLeft, TimerToCome, Decremented

\* Both are functions, so that they are equal where their values are.
LEMMA TimerLeftEqual ==
    ASSUME \A t \in Timer : timerLeft'[t] = timerLeft[t]
    PROVE  timerLeft' = timerLeft
BY DEF timerLeft

LEMMA TimerLeftChanges ==
    ASSUME NEW u \in Timer, \A t \in Timer : t # u => timerLeft'[t] = timerLeft[t]
    PROVE  timerLeft' = [timerLeft EXCEPT ![u] = timerLeft'[u]]
<1>1. /\ timerLeft = [t \in Timer |-> timerLeft[t]]
      /\ timerLeft' = [t \in Timer |-> timerLeft'[t]]
      BY DEF timerLeft
<1> QED BY <1>1

\* The time of a timer that the loop has passed, or that it has yet to reach.
LEMMA TimerLeftIs ==
    ASSUME TInv, NEW t \in Timer, running[t], InSlot(t), caller # t
    PROVE  timerLeft[t] = IF TimerToCome(t) THEN Decremented(t)
                          ELSE Whole(remainingTicks[t])
BY Types DEF timerLeft, InSlot, TimerToCome

\* The time of the timer whose callback runs.
LEMMA CallerLeft ==
    ASSUME NEW t \in Timer, caller = t
    PROVE  timerLeft[t] = IF running[t] /\ InSlotOf(timers, t) /\ t \in AutoReload
                          THEN Whole(periodTicks[t]) ELSE None
BY DEF timerLeft, InSlotOf

LEMMA CallerLeftNext ==
    ASSUME NEW t \in Timer, caller' = t
    PROVE  timerLeft'[t] = IF running'[t] /\ InSlotOf(timers', t) /\ t \in AutoReload
                           THEN Whole(periodTicks'[t]) ELSE None
BY DEF timerLeft, InSlotOf

LEMMA TimersInit == Init => TimerPromise!Init
<1> SUFFICES ASSUME Init
             PROVE  TimerPromise!Init
    OBVIOUS
<1>1. timerLeft = [t \in Timer |-> None]
      BY DEF Init, TimerInit, timerLeft
<1>2. caller = None /\ userRuns = TRUE
      BY DEF Init, userRuns
<1> QED BY <1>1, <1>2, Constants DEF TimerPromise!Init

\* A task or a callback may set any timer to any time.
LEMMA UserSetsTimers ==
    ASSUME TInv, TInv', UserStep
    PROVE  TimerPromise!Set
<1>1. userRuns /\ UNCHANGED <<phase, slot, caller>>
      BY DEF UserStep, userRuns, InTask, StoreLater, GoesOn, Register, start, stop, reset,
             addTimer, removeTimer, setPeriod, addCounter, removeCounter,
             SetCounterValue, addAlarm, removeAlarm, Start, Stop, StoreRemaining,
             TakeTimerSlot, allocate, deallocate, FreeTimerSlot, TakeAlarmSlot,
             StoreActive, tickVars
<1>2. ASSUME NEW t \in Timer
      PROVE  timerLeft'[t] \in Nat \cup {None}
  <2>1. periodTicks'[t] \in Count /\ remainingTicks'[t] \in Count
        BY Constants DEF TInv, TypeOK, Count
  <2>2. Whole(periodTicks'[t]) \in Nat /\ Whole(remainingTicks'[t]) \in Nat
        BY <2>1, DecrementedCount
  <2>3. Decremented(t)' \in Nat
        BY <2>1, DecrementedCount DEF Decremented, Count
  <2> QED BY <2>2, <2>3 DEF timerLeft
<1>3. timerLeft' = [t \in Timer |-> timerLeft'[t]]
      BY DEF timerLeft
<1> QED BY <1>1, <1>2, <1>3 DEF TimerPromise!Set, userRuns, InCallback

\* A tick takes one from the time of every timer that runs.
LEMMA TickCountsTimers ==
    ASSUME TInv, Tick
    PROVE  TimerPromise!Pass
<1>1. /\ phase = "tasks" /\ phase' = "timer" /\ slot' = 1 /\ caller = None /\ caller' = None
      /\ UNCHANGED timerVars
      BY DEF Tick, TInv, LoopSlots
<1>2. ASSUME NEW t \in Timer
      PROVE  /\ timerLeft[t] # 0
             /\ timerLeft'[t] = IF timerLeft[t] = None THEN None ELSE timerLeft[t] - 1
  <2>1. CASE running[t] /\ InSlot(t)
    <3>1. ~TimerToCome(t) /\ TimerToCome(t)'
          BY <1>1, <2>1, Types DEF TimerToCome, ToCome, InSlot, timerVars, TimerSlot
    <3>2. timerLeft[t] = Whole(remainingTicks[t])
          BY <1>1, <2>1, <3>1, TimerLeftIs, Constants
    <3>3. timerLeft'[t] = Decremented(t)
          BY <1>1, <2>1, <3>1, Types, Constants
             DEF timerLeft, InSlot, TimerToCome, timerVars, Decremented
    <3>4. Whole(remainingTicks[t]) \in Nat \ {0} /\ Decremented(t) = Whole(remainingTicks[t]) - 1
          BY Types, DecrementedCount DEF Decremented
    <3> QED BY <3>2, <3>3, <3>4, Constants
  <2>2. CASE ~(running[t] /\ InSlot(t))
        BY <1>1, <2>2, Types, Constants DEF timerLeft, InSlot, timerVars
  <2> QED BY <2>1, <2>2
<1>3. timerLeft' = [t \in Timer |-> IF timerLeft[t] = None THEN None ELSE timerLeft[t] - 1]
      BY <1>2 DEF timerLeft
<1>4. userRuns' = FALSE
      BY <1>1 DEF userRuns, InCallback
<1> QED BY <1>1, <1>2, <1>3, <1>4, Constants DEF TimerPromise!Pass

\* The loop counts a timer down, and calls back when that was the last tick.
LEMMA LoopServesTimer ==
    ASSUME TInv, TickTimer
    PROVE  UNCHANGED TimerPromise!vars \/ \E t \in Timer : TimerPromise!Ring(t)
<1>0. PICK u : u = timers[slot]
      OBVIOUS
<1>1. /\ u = timers[slot] /\ phase = "timer" /\ slot \in TimerSlot /\ slot \in Int /\ u \in Timer \cup {None}
      /\ caller = None /\ UNCHANGED <<timers, running, periodTicks>>
      BY <1>0, Types DEF TickTimer, TInv, LoopSlots, TimerSlot
<1>2. \/ phase' = "timer" /\ slot' = slot + 1 /\ caller' = None
      \/ phase' = "timerCallback" /\ slot' = slot /\ caller' = u /\ u \in Timer
      BY <1>1 DEF TickTimer, NextSlot, CallBack
<1>3. ASSUME NEW t \in Timer, t # u
      PROVE  timerLeft'[t] = timerLeft[t]
  <2>1. \A i \in TimerSlot : timers[i] = t => i # slot /\ i \in Int
        BY <1>1, <1>3, Constants DEF TimerSlot
  <2>2. TimerToCome(t)' <=> TimerToCome(t)
        BY <1>1, <1>2, <2>1, Types DEF TimerToCome, ToCome
  <2>3. remainingTicks'[t] = remainingTicks[t]
        BY <1>1, <1>3, Types DEF TickTimer
  <2>4. caller' # t /\ caller # t
        BY <1>1, <1>2, <1>3, Constants
  <2> QED BY <1>1, <2>2, <2>3, <2>4, TimerUndisturbed
<1>4. userRuns = FALSE /\ userRuns' \in BOOLEAN /\ (phase' = "timer" => userRuns' = FALSE)
      BY <1>1 DEF userRuns, InCallback
<1>5. CASE u = None \/ ~running[u]
  <2>1. phase' = "timer" /\ slot' = slot + 1 /\ caller' = None
        BY <1>1, <1>5 DEF TickTimer, NextSlot
  <2>2. ASSUME NEW t \in Timer
        PROVE  timerLeft'[t] = timerLeft[t]
    <3>1. CASE t = u
          BY <1>1, <1>5, <3>1, Constants DEF timerLeft
    <3> QED BY <1>3, <3>1
  <2>3. timerLeft' = timerLeft
        BY <2>2, TimerLeftEqual
  <2> QED BY <1>1, <1>4, <2>1, <2>3 DEF TimerPromise!vars
<1>6. CASE u # None /\ running[u]
  <2>1. u \in Timer /\ InSlot(u)
        BY <1>1, <1>6 DEF InSlot
  <2>2. \A i \in TimerSlot : timers[i] = u => i = slot
        BY <1>1, <1>6, Types
  <2>3. remainingTicks'[u] = Decremented(u) /\ Decremented(u) \in Nat
    <3>1. Decremented(u) \in Nat
          BY <2>1, Types, DecrementedCount DEF Decremented, Count
    <3> QED BY <1>1, <1>6, <2>1, <3>1, Types DEF TickTimer
  <2>4. timerLeft[u] = Decremented(u)
    <3>1. TimerToCome(u)
          BY <1>1, Types DEF TimerToCome, ToCome
    <3> QED BY <1>1, <1>6, <2>1, <3>1, TimerLeftIs, Constants
  <2>5. CASE Decremented(u) # 0
    <3>1. phase' = "timer" /\ slot' = slot + 1 /\ caller' = None
          BY <1>1, <1>6, <2>5 DEF TickTimer, NextSlot
    <3>2. ~TimerToCome(u)'
          BY <1>1, <2>2, <3>1, Types DEF TimerToCome, ToCome
    <3>3. timerLeft'[u] = Whole(Decremented(u))
          BY <1>1, <1>6, <2>1, <2>3, <3>1, <3>2, Types, Constants
             DEF timerLeft, InSlot, TimerToCome
    <3>4. \A t \in Timer : timerLeft'[t] = timerLeft[t]
          BY <1>3, <2>4, <2>5, <3>3 DEF Whole
    <3>5. timerLeft' = timerLeft
          BY <3>4, TimerLeftEqual
    <3> QED BY <1>1, <1>4, <3>1, <3>5 DEF TimerPromise!vars
  <2>6. CASE Decremented(u) = 0
    <3>1. phase' = "timerCallback" /\ slot' = slot /\ caller' = u
          BY <1>1, <1>6, <2>6 DEF TickTimer, CallBack
    <3>2. timerLeft'[u] \in (Nat \ {0}) \cup {None}
      <4>1. Whole(periodTicks[u]) \in Nat \ {0}
            BY <2>1, Types, DecrementedCount
      <4>2. timerLeft'[u] = None \/ timerLeft'[u] = Whole(periodTicks[u])
            BY <1>1, <2>1, <3>1, CallerLeftNext
      <4> QED BY <4>1, <4>2
    <3>3. timerLeft' = [timerLeft EXCEPT ![u] = timerLeft'[u]]
          BY <1>3, <2>1, TimerLeftChanges
    <3>4. TimerPromise!Ring(u)
          BY <1>1, <1>4, <2>1, <2>4, <2>6, <3>1, <3>2, <3>3, Constants
             DEF TimerPromise!Ring
    <3> QED BY <2>1, <3>4
  <2> QED BY <2>5, <2>6
<1> QED BY <1>5, <1>6

\* The rest of Timer::tick does what the timer's time has said since it went off.
LEMMA CallbackEnds ==
    ASSUME TInv, TimerCallbackReturns
    PROVE  TimerPromise!Silence
<1>0. PICK c : c = caller
      OBVIOUS
<1>1. /\ phase = "timerCallback" /\ slot \in TimerSlot /\ slot \in Int /\ c \in Timer /\ caller = c
      /\ phase' = "timer" /\ slot' = slot + 1 /\ caller' = None
      /\ UNCHANGED <<timers, periodTicks>>
      BY <1>0 DEF TimerCallbackReturns, NextSlot, TInv, LoopSlots, TimerSlot
<1>2. ASSUME NEW t \in Timer, t # c
      PROVE  timerLeft'[t] = timerLeft[t]
  <2>1. \A i \in TimerSlot : i \in Int
        BY Constants DEF TimerSlot
  <2>2. TimerToCome(t)' <=> TimerToCome(t)
    <3>1. TimerToCome(t) <=> \E i \in TimerSlot : timers[i] = t /\ slot < i
          BY <1>1, Types DEF TimerToCome, ToCome
    <3>2. TimerToCome(t)' <=> \E i \in TimerSlot : timers[i] = t /\ slot + 1 <= i
          BY <1>1, Types DEF TimerToCome, ToCome
    <3> QED BY <1>1, <2>1, <3>1, <3>2
  <2>3. remainingTicks'[t] = remainingTicks[t] /\ running'[t] = running[t]
    <3>1. CASE c \in AutoReload
          BY <1>1, <1>2, <3>1, Types DEF TimerCallbackReturns
    <3>2. CASE c \notin AutoReload
          BY <1>1, <1>2, <3>2, Types DEF TimerCallbackReturns
    <3> QED BY <3>1, <3>2
  <2> QED BY <1>1, <1>2, <2>2, <2>3, TimerUndisturbed, Constants
<1>3. timerLeft'[c] = timerLeft[c]
  <2>1. ~TimerToCome(c)'
    <3>1. \A i \in TimerSlot : timers[i] = c => i = slot
          BY <1>1 DEF TInv, CallerServed
    <3>2. TimerToCome(c)' <=> \E i \in TimerSlot : timers[i] = c /\ slot + 1 <= i
          BY <1>1, Types DEF TimerToCome, ToCome
    <3> QED BY <1>1, <3>1, <3>2
  <2>2. CASE c \in AutoReload
    <3>1. /\ remainingTicks'[c] = periodTicks[c]
          /\ running'[c] = running[c]
          BY <1>1, <2>2, Types DEF TimerCallbackReturns
    <3>2. caller' # c
          BY <1>1, Constants
    <3>3. CASE running[c] /\ InSlotOf(timers, c)
      <4>1. timerLeft[c] = Whole(periodTicks[c])
            BY <1>1, <2>2, <3>3, CallerLeft
      <4>2. timerLeft'[c] = Whole(remainingTicks'[c])
            BY <1>1, <2>1, <3>1, <3>2, <3>3 DEF timerLeft, InSlotOf, TimerToCome
      <4> QED BY <3>1, <4>1, <4>2
    <3>4. CASE ~(running[c] /\ InSlotOf(timers, c))
          BY <1>1, <3>1, <3>4 DEF timerLeft, InSlotOf
    <3> QED BY <3>3, <3>4
  <2>3. CASE c \notin AutoReload
    <3>1. ~running'[c]
          BY <1>1, <2>3, Types DEF TimerCallbackReturns
    <3> QED BY <1>1, <2>3, <3>1 DEF timerLeft
  <2> QED BY <2>2, <2>3
<1>4. timerLeft' = timerLeft
      BY <1>1, <1>2, <1>3, TimerLeftEqual
<1>5. userRuns' \in BOOLEAN
      BY DEF userRuns, InCallback
<1> QED BY <1>1, <1>4, <1>5, Constants DEF TimerPromise!Silence

\* Counters and alarms are served without a timer noticing.
LEMMA TimersRest ==
    ASSUME TInv, IncrementCounters \/ CheckAndTrigger \/ AlarmReturns \/ TickReturns
    PROVE  UNCHANGED TimerPromise!vars \/ TimerPromise!Turn
<1>1. UNCHANGED timerVars
      BY DEF IncrementCounters, CheckAndTrigger, AlarmReturns, TickReturns
<1>2. /\ caller \notin Timer /\ caller' \notin Timer
      /\ phase \in {"timer", "alarm", "alarmCallback", "alarmTask"}
      /\ phase = "timer" => slot > MAX_TIMERS
      /\ phase' \in {"tasks", "alarm", "alarmCallback", "alarmTask"}
      /\ phase = "timer" => phase' = "alarm"
      /\ phase = "alarmTask" => phase' = "alarm"
      /\ phase = "alarmCallback" => phase' = "alarm"
  <2>1. \A i \in AlarmSlot : alarms[i] \in Alarm \cup {None}
        BY Types
  <2>2. CASE CheckAndTrigger
    <3>1. phase = "alarm" /\ slot \in AlarmSlot /\ caller = None
          BY <2>2, Types DEF CheckAndTrigger, TInv, LoopSlots
    <3>2. \/ phase' = "alarm" /\ caller' = caller
          \/ phase' \in {"alarmCallback", "alarmTask"} /\ caller' = alarms[slot]
          BY <2>2 DEF CheckAndTrigger, NextSlot, CallBack
    <3> QED BY <2>1, <3>1, <3>2, Constants
  <2>3. CASE IncrementCounters \/ AlarmReturns \/ TickReturns
        BY <2>3, Constants
           DEF IncrementCounters, AlarmReturns, TickReturns, NextSlot, TInv, LoopSlots
  <2> QED BY <2>2, <2>3
<1>3. ASSUME NEW t \in Timer
      PROVE  timerLeft'[t] = timerLeft[t]
  <2>1. \A i \in TimerSlot : i \in Int /\ i <= MAX_TIMERS
        BY Constants DEF TimerSlot
  <2>2. phase = "timer" => slot \in Int
        BY DEF TInv, LoopSlots
  <2>3. ~TimerToCome(t) /\ ~TimerToCome(t)'
        BY <1>1, <1>2, <2>1, <2>2, Types, Constants DEF TimerToCome, ToCome, timerVars
  <2>4. caller # t /\ caller' # t
        BY <1>2
  <2> QED BY <1>1, <2>3, <2>4, TimerUndisturbed DEF timerVars
<1>4. timerLeft' = timerLeft
      BY <1>3, TimerLeftEqual
<1>5. CASE phase = "alarmCallback"
  <2>1. userRuns = TRUE /\ userRuns' = FALSE
        BY <1>2, <1>5 DEF userRuns, InCallback
  <2> QED BY <1>2, <1>4, <2>1 DEF TimerPromise!Turn
<1>6. CASE phase # "alarmCallback"
  <2>1. userRuns = FALSE /\ userRuns' \in BOOLEAN
        BY <1>2, <1>6 DEF userRuns, InCallback
  <2>2. CASE userRuns' = TRUE
        BY <1>2, <1>4, <2>1, <2>2 DEF TimerPromise!Turn
  <2>3. CASE userRuns' = FALSE
        BY <1>2, <1>4, <2>1, <2>3 DEF TimerPromise!vars
  <2> QED BY <2>1, <2>2, <2>3
<1> QED BY <1>5, <1>6

LEMMA TimersStep ==
    ASSUME TInv, TInv', [Next]_vars
    PROVE  [TimerPromise!Next]_(TimerPromise!vars)
<1>1. CASE UNCHANGED vars
  <2>1. UNCHANGED <<timers, running, remainingTicks, periodTicks, phase, slot, caller>>
        BY <1>1 DEF vars, timerVars, tickVars
  <2>2. ASSUME NEW t \in Timer
        PROVE  timerLeft'[t] = timerLeft[t]
    <3>1. TimerToCome(t)' <=> TimerToCome(t)
          BY <2>1 DEF TimerToCome, ToCome
    <3> QED BY <2>1, <3>1, TimerUndisturbed
  <2>3. timerLeft' = timerLeft
        BY <2>2, TimerLeftEqual
  <2> QED BY <2>1, <2>3 DEF TimerPromise!vars, userRuns, InCallback
<1> QED BY <1>1, UserSetsTimers, TickCountsTimers, LoopServesTimer, CallbackEnds, TimersRest
        DEF Next, TickStep, TimerPromise!Next

\* Every tick counts once for each running timer, in every slot and across the
\* wrap of the count, and the callback comes when, and only when, the count is
\* over, whatever callbacks and interrupted calls do.
THEOREM TickServicesImplementTimers == Spec => ImplementsTimers
<1>1. Init => TimerPromise!Init
      BY TimersInit
<1>2. TInv /\ TInv' /\ [Next]_vars => [TimerPromise!Next]_(TimerPromise!vars)
      BY TimersStep
<1> QED BY <1>1, <1>2, Invariance, PTL DEF Spec, TimerPromise!Spec, ImplementsTimers

-----------------------------------------------------------------------------
(***************************************************************************)
(* Alarms implement Countdown.                                             *)
(***************************************************************************)
Listed(a)      == \E i \in AlarmSlot : alarms[i] = a
AlarmToCome(a) == ToCome(alarms, a, "alarm", {"alarmCallback", "alarmTask"})

\* A step that leaves an alarm alone, its counter, and its place in the loop,
\* leaves its time.
LEMMA AlarmUndisturbed ==
    ASSUME NEW a \in Alarm, UNCHANGED <<alarms, counters, currentTick>>,
           active'[a] = active[a], startTick'[a] = startTick[a],
           alarmTime'[a] = alarmTime[a], AlarmToCome(a)' <=> AlarmToCome(a)
    PROVE  alarmLeft'[a] = alarmLeft[a]
BY DEF alarmLeft, AlarmToCome

LEMMA AlarmLeftEqual ==
    ASSUME \A a \in Alarm : alarmLeft'[a] = alarmLeft[a]
    PROVE  alarmLeft' = alarmLeft
BY DEF alarmLeft

LEMMA AlarmLeftChanges ==
    ASSUME NEW u \in Alarm, \A a \in Alarm : a # u => alarmLeft'[a] = alarmLeft[a]
    PROVE  alarmLeft' = [alarmLeft EXCEPT ![u] = alarmLeft'[u]]
<1>1. /\ alarmLeft = [a \in Alarm |-> alarmLeft[a]]
      /\ alarmLeft' = [a \in Alarm |-> alarmLeft'[a]]
      BY DEF alarmLeft
<1> QED BY <1>1

\* What the counter of an alarm has counted since it was started, now and
\* when the counters advance next.
Counted(a) == Since(startTick[a], currentTick[CounterOf[a]])

CountedNext(a) ==
    Since(startTick[a], IF CounterOf[a] \in counters THEN Increment(currentTick[CounterOf[a]])
                        ELSE currentTick[CounterOf[a]])

\* The time of an alarm in its cases.
TimeLeft(a) ==
    IF AlarmToCome(a) /\ Counted(a) >= alarmTime[a] THEN 0
    ELSE IF CountedNext(a) >= alarmTime[a] THEN 1
    ELSE IF CounterOf[a] \in counters THEN alarmTime[a] - CountedNext(a) + 1
    ELSE None

LEMMA AlarmLeftIs ==
    ASSUME TInv, NEW a \in Alarm
    PROVE  alarmLeft[a] = IF active[a] /\ Listed(a) THEN TimeLeft(a) ELSE None
BY Types DEF alarmLeft, Listed, TimeLeft, AlarmToCome, Counted, CountedNext

LEMMA AlarmLeftNext ==
    ASSUME TInv', NEW a \in Alarm
    PROVE  alarmLeft'[a] = IF active'[a] /\ Listed(a)' THEN TimeLeft(a)' ELSE None
<1>1. DOMAIN alarms' = AlarmSlot
      BY DEF TInv, TypeOK, AlarmSlot
<1> QED BY <1>1 DEF alarmLeft, Listed, TimeLeft, AlarmToCome, Counted, CountedNext

LEMMA AlarmsInit == Init => AlarmPromise!Init
<1> SUFFICES ASSUME Init
             PROVE  AlarmPromise!Init
    OBVIOUS
<1>1. alarmLeft = [a \in Alarm |-> None]
      BY DEF Init, AlarmInit, alarmLeft
<1>2. caller = None /\ userRuns = TRUE
      BY DEF Init, userRuns
<1> QED BY <1>1, <1>2, Constants DEF AlarmPromise!Init

\* A task or a callback may set any alarm to any time.
LEMMA UserSetsAlarms ==
    ASSUME TInv, TInv', UserStep
    PROVE  AlarmPromise!Set
<1>1. userRuns /\ UNCHANGED <<phase, slot, caller>>
      BY DEF UserStep, userRuns, InTask, StoreLater, GoesOn, Register, start, stop, reset,
             addTimer, removeTimer, setPeriod, addCounter, removeCounter,
             SetCounterValue, addAlarm, removeAlarm, Start, Stop, StoreRemaining,
             TakeTimerSlot, allocate, deallocate, FreeTimerSlot, TakeAlarmSlot,
             StoreActive, tickVars
<1>2. ASSUME NEW a \in Alarm
      PROVE  alarmLeft'[a] \in Nat \cup {None}
  <2>1. /\ currentTick'[CounterOf[a]] \in Value /\ startTick'[a] \in Value
        /\ alarmTime'[a] \in Time
        BY Constants DEF TInv, TypeOK, Value, Time
  <2>2. Counted(a)' \in Value /\ CountedNext(a)' \in Value
    <3>1. /\ Increment(currentTick'[CounterOf[a]]) \in Value
          BY <2>1, IncrementedCount, Constants DEF Value, Time
    <3> QED BY <2>1, <3>1, SinceRange, Constants DEF Counted, CountedNext
  <2>3. TimeLeft(a)' \in Nat \cup {None}
        BY <2>1, <2>2, Constants DEF TimeLeft, Value, Time
  <2> QED BY <2>3, AlarmLeftNext
<1>3. alarmLeft' = [a \in Alarm |-> alarmLeft'[a]]
      BY DEF alarmLeft
<1> QED BY <1>1, <1>2, <1>3 DEF AlarmPromise!Set, userRuns, InCallback

\* The counters take one from the time of every alarm they drive.
LEMMA CountersCountAlarms ==
    ASSUME TInv, TInv', IncrementCounters
    PROVE  AlarmPromise!Pass
<1>1. /\ phase = "timer" /\ phase' = "alarm" /\ slot' = 1 /\ caller = None /\ caller' = None
      /\ UNCHANGED <<alarms, counters, active, startTick, alarmTime>>
      BY DEF IncrementCounters, TInv, LoopSlots, alarmVars
<1>2. ASSUME NEW a \in Alarm
      PROVE  /\ alarmLeft[a] # 0
             /\ alarmLeft'[a] = IF alarmLeft[a] = None THEN None ELSE alarmLeft[a] - 1
  <2>1. /\ startTick[a] \in Value /\ alarmTime[a] \in Time /\ CounterOf[a] \in Counter
        /\ currentTick[CounterOf[a]] \in Value
        BY Constants, Types
  <2>2. /\ Counted(a)' = CountedNext(a)
        /\ CounterOf[a] \in counters => currentTick'[CounterOf[a]] \in Time
        /\ CounterOf[a] \notin counters => CountedNext(a)' = CountedNext(a)
        BY <1>1, <2>1, IncrementedCount DEF IncrementCounters, Counted, CountedNext
  <2>a. /\ CountedNext(a) \in Nat /\ alarmTime[a] \in Nat
        /\ alarmTime[a] <= MaxAllowedValue - 1
    <3>1. Increment(currentTick[CounterOf[a]]) \in Value
          BY <2>1, IncrementedCount, Constants DEF Value, Time
    <3>2. CountedNext(a) \in Value
          BY <2>1, <3>1, SinceRange DEF CountedNext
    <3> QED BY <2>1, <3>2, Constants DEF Value, Time
  <2>b. CounterOf[a] \in counters /\ CountedNext(a) < alarmTime[a]
          => CountedNext(a)' = CountedNext(a) + 1
    <3> SUFFICES ASSUME CounterOf[a] \in counters, CountedNext(a) < alarmTime[a]
                 PROVE  CountedNext(a)' = CountedNext(a) + 1
        OBVIOUS
    <3> DEFINE now == currentTick'[CounterOf[a]]
    <3>1. /\ now \in Time
          /\ CountedNext(a) = Since(startTick[a], now)
          /\ CountedNext(a)' = Since(startTick[a], Increment(now))
          BY <1>1, <2>1, <2>2 DEF CountedNext, Counted
    <3>2. Since(startTick[a], now) < MaxAllowedValue - 1
          BY <2>a, <3>1, Constants
    <3> QED BY <2>1, <3>1, <3>2, SinceGoesOn
  <2>3. CASE active[a] /\ Listed(a)
    <3>1. ~AlarmToCome(a) /\ AlarmToCome(a)'
          BY <1>1, <2>3, Types DEF AlarmToCome, ToCome, Listed, AlarmSlot
    <3>2. /\ alarmLeft[a] = TimeLeft(a)
          /\ alarmLeft'[a] = TimeLeft(a)'
          BY <1>1, <2>3, AlarmLeftIs, AlarmLeftNext DEF Listed
    <3>3. /\ TimeLeft(a) # 0
          /\ TimeLeft(a)' = IF TimeLeft(a) = None THEN None ELSE TimeLeft(a) - 1
          BY <1>1, <2>2, <2>a, <2>b, <3>1, Constants DEF TimeLeft
    <3> QED BY <3>2, <3>3
  <2>4. CASE ~(active[a] /\ Listed(a))
    <3>1. alarmLeft[a] = None /\ alarmLeft'[a] = None
          BY <1>1, <2>4, AlarmLeftIs, AlarmLeftNext DEF Listed
    <3> QED BY <3>1, Constants
  <2> QED BY <2>3, <2>4
<1>3. alarmLeft' = [a \in Alarm |-> IF alarmLeft[a] = None THEN None ELSE alarmLeft[a] - 1]
      BY <1>2 DEF alarmLeft
<1>4. userRuns' = FALSE
      BY <1>1 DEF userRuns, InCallback
<1> QED BY <1>1, <1>2, <1>3, <1>4, Constants DEF AlarmPromise!Pass

\* The loop triggers an alarm that is due, and no other.
LEMMA LoopServesAlarm ==
    ASSUME TInv, TInv', CheckAndTrigger
    PROVE  UNCHANGED AlarmPromise!vars \/ \E a \in Alarm : AlarmPromise!Ring(a)
<1>0. PICK u : u = alarms[slot]
      OBVIOUS
<1>1. /\ u = alarms[slot] /\ phase = "alarm" /\ slot \in AlarmSlot /\ slot \in Int
      /\ u \in Alarm \cup {None} /\ caller = None
      /\ UNCHANGED <<alarms, counters, currentTick>>
      BY <1>0, Types DEF CheckAndTrigger, counterVars, TInv, LoopSlots, AlarmSlot
<1>2. \/ phase' = "alarm" /\ slot' = slot + 1 /\ caller' = None
      \/ phase' \in {"alarmCallback", "alarmTask"} /\ slot' = slot /\ caller' = u
      BY <1>1 DEF CheckAndTrigger, NextSlot, CallBack
<1>3. ASSUME NEW a \in Alarm, a # u
      PROVE  alarmLeft'[a] = alarmLeft[a]
  <2>1. \A i \in AlarmSlot : alarms[i] = a => i # slot /\ i \in Int
        BY <1>1, <1>3, Constants DEF AlarmSlot
  <2>2. AlarmToCome(a)' <=> AlarmToCome(a)
    <3>1. AlarmToCome(a) <=> \E i \in AlarmSlot : alarms[i] = a /\ slot <= i
          BY <1>1, Types DEF AlarmToCome, ToCome
    <3>2. CASE phase' = "alarm"
      <4>1. AlarmToCome(a)' <=> \E i \in AlarmSlot : alarms[i] = a /\ slot + 1 <= i
            BY <1>1, <1>2, <3>2, Types DEF AlarmToCome, ToCome
      <4> QED BY <1>1, <2>1, <3>1, <4>1
    <3>3. CASE phase' # "alarm"
      <4>1. AlarmToCome(a)' <=> \E i \in AlarmSlot : alarms[i] = a /\ slot < i
            BY <1>1, <1>2, <3>3, Types DEF AlarmToCome, ToCome
      <4> QED BY <1>1, <2>1, <3>1, <4>1
    <3> QED BY <3>2, <3>3
  <2>3. /\ startTick'[a] = startTick[a] /\ alarmTime'[a] = alarmTime[a]
        /\ active'[a] = active[a]
        BY <1>1, <1>3, Types DEF CheckAndTrigger
  <2> QED BY <1>1, <2>2, <2>3, AlarmUndisturbed
<1>4. userRuns = FALSE /\ userRuns' \in BOOLEAN /\ (phase' = "alarm" => userRuns' = FALSE)
      BY <1>1 DEF userRuns, InCallback
<1>5. CASE ~(u # None /\ Due(u))
  <2>1. /\ phase' = "alarm" /\ slot' = slot + 1 /\ caller' = None
        /\ UNCHANGED <<startTick, alarmTime, active>>
        BY <1>1, <1>5 DEF CheckAndTrigger, NextSlot
  <2>2. ASSUME NEW a \in Alarm
        PROVE  alarmLeft'[a] = alarmLeft[a]
    <3>1. CASE a = u
      <4>1. CASE active[a]
        <5>1. ~(Counted(a) >= alarmTime[a])
              BY <1>5, <3>1, <4>1, Elapsed, Constants DEF Due, Counted, TInv
        <5>2. /\ ~(Counted(a) >= alarmTime[a])'
              /\ Listed(a)' <=> Listed(a)
              /\ CountedNext(a)' = CountedNext(a)
              BY <1>1, <2>1, <5>1 DEF Counted, CountedNext, Listed
        <5>3. TimeLeft(a)' = TimeLeft(a)
              BY <1>1, <2>1, <5>1, <5>2 DEF TimeLeft
        <5> QED BY <2>1, <5>2, <5>3, AlarmLeftIs, AlarmLeftNext
      <4>2. CASE ~active[a]
            BY <2>1, <4>2 DEF alarmLeft
      <4> QED BY <4>1, <4>2
    <3> QED BY <1>3, <3>1
  <2>3. alarmLeft' = alarmLeft
        BY <2>2, AlarmLeftEqual
  <2> QED BY <1>1, <1>4, <2>1, <2>3 DEF AlarmPromise!vars
<1>6. CASE u # None /\ Due(u)
  <2>1. u \in Alarm /\ Listed(u) /\ active[u]
        BY <1>1, <1>6 DEF Listed, Due
  <2>2. alarmLeft[u] = 0
    <3>1. AlarmToCome(u)
          BY <1>1, Types DEF AlarmToCome, ToCome
    <3>2. Counted(u) >= alarmTime[u]
          BY <1>6, <2>1, Elapsed DEF Due, Counted, TInv
    <3> QED BY <2>1, <3>1, <3>2, AlarmLeftIs DEF TimeLeft
  <2>3. phase' \in {"alarmCallback", "alarmTask"} /\ caller' = u
        BY <1>1, <1>6 DEF CheckAndTrigger, CallBack
  <2>4. alarmLeft'[u] \in (Nat \ {0}) \cup {None}
    <3>1. CASE CycleTime[u] > 0
      <4>1. /\ startTick' = [startTick EXCEPT ![u] = currentTick[CounterOf[u]]]
            /\ alarmTime' = [alarmTime EXCEPT ![u] = CycleTime[u]]
            BY <1>1, <1>6, <3>1 DEF CheckAndTrigger
      <4>2. startTick'[u] = currentTick[CounterOf[u]] /\ alarmTime'[u] = CycleTime[u]
            BY <2>1, <4>1, Types
      <4>3. /\ currentTick[CounterOf[u]] \in Value /\ CycleTime[u] \in Time
            BY <2>1, Types, Constants
      <4>4. Counted(u)' = 0
            BY <1>0, <1>1, <4>2, <4>3, Constants DEF Counted, Since, Value
      <4>5. CountedNext(u)' \in Value
        <5>1. Increment(currentTick[CounterOf[u]]) \in Value
              BY <4>3, IncrementedCount, Constants DEF Value, Time
        <5> QED BY <1>1, <4>2, <4>3, <5>1, SinceRange DEF CountedNext
      <4>6. TimeLeft(u)' \in (Nat \ {0}) \cup {None}
            BY <3>1, <4>2, <4>3, <4>4, <4>5, Constants DEF TimeLeft, Value, Time
      <4> QED BY <2>1, <4>6, AlarmLeftNext
    <3>2. CASE ~(CycleTime[u] > 0)
      <4>1. ~active'[u]
            BY <1>1, <1>6, <2>1, <3>2, Types DEF CheckAndTrigger
      <4> QED BY <2>1, <4>1 DEF alarmLeft
    <3> QED BY <3>1, <3>2
  <2>5. alarmLeft' = [alarmLeft EXCEPT ![u] = alarmLeft'[u]]
        BY <1>3, <2>1, AlarmLeftChanges
  <2>6. AlarmPromise!Ring(u)
        BY <1>1, <1>4, <2>1, <2>2, <2>3, <2>4, <2>5, Constants DEF AlarmPromise!Ring
  <2> QED BY <2>1, <2>6
<1> QED BY <1>5, <1>6

\* Outside the loop over the alarms no alarm is left to come.
LEMMA AlarmsStandStill ==
    ASSUME TInv, UNCHANGED <<counterVars, alarmVars>>,
           \A a \in Alarm : AlarmToCome(a)' <=> AlarmToCome(a)
    PROVE  alarmLeft' = alarmLeft
<1>1. \A a \in Alarm : alarmLeft'[a] = alarmLeft[a]
      BY AlarmUndisturbed DEF counterVars, alarmVars
<1> QED BY <1>1, AlarmLeftEqual

LEMMA AlarmSilenced ==
    ASSUME TInv, AlarmReturns
    PROVE  AlarmPromise!Silence
<1>1. /\ phase \in {"alarmCallback", "alarmTask"} /\ slot \in Int
      /\ phase' = "alarm" /\ slot' = slot + 1 /\ caller' = None
      /\ UNCHANGED <<counterVars, alarmVars>>
      BY DEF AlarmReturns, NextSlot, TInv, LoopSlots, AlarmSlot
<1>2. ASSUME NEW a \in Alarm
      PROVE  AlarmToCome(a)' <=> AlarmToCome(a)
  <2>1. AlarmToCome(a) <=> \E i \in AlarmSlot : alarms[i] = a /\ slot < i
        BY <1>1, Types DEF AlarmToCome, ToCome
  <2>2. AlarmToCome(a)' <=> \E i \in AlarmSlot : alarms[i] = a /\ slot + 1 <= i
        BY <1>1, Types DEF AlarmToCome, ToCome, alarmVars
  <2>3. \A i \in AlarmSlot : i \in Int
        BY Constants DEF AlarmSlot
  <2> QED BY <1>1, <2>1, <2>2, <2>3
<1>3. alarmLeft' = alarmLeft /\ userRuns' \in BOOLEAN
      BY <1>1, <1>2, AlarmsStandStill DEF userRuns, InCallback
<1> QED BY <1>1, <1>3, Constants DEF AlarmPromise!Silence

\* Timers are served without an alarm noticing.
LEMMA AlarmsRest ==
    ASSUME TInv, Tick \/ TickTimer \/ TimerCallbackReturns \/ TickReturns
    PROVE  UNCHANGED AlarmPromise!vars \/ AlarmPromise!Turn
<1>1. UNCHANGED <<counterVars, alarmVars>>
      BY DEF Tick, TickTimer, TimerCallbackReturns, TickReturns
<1>2. /\ caller \notin Alarm /\ caller' \notin Alarm
      /\ phase \in {"tasks", "timer", "timerCallback", "alarm"}
      /\ phase = "alarm" => slot > MAX_ALARMS
      /\ phase' \in {"tasks", "timer", "timerCallback"}
      /\ phase \in {"tasks", "timerCallback"} => phase' = "timer"
  <2>1. \A i \in TimerSlot : timers[i] \in Timer \cup {None}
        BY Types
  <2>2. CASE TickTimer
    <3>1. phase = "timer" /\ slot \in TimerSlot /\ caller = None
          BY <2>2, Types DEF TickTimer, TInv, LoopSlots
    <3>2. \/ phase' = "timer" /\ caller' = caller
          \/ phase' = "timerCallback" /\ caller' = timers[slot]
          BY <2>2 DEF TickTimer, NextSlot, CallBack
    <3> QED BY <2>1, <3>1, <3>2, Constants
  <2>3. CASE Tick \/ TimerCallbackReturns \/ TickReturns
        BY <2>3, Constants
           DEF Tick, TimerCallbackReturns, TickReturns, NextSlot, TInv, LoopSlots
  <2> QED BY <2>2, <2>3
<1>3. ASSUME NEW a \in Alarm
      PROVE  ~AlarmToCome(a) /\ ~AlarmToCome(a)'
  <2>1. \A i \in AlarmSlot : i \in Int /\ i <= MAX_ALARMS
        BY Constants DEF AlarmSlot
  <2>2. phase = "alarm" => slot \in Int
        BY DEF TInv, LoopSlots
  <2> QED BY <1>1, <1>2, <2>1, <2>2, Types, Constants DEF AlarmToCome, ToCome, alarmVars
<1>4. alarmLeft' = alarmLeft
      BY <1>1, <1>3, AlarmsStandStill
<1>5. CASE phase \in {"tasks", "timerCallback"}
  <2>1. userRuns = TRUE /\ userRuns' = FALSE
        BY <1>2, <1>5 DEF userRuns, InCallback
  <2> QED BY <1>2, <1>4, <2>1 DEF AlarmPromise!Turn
<1>6. CASE phase \notin {"tasks", "timerCallback"}
  <2>1. userRuns = FALSE /\ userRuns' \in BOOLEAN
        BY <1>2, <1>6 DEF userRuns, InCallback
  <2>2. CASE userRuns' = TRUE
        BY <1>2, <1>4, <2>1, <2>2 DEF AlarmPromise!Turn
  <2>3. CASE userRuns' = FALSE
        BY <1>2, <1>4, <2>1, <2>3 DEF AlarmPromise!vars
  <2> QED BY <2>1, <2>2, <2>3
<1> QED BY <1>5, <1>6

LEMMA AlarmsStep ==
    ASSUME TInv, TInv', [Next]_vars
    PROVE  [AlarmPromise!Next]_(AlarmPromise!vars)
<1>1. CASE UNCHANGED vars
  <2>1. UNCHANGED <<counterVars, alarmVars, alarms, phase, slot, caller>>
        BY <1>1 DEF vars, alarmVars, tickVars
  <2>2. \A a \in Alarm : AlarmToCome(a)' <=> AlarmToCome(a)
        BY <2>1 DEF AlarmToCome, ToCome
  <2>3. alarmLeft' = alarmLeft
        BY <2>1, <2>2, AlarmsStandStill
  <2> QED BY <2>1, <2>3 DEF AlarmPromise!vars, userRuns, InCallback
<1> QED BY <1>1, UserSetsAlarms, CountersCountAlarms, LoopServesAlarm, AlarmSilenced, AlarmsRest
        DEF Next, TickStep, AlarmPromise!Next

\* So do alarms, across the wrap of their counter: each goes off when, and only
\* when, its counter has advanced by the alarm's time.
THEOREM TickServicesImplementAlarms == Spec => ImplementsAlarms
<1>1. Init => AlarmPromise!Init
      BY AlarmsInit
<1>2. TInv /\ TInv' /\ [Next]_vars => [AlarmPromise!Next]_(AlarmPromise!vars)
      BY AlarmsStep
<1> QED BY <1>1, <1>2, Invariance, PTL DEF Spec, AlarmPromise!Spec, ImplementsAlarms

=============================================================================

--------------------------- MODULE MCTickServices ---------------------------
(***************************************************************************)
(* Constants for model checking TickServices.tla.                          *)
(***************************************************************************)
EXTENDS TickServices, FiniteSets

\* One timer that reloads and one that does not.
Timers    == {"auto", "once"}
Reloading == {"auto"}

\* A period of zero takes a whole turn of the count.
PeriodsUsed == {0, 1}

OneCounter == {"c"}
Values     == {0, 3}

\* An alarm with a first time and a cycle of its own that calls back, and one
\* that goes off once and activates a task.
Alarms     == {"cyclic", "task"}
OnCounter  == [a \in Alarms |-> "c"]
FirstTime  == [a \in Alarms |-> 2]
Cycle      == [a \in Alarms |-> IF a = "cyclic" THEN 1 ELSE 0]
ForTasks   == {"task"}

InUse(x) == pending # None /\ pending.of = x

UsedTimer(t) ==
    \/ InUse(t) \/ running[t] \/ allocated[t] \/ periodTicks[t] # 1 \/ remainingTicks[t] # 1

UsedAlarm(a) ==
    \/ InUse(a) \/ active[a] \/ startTick[a] # 0 \/ alarmTime[a] # AlarmTime[a]
    \/ \E i \in DOMAIN alarms : alarms[i] = a

UsedCounter == counters # {} \/ \E c \in Counter : currentTick[c] # 0

\* Bound: two of the four objects in use, the counter not with both timers, and
\* one period beside an alarm.
Together ==
    /\ Cardinality({t \in Timer : UsedTimer(t)})
         + Cardinality({a \in Alarm : UsedAlarm(a)}) <= 2
    /\ UsedCounter => \E t \in Timer : ~UsedTimer(t)
    /\ (\E a \in Alarm : UsedAlarm(a)) => \A t \in Timer : periodTicks[t] = 1

=============================================================================

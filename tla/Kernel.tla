------------------------------- MODULE Kernel -------------------------------
(***************************************************************************)
(* The scheduler of CppRTOS: the ready list, the sleeping list and the     *)
(* choice of the next task (Source/Kernel.cpp), the two calls by which a   *)
(* task leaves the processor (Source/Task.cpp) and the two exceptions that *)
(* drive it, SysTick and PendSV (Ports/GCC/ARMCM7).                        *)
(*                                                                         *)
(* Granularity.  A critical section is one step: this module uses the port *)
(* through what Interface.hpp promises of enterCritical/exitCritical.  The *)
(* exceptions SysTick and PendSV have the same, lowest priority, so neither*)
(* preempts the other, and a pending PendSV is taken before thread code    *)
(* and before a simultaneous SysTick (lower exception number).  Everything *)
(* a task does outside a critical section is a step of its own: a tick can *)
(* come between the critical section that puts a task to sleep and the     *)
(* yield that follows it.                                                  *)
(*                                                                         *)
(* No timer, counter or alarm is registered here, so the last three calls  *)
(* of Kernel::tick do nothing.                                             *)
(***************************************************************************)
EXTENDS Naturals, FiniteSets

CONSTANTS
    MAX_TASKS,      \* Settings::MAX_TASKS, the idle task included
    PRIORITY_IDLE,  \* TaskPriority::PRIORITY_IDLE, the numerically largest level
    Spinners,       \* ids of application tasks that never sleep nor block
    SleepTicks,     \* the arguments tasks pass to Task::sleep
    MaxTick         \* bound: the clock saturates here

ASSUME KernelAssumption ==
    /\ MAX_TASKS \in Nat /\ MAX_TASKS >= 2
    /\ PRIORITY_IDLE \in Nat \ {0}
    /\ Spinners \subseteq 1 .. MAX_TASKS - 1
    /\ SleepTicks \subseteq Nat
    /\ MaxTick \in Nat

TaskId   == 0 .. MAX_TASKS - 1
Idle     == 0                      \* the constructor registers idleTask first
Priority == 0 .. PRIORITY_IDLE     \* 0 is the most urgent level

TaskStateType == {"eReady", "eRunning", "eBlocked", "eSleeping"}

VARIABLES
    kernelState,           \* Kernel::state
    taskCount,             \* Kernel::taskCount
    state,                 \* TaskData::state, by task id
    priority,              \* TaskData::priority, by task id
    readyTasks,            \* the ready bits of each level, as a set of task ids
    priorityBitmap,        \* the levels marked non-empty
    currentTask,           \* id of Kernel::currentTask
    highestTaskPriority,   \* where the search for a ready task starts
    sleepingTasksBitmap,   \* ids of the sleeping tasks
    taskWakeUpTimes,       \* tick at which each sleeper is due
    tickCount,             \* Port::tickCount
    pendSV,                \* PENDSVSET in the interrupt control register
    pc                     \* where each task's thread is, see Thread

taskVars  == <<kernelState, taskCount, priority, highestTaskPriority>>
readyVars == <<state, readyTasks, priorityBitmap>>
sleepVars == <<sleepingTasksBitmap, taskWakeUpTimes>>
cpuVars   == <<currentTask, pendSV>>
vars      == <<taskVars, readyVars, sleepVars, cpuVars, tickCount, pc>>

\* "run": in application code; "yield": left a critical section that took it
\* off the processor and about to call Kernel::yield; "yielded": inside
\* Kernel::yield, PendSV requested.
ThreadPoint == {"run", "yield", "yielded"}

Added   == 0 .. taskCount - 1
Started == kernelState = "eReady"

\* Thread code of t executes: t owns the processor and no exception is due.
Thread(t) == Started /\ currentTask = t /\ t # Idle /\ ~pendSV

-----------------------------------------------------------------------------

Init ==
    /\ kernelState = "eReset"
    /\ taskCount = 1
    /\ state = [t \in TaskId |-> "eReady"]
    /\ priority = [t \in TaskId |-> PRIORITY_IDLE]
    /\ readyTasks = [p \in Priority |-> IF p = PRIORITY_IDLE THEN {Idle} ELSE {}]
    /\ priorityBitmap = {}
    /\ currentTask = Idle
    /\ highestTaskPriority = PRIORITY_IDLE
    /\ sleepingTasksBitmap = {}
    /\ taskWakeUpTimes = [t \in TaskId |-> 0]
    /\ tickCount = 0
    /\ pendSV = FALSE
    /\ pc = [t \in TaskId |-> "run"]

(***************************************************************************)
(* The ready list.                                                         *)
(***************************************************************************)
\* Fault, for the runs that test ReadyListExact: the state is not set.
SetTaskReadyStateKept(S) ==
    /\ readyTasks' = [p \in Priority |->
                        readyTasks[p] \cup {t \in S : priority[t] = p}]
    /\ priorityBitmap' = priorityBitmap \cup {priority[t] : t \in S}
    /\ UNCHANGED state

SetTaskReady(S) ==
    /\ state' = [t \in TaskId |-> IF t \in S THEN "eReady" ELSE state[t]]
    /\ readyTasks' = [p \in Priority |->
                        readyTasks[p] \cup {t \in S : priority[t] = p}]
    /\ priorityBitmap' = priorityBitmap \cup {priority[t] : t \in S}

\* Only a task marked ready gives up its bit; any task takes the new state.
ResetTaskReady(t, newState) ==
    LET p    == priority[t]
        left == IF state[t] = "eReady" THEN readyTasks[p] \ {t} ELSE readyTasks[p]
    IN  /\ readyTasks' = [readyTasks EXCEPT ![p] = left]
        /\ priorityBitmap' = IF state[t] = "eReady" /\ left = {}
                             THEN priorityBitmap \ {p}
                             ELSE priorityBitmap
        /\ state' = [state EXCEPT ![t] = newState]

\* Fault: the comparison operators exchanged.
LessUrgent(p, q) == IF p > q THEN p ELSE q

\* operator> on TaskPriority compares urgency: the smaller number wins.
MoreUrgent(p, q) == IF p < q THEN p ELSE q

\* Fault: one task too many.
HasRoomAndOne == taskCount <= MAX_TASKS

HasRoom == taskCount < MAX_TASKS

\* Called by main before start, or by a running task.  One caller at a time:
\* the task is numbered and counted before the critical section is entered.
AddTask(p) ==
    /\ HasRoom
    /\ Started => Thread(currentTask) /\ pc[currentTask] = "run"
    /\ taskCount \in Spinners => p < PRIORITY_IDLE
    /\ taskCount' = taskCount + 1
    /\ priority' = [priority EXCEPT ![taskCount] = p]
    /\ highestTaskPriority' = MoreUrgent(p, highestTaskPriority)
    /\ readyTasks' = [readyTasks EXCEPT ![p] = @ \cup {taskCount}]
    /\ UNCHANGED <<kernelState, state, priorityBitmap, sleepVars, cpuVars,
                   tickCount, pc>>

\* The idle task is the first to execute: currentTask still points to it.
Start ==
    /\ kernelState = "eReset"
    /\ Spinners \subseteq Added
    /\ kernelState' = "eReady"
    /\ UNCHANGED <<taskCount, priority, highestTaskPriority, readyVars,
                   sleepVars, cpuVars, tickCount, pc>>

(***************************************************************************)
(* The tick and the context switch.                                        *)
(***************************************************************************)
\* Faults: a tick wakes every sleeper, or only those due on this very tick.
EarlySleepers(now) == sleepingTasksBitmap
PunctualSleepers(now) == {t \in sleepingTasksBitmap : taskWakeUpTimes[t] = now}

DueSleepers(now) == {t \in sleepingTasksBitmap : taskWakeUpTimes[t] <= now}

Tick ==
    /\ Started /\ ~pendSV
    /\ tickCount' = IF tickCount < MaxTick THEN tickCount + 1 ELSE tickCount
    /\ SetTaskReady(DueSleepers(tickCount'))
    /\ sleepingTasksBitmap' = sleepingTasksBitmap \ DueSleepers(tickCount')
    /\ pendSV' = TRUE
    /\ UNCHANGED <<taskVars, taskWakeUpTimes, currentTask, pc>>

\* Fault: the search stops one level early.
ReadyLevelsShort ==
    {p \in highestTaskPriority .. PRIORITY_IDLE - 2 : readyTasks[p] # {}}

\* The levels the search visits: the idle level is never among them.
ReadyLevels ==
    {p \in highestTaskPriority .. PRIORITY_IDLE - 1 : readyTasks[p] # {}}

\* Fault: the search runs from the least urgent level.
IsLast(t, p) ==
    /\ p \in ReadyLevels /\ \A q \in ReadyLevels : p >= q
    /\ t \in readyTasks[p] /\ \A u \in readyTasks[p] : t <= u

IsNext(t, p) ==
    /\ p \in ReadyLevels /\ \A q \in ReadyLevels : p <= q
    /\ t \in readyTasks[p] /\ \A u \in readyTasks[p] : t <= u

\* Faults: the task that had the processor is never put back, or always.
PreemptedNobody == {}
PreemptedAnybody == {currentTask}

\* A task still marked running goes back to its level's ready list.
Preempted == {t \in {currentTask} : state[t] = "eRunning"}

\* Fault: the bit is cleared at the level the task has now, which is not where
\* it was found if the level was changed in between.
SwitchToByLevel(t, p) ==
    /\ currentTask' = t
    /\ state' = [u \in TaskId |-> IF u = t THEN "eRunning"
                                  ELSE IF u \in Preempted THEN "eReady"
                                  ELSE state[u]]
    /\ readyTasks' = [q \in Priority |->
                        (readyTasks[q] \cup {u \in Preempted : priority[u] = q})
                            \ (IF q = priority[t] THEN {t} ELSE {})]
    /\ UNCHANGED priorityBitmap

SwitchTo(t, p) ==
    /\ currentTask' = t
    /\ state' = [u \in TaskId |-> IF u = t THEN "eRunning"
                                  ELSE IF u \in Preempted THEN "eReady"
                                  ELSE state[u]]
    /\ readyTasks' = [q \in Priority |->
                        (readyTasks[q] \cup {u \in Preempted : priority[u] = q})
                            \ (IF q = p THEN {t} ELSE {})]
    /\ priorityBitmap' =
         (priorityBitmap \cup {priority[u] : u \in Preempted})
            \ (IF readyTasks'[p] = {} THEN {p} ELSE {})

SelectHighestPriorityTask ==
    \/ \E p \in Priority : \E t \in TaskId : IsNext(t, p) /\ SwitchTo(t, p)
    \/ ReadyLevels = {} /\ UNCHANGED <<currentTask, readyVars>>

ContextSwitch ==
    /\ pendSV
    /\ SelectHighestPriorityTask
    /\ pendSV' = FALSE
    /\ pc' = [t \in TaskId |-> IF pc[t] = "yielded" THEN "run" ELSE pc[t]]
    /\ UNCHANGED <<taskVars, sleepVars, tickCount>>

(***************************************************************************)
(* What tasks and interrupt handlers do.                                   *)
(***************************************************************************)
AddSleepingTask(t, ticks) ==
    /\ sleepingTasksBitmap' = sleepingTasksBitmap \cup {t}
    /\ taskWakeUpTimes' = [taskWakeUpTimes EXCEPT ![t] = tickCount + ticks]
    /\ state' = [state EXCEPT ![t] = "eSleeping"]
    /\ UNCHANGED <<readyTasks, priorityBitmap>>

Sleep(t, ticks) ==
    /\ Thread(t) /\ pc[t] = "run" /\ t \notin Spinners
    /\ tickCount + ticks <= MaxTick
    /\ AddSleepingTask(t, ticks)
    /\ pc' = [pc EXCEPT ![t] = "yield"]
    /\ UNCHANGED <<taskVars, cpuVars, tickCount>>

\* What a semaphore or a mutex does to the task it makes wait.
Block(t) ==
    /\ Thread(t) /\ pc[t] = "run" /\ t \notin Spinners
    /\ ResetTaskReady(t, "eBlocked")
    /\ pc' = [pc EXCEPT ![t] = "yield"]
    /\ UNCHANGED <<taskVars, sleepVars, cpuVars, tickCount>>

\* What a semaphore or a mutex does to a waiting task, from a thread or from
\* an interrupt handler (which also preempts a pending PendSV).
Wake(t) ==
    /\ state[t] = "eBlocked"
    /\ SetTaskReady({t})
    /\ UNCHANGED <<taskVars, sleepVars, cpuVars, tickCount, pc>>

\* Task::yield from application code, or the yield that ends sleep and wait.
Yield(t) ==
    /\ Thread(t) /\ pc[t] \in {"run", "yield"}
    /\ pendSV' = TRUE
    /\ pc' = [pc EXCEPT ![t] = "yielded"]
    /\ UNCHANGED <<taskVars, readyVars, sleepVars, currentTask, tickCount>>

Next ==
    \/ \E p \in Priority : AddTask(p)
    \/ Start
    \/ Tick
    \/ ContextSwitch
    \/ \E t \in TaskId : \/ \E n \in SleepTicks : Sleep(t, n)
                         \/ Block(t)
                         \/ Wake(t)
                         \/ Yield(t)

Spec == Init /\ [][Next]_vars

\* SysTick is periodic and stays pending in the NVIC until it is taken; so
\* does PendSV.  Nothing is assumed of the tasks.
FairSpec == Spec /\ SF_vars(Tick) /\ WF_vars(ContextSwitch)

-----------------------------------------------------------------------------
(***************************************************************************)
(* Properties.                                                             *)
(***************************************************************************)

\* The type invariant: every field holds a value of its declared range, and
\* no more than MAX_TASKS tasks are ever counted (Kernel.cpp:28).
TypeOK ==
    /\ kernelState \in {"eReset", "eReady"}
    /\ taskCount \in 1 .. MAX_TASKS
    /\ state \in [TaskId -> TaskStateType]
    /\ priority \in [TaskId -> Priority]
    /\ readyTasks \in [Priority -> SUBSET TaskId]
    /\ priorityBitmap \in SUBSET Priority
    /\ currentTask \in TaskId
    /\ highestTaskPriority \in Priority
    /\ sleepingTasksBitmap \in SUBSET TaskId
    /\ taskWakeUpTimes \in [TaskId -> Nat]
    /\ tickCount \in 0 .. MaxTick
    /\ pendSV \in BOOLEAN
    /\ pc \in [TaskId -> ThreadPoint]

\* A task that asked to sleep or to wait does not execute the code after its
\* call before it is chosen again: whenever application code runs, the task
\* it belongs to is the one marked running.  (Task::sleep and Semaphore::wait
\* change the state first and yield later; the search may find nobody else.)
NoSleepwalking ==
    Started /\ currentTask # Idle /\ pc[currentTask] = "run"
        => state[currentTask] = "eRunning"

\* The ready bits, the task states and the task priorities, kept in three
\* places by setTaskReady, resetTaskReady, selectHighestPriorityTask and
\* addTask, agree: a task has a bit exactly at its own level and exactly
\* while it is ready.
ReadyListExact ==
    \A t \in TaskId, p \in Priority :
        t \in readyTasks[p] <=> /\ t < taskCount
                                /\ state[t] = "eReady" /\ priority[t] = p

\* The sleeping bits and the task states agree, and no sleeper is overdue:
\* tick clears the bit of exactly the tasks it wakes.
SleepersExact ==
    /\ \A t \in TaskId : t \in sleepingTasksBitmap <=> state[t] = "eSleeping"
    /\ \A t \in sleepingTasksBitmap : tickCount <= taskWakeUpTimes[t]

\* No ready task is out of the reach of the search, which starts at
\* highestTaskPriority, unless it was given the idle level.
ReadyTasksReachable ==
    \A p \in 0 .. PRIORITY_IDLE - 1 :
        readyTasks[p] # {} => p \in ReadyLevels

\* The scheduler never loses a task that never gives the processor up: it is
\* running, or its bit is set at a level the search visits.  A preempted task
\* is put back by selectHighestPriorityTask alone, and only if still marked
\* running.
NoSpinnerLost ==
    /\ Started => Spinners \subseteq Added
    /\ \A t \in Spinners \cap Added :
          /\ priority[t] \in highestTaskPriority .. PRIORITY_IDLE - 1
          /\ \/ currentTask = t /\ state[t] = "eRunning"
             \/ t \in readyTasks[priority[t]]

\* A sleeping task is eventually woken, whatever the other tasks do.
SleepersWake ==
    \A t \in TaskId : state[t] = "eSleeping" ~> state[t] # "eSleeping"

\* A ready task more urgent than every other task that could run.
MostUrgent(t) ==
    /\ t < taskCount /\ state[t] = "eReady" /\ priority[t] < PRIORITY_IDLE
    /\ \A u \in Added \ {t} : priority[t] < priority[u]

\* Such a task gets the processor, even from a task that never yields.
MostUrgentRuns ==
    \A t \in TaskId :
        Started /\ MostUrgent(t) ~> state[t] = "eRunning" \/ ~MostUrgent(t)

\* The scheduler implements AbstractScheduler: sleepers are woken by the
\* first tick at which they are due and not before, the processor goes to a
\* most urgent ready task, and only the running task sleeps or waits.
PhaseOf == [eReady |-> "runnable", eRunning |-> "running",
            eSleeping |-> "asleep", eBlocked |-> "waiting"]

UserTask == TaskId \ {Idle}

phaseBar == [t \in UserTask |->
               IF t >= taskCount THEN "absent" ELSE PhaseOf[state[t]]]
rankBar  == [t \in UserTask |-> priority[t]]
dueBar   == [t \in UserTask |-> taskWakeUpTimes[t]]

Promise == INSTANCE AbstractScheduler WITH
    Task <- UserTask, Rank <- Priority, IdleRank <- PRIORITY_IDLE,
    Delay <- SleepTicks,
    phase <- phaseBar, rank <- rankBar, due <- dueBar, now <- tickCount

ImplementsPromise == Promise!Spec

(***************************************************************************)
(* What the tests say and the code does not do.                            *)
(***************************************************************************)

\* "Task 2 will only be scheduled after Task 1 yields, blocks, or completes",
\* says Semaphore_Test.cpp:90 of a Task 2 less urgent than Task 1: a task that
\* runs and did not call yield makes way only to one at least as urgent.  But
\* the search compares the ready tasks, and the running task is not one.
UrgentKeepsProcessor ==
    [][state[currentTask] = "eRunning" /\ pc[currentTask] = "run"
          => priority[currentTask'] <= priority[currentTask]]_vars

=============================================================================

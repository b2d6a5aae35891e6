---------------------------- MODULE KernelProofs ----------------------------
(***************************************************************************)
(* Theorems about Kernel.tla, for every number of tasks and levels.        *)
(***************************************************************************)
EXTENDS Kernel, SequencesExt, SequenceTheorems, TLAPS

\* The operators that name no primed variable are sets and facts about sets;
\* the values of the constants they rest on are collected once.
LEMMA Constants ==
    /\ MAX_TASKS \in Nat /\ MAX_TASKS >= 2
    /\ PRIORITY_IDLE \in Nat /\ PRIORITY_IDLE > 0
    /\ Spinners \subseteq TaskId \ {Idle}
    /\ SleepTicks \subseteq Nat
    /\ MaxTick \in Nat
    /\ Idle \in TaskId
BY KernelAssumption DEF TaskId, Idle

-----------------------------------------------------------------------------

\* No step of the scheduler, of a task or of an interrupt handler leaves the
\* declared ranges, and addTask never counts more than MAX_TASKS tasks.
LEMMA TypeStep == TypeOK /\ [Next]_vars => TypeOK'
<1> SUFFICES ASSUME TypeOK, [Next]_vars
             PROVE  TypeOK'
    OBVIOUS
<1> USE Constants DEF TypeOK
<1>1. ASSUME NEW p \in Priority, AddTask(p)
      PROVE  TypeOK'
  <2>1. taskCount \in TaskId /\ taskCount' \in 1 .. MAX_TASKS
        BY <1>1 DEF AddTask, HasRoom, TaskId
  <2>2. highestTaskPriority' \in Priority
        BY <1>1 DEF AddTask, MoreUrgent
  <2>3. /\ priority' \in [TaskId -> Priority]
        /\ readyTasks' \in [Priority -> SUBSET TaskId]
        BY <1>1, <2>1 DEF AddTask
  <2> QED BY <1>1, <2>1, <2>2, <2>3 DEF AddTask, sleepVars, cpuVars
<1>2. CASE Start
      BY <1>2 DEF Start, readyVars, sleepVars, cpuVars
<1>3. CASE Tick
      BY <1>3 DEF Tick, SetTaskReady, DueSleepers, taskVars, TaskStateType
<1>4. CASE ContextSwitch
  <2>1. /\ currentTask' \in TaskId
        /\ state' \in [TaskId -> TaskStateType]
        /\ readyTasks' \in [Priority -> SUBSET TaskId]
        /\ priorityBitmap' \in SUBSET Priority
    <3>1. ASSUME NEW p \in Priority, NEW t \in TaskId, SwitchTo(t, p)
          PROVE  /\ currentTask' \in TaskId
                 /\ state' \in [TaskId -> TaskStateType]
                 /\ readyTasks' \in [Priority -> SUBSET TaskId]
                 /\ priorityBitmap' \in SUBSET Priority
          BY <3>1 DEF SwitchTo, Preempted, TaskStateType
    <3> QED BY <1>4, <3>1 DEF ContextSwitch, SelectHighestPriorityTask, readyVars
  <2>2. pc' \in [TaskId -> ThreadPoint]
        BY <1>4 DEF ContextSwitch, ThreadPoint
  <2> QED BY <1>4, <2>1, <2>2 DEF ContextSwitch, taskVars, sleepVars
<1>5. ASSUME NEW t \in TaskId, NEW n \in SleepTicks, Sleep(t, n)
      PROVE  TypeOK'
      BY <1>5 DEF Sleep, AddSleepingTask, taskVars, cpuVars, TaskStateType,
                  ThreadPoint
<1>6. ASSUME NEW t \in TaskId, Block(t)
      PROVE  TypeOK'
      BY <1>6 DEF Block, ResetTaskReady, taskVars, sleepVars, cpuVars,
                  TaskStateType, ThreadPoint
<1>7. ASSUME NEW t \in TaskId, Wake(t)
      PROVE  TypeOK'
      BY <1>7 DEF Wake, SetTaskReady, taskVars, sleepVars, cpuVars,
                  TaskStateType
<1>8. ASSUME NEW t \in TaskId, Yield(t)
      PROVE  TypeOK'
      BY <1>8 DEF Yield, taskVars, readyVars, sleepVars, ThreadPoint
<1>9. CASE UNCHANGED vars
      BY <1>9 DEF vars, taskVars, readyVars, sleepVars, cpuVars
<1> QED BY <1>1, <1>2, <1>3, <1>4, <1>5, <1>6, <1>7, <1>8, <1>9 DEF Next

LEMMA TypeInit == Init => TypeOK
<1> SUFFICES ASSUME Init
             PROVE  TypeOK
    OBVIOUS
<1> USE Constants DEF Init
<1>1. PRIORITY_IDLE \in Priority /\ 1 \in 1 .. MAX_TASKS /\ 0 \in 0 .. MaxTick
      BY DEF Priority
<1>2. readyTasks \in [Priority -> SUBSET TaskId]
      BY <1>1
<1>3. /\ state \in [TaskId -> TaskStateType]
      /\ pc \in [TaskId -> ThreadPoint]
      BY DEF TaskStateType, ThreadPoint
<1> QED BY <1>1, <1>2, <1>3 DEF TypeOK

\* Type correctness of the scheduler.
THEOREM TypeCorrect == Spec => []TypeOK
<1>1. Init => TypeOK
      BY TypeInit
<1>2. TypeOK /\ [Next]_vars => TypeOK'
      BY TypeStep
<1> QED BY <1>1, <1>2, PTL DEF Spec

-----------------------------------------------------------------------------

(***************************************************************************)
(* The inductive invariant.  The properties of Kernel.tla are not inductive *)
(* one by one: what keeps a task that left the processor from executing on *)
(* is that somebody else is ready, which rests on the exactness of the     *)
(* ready list, which in turn rests on a sleeping task not calling sleep or *)
(* wait again.  Five facts about the bookkeeping complete it.              *)
(***************************************************************************)

\* Until start the processor belongs to the idle task and nothing is pending.
BootsIdle == ~Started => currentTask = Idle /\ ~pendSV

\* Nothing happened yet to a task that was not added.
FreshReady == \A t \in TaskId : t >= taskCount => state[t] = "eReady"

\* The idle task is registered as ready at its level and never touched.
IdleStays == state[Idle] = "eReady" /\ priority[Idle] = PRIORITY_IDLE

\* At most one task is marked running.
OneRuns == \A t \in TaskId : state[t] = "eRunning" => t = currentTask

\* highestTaskPriority bounds the level of every added task.
LevelsBounded == \A t \in TaskId : t < taskCount => highestTaskPriority <= priority[t]

IInv ==
    /\ TypeOK
    /\ NoSleepwalking
    /\ ReadyListExact
    /\ SleepersExact
    /\ NoSpinnerLost
    /\ BootsIdle
    /\ FreshReady
    /\ IdleStays
    /\ OneRuns
    /\ LevelsBounded

LEMMA InvInit == Init => IInv
<1> SUFFICES ASSUME Init
             PROVE  IInv
    OBVIOUS
<1>1. TypeOK
      BY TypeInit
<1>2. ReadyListExact
      BY Constants DEF Init, ReadyListExact, TaskId, Idle, Priority
<1>3. NoSleepwalking /\ SleepersExact /\ BootsIdle
      BY Constants DEF Init, NoSleepwalking, Started, SleepersExact, BootsIdle
<1>5. FreshReady /\ IdleStays /\ OneRuns
      BY Constants DEF Init, FreshReady, IdleStays, OneRuns
<1>4. NoSpinnerLost /\ LevelsBounded
      BY Constants DEF Init, NoSpinnerLost, LevelsBounded, Started, Added, TaskId,
                       Idle
<1> QED BY <1>1, <1>2, <1>3, <1>4, <1>5 DEF IInv

LEMMA InvStep ==
    ASSUME Spinners # {}, IInv, [Next]_vars
    PROVE  IInv'
<1>0. TypeOK'
      BY TypeStep DEF IInv
<1> USE Constants DEF IInv
<1>1. ASSUME NEW p \in Priority, AddTask(p)
      PROVE  IInv'
  <2>1. /\ taskCount < MAX_TASKS /\ taskCount' = taskCount + 1
        /\ taskCount \in Spinners => p < PRIORITY_IDLE
        /\ priority' = [priority EXCEPT ![taskCount] = p]
        /\ highestTaskPriority' = MoreUrgent(p, highestTaskPriority)
        /\ readyTasks' = [readyTasks EXCEPT ![p] = @ \cup {taskCount}]
        /\ UNCHANGED <<kernelState, state, sleepingTasksBitmap, taskWakeUpTimes,
                       currentTask, tickCount, pendSV, pc>>
        BY <1>1 DEF AddTask, HasRoom, sleepVars, cpuVars
  <2>2. taskCount \in TaskId /\ \A t \in TaskId : t < taskCount' <=> t < taskCount \/ t = taskCount
        BY <2>1 DEF TypeOK, TaskId
  <2>3. NoSleepwalking' /\ SleepersExact' /\ BootsIdle' /\ FreshReady' /\ OneRuns'
        BY <2>1, <2>2 DEF NoSleepwalking, SleepersExact, BootsIdle, FreshReady,
                          OneRuns, Started, TypeOK, TaskId
  <2>7. IdleStays'
        BY <2>1 DEF IdleStays, TypeOK, Idle
  <2>4. ReadyListExact'
        BY <2>1, <2>2 DEF ReadyListExact, FreshReady, TypeOK
  <2>5. LevelsBounded'
        BY <2>1, <2>2 DEF LevelsBounded, MoreUrgent, TypeOK, Priority
  <2>6. NoSpinnerLost'
    <3>1. Added' = Added \cup {taskCount} /\ taskCount \notin Added
          BY <2>1 DEF Added, TypeOK
    <3>2. /\ highestTaskPriority' \in Nat
          /\ highestTaskPriority' <= highestTaskPriority /\ highestTaskPriority' <= p
          BY <2>1 DEF MoreUrgent, TypeOK, Priority
    <3>3. ASSUME NEW t \in Spinners \cap Added
          PROVE  /\ priority'[t] = priority[t]
                 /\ priority[t] \in highestTaskPriority' .. PRIORITY_IDLE - 1
                 /\ t \in readyTasks[priority[t]] => t \in readyTasks'[priority[t]]
      <4>1. /\ t \in TaskId /\ t # taskCount
            /\ priority[t] \in highestTaskPriority .. PRIORITY_IDLE - 1
            BY <2>1, <3>1, <3>3 DEF NoSpinnerLost, Added, TypeOK
      <4>2. /\ priority[t] \in Int /\ highestTaskPriority \in Int
            /\ highestTaskPriority' <= highestTaskPriority
            BY <2>1, <3>2, <4>1 DEF TypeOK, Priority
      <4>3. priority'[t] = priority[t]
            BY <2>1, <4>1 DEF TypeOK
      <4>4. t \in readyTasks[priority[t]] => t \in readyTasks'[priority[t]]
            BY <2>1, <4>1 DEF TypeOK, Priority
      <4> QED BY <3>2, <4>1, <4>2, <4>3, <4>4
    <3>4. taskCount \in Spinners => /\ priority'[taskCount] = p
                                    /\ p \in highestTaskPriority' .. PRIORITY_IDLE - 1
                                    /\ taskCount \in readyTasks'[p]
          BY <2>1, <2>2, <3>2 DEF TypeOK, Priority
    <3> QED BY <2>1, <3>1, <3>3, <3>4 DEF NoSpinnerLost, Started
  <2> QED BY <1>0, <2>3, <2>4, <2>5, <2>6, <2>7
<1>2. CASE Start
  <2>1. /\ Started' /\ ~Started /\ Spinners \subseteq Added
        /\ UNCHANGED <<taskCount, priority, highestTaskPriority, state, readyTasks,
                       sleepingTasksBitmap, taskWakeUpTimes, currentTask, tickCount,
                       pendSV, pc>>
        BY <1>2 DEF Start, Started, readyVars, sleepVars, cpuVars
  <2>2. NoSleepwalking' /\ BootsIdle'
        BY <2>1 DEF NoSleepwalking, BootsIdle
  <2>3. NoSpinnerLost'
        BY <2>1 DEF NoSpinnerLost, Added
  <2>4. ReadyListExact' /\ SleepersExact' /\ FreshReady' /\ IdleStays' /\ OneRuns'
        /\ LevelsBounded'
        BY <2>1 DEF ReadyListExact, SleepersExact, FreshReady, IdleStays, OneRuns,
                    LevelsBounded
  <2> QED BY <1>0, <2>2, <2>3, <2>4
<1>3. CASE Tick
  <2> DEFINE due == DueSleepers(tickCount')
  <2>1. /\ Started /\ due \subseteq sleepingTasksBitmap
        /\ \A t \in sleepingTasksBitmap \ due : tickCount' <= taskWakeUpTimes[t]
        /\ state' = [t \in TaskId |-> IF t \in due THEN "eReady" ELSE state[t]]
        /\ readyTasks' = [p \in Priority |-> readyTasks[p] \cup {t \in due : priority[t] = p}]
        /\ sleepingTasksBitmap' = sleepingTasksBitmap \ due
        /\ UNCHANGED <<kernelState, taskCount, priority, highestTaskPriority,
                       taskWakeUpTimes, currentTask, pc>>
        BY <1>3, <1>0 DEF Tick, SetTaskReady, DueSleepers, taskVars, TypeOK
  <2> HIDE DEF due
  <2>2. \A t \in due : t \in TaskId /\ state[t] = "eSleeping" /\ t < taskCount
        BY <2>1 DEF SleepersExact, FreshReady, TypeOK, TaskId
  <2>3. NoSleepwalking' /\ BootsIdle' /\ OneRuns'
        BY <2>1, <2>2 DEF NoSleepwalking, BootsIdle, OneRuns, Started, TypeOK
  <2>4. SleepersExact'
        BY <2>1, <2>2 DEF SleepersExact, TypeOK
  <2>5. FreshReady' /\ IdleStays' /\ LevelsBounded'
        BY <2>1, <2>2 DEF FreshReady, IdleStays, LevelsBounded
  <2>6. ReadyListExact'
        BY <2>1, <2>2 DEF ReadyListExact, TypeOK
  <2>7. NoSpinnerLost'
    <3>1. \A t \in Spinners \cap Added : t \in TaskId /\ priority[t] \in Priority
          BY DEF TypeOK
    <3> QED BY <2>1, <2>2, <3>1 DEF NoSpinnerLost, Started, Added
  <2> QED BY <1>0, <2>3, <2>4, <2>5, <2>6, <2>7
<1>4. ASSUME NEW p \in Priority, NEW t \in TaskId,
             ContextSwitch, IsNext(t, p), SwitchTo(t, p)
      PROVE  IInv'
  <2>1. /\ p \in ReadyLevels /\ t \in readyTasks[p] /\ currentTask' = t
        /\ state' = [u \in TaskId |-> IF u = t THEN "eRunning"
                                      ELSE IF u \in Preempted THEN "eReady"
                                      ELSE state[u]]
        /\ readyTasks' = [q \in Priority |->
                            (readyTasks[q] \cup {u \in Preempted : priority[u] = q})
                                \ (IF q = p THEN {t} ELSE {})]
        /\ UNCHANGED <<kernelState, taskCount, priority, highestTaskPriority,
                       sleepingTasksBitmap, taskWakeUpTimes, tickCount>>
        BY <1>4 DEF ContextSwitch, IsNext, SwitchTo, taskVars, sleepVars
  <2>2. t < taskCount /\ state[t] = "eReady" /\ priority[t] = p
        BY <2>1 DEF ReadyListExact
  <2>3. \A u \in TaskId : u \in Preempted <=> u = currentTask /\ state[u] = "eRunning"
        BY DEF Preempted, TypeOK
  <2>4. NoSleepwalking' /\ OneRuns'
        BY <2>1, <2>3 DEF NoSleepwalking, OneRuns
  <2>5. SleepersExact'
        BY <2>1, <2>2, <2>3 DEF SleepersExact, TypeOK
  <2>6. FreshReady' /\ LevelsBounded'
        BY <2>1, <2>2, <2>3 DEF FreshReady, LevelsBounded, TypeOK, TaskId
  <2>11. IdleStays'
    <3>1. t # Idle
          BY <2>1, <2>2 DEF IdleStays, ReadyLevels
    <3> QED BY <2>1, <2>3, <3>1 DEF IdleStays, TypeOK
  <2>7. BootsIdle'
        BY <1>4, <2>1 DEF BootsIdle, ContextSwitch, Started
  <2>8. \A u \in TaskId, q \in Priority :
           u \in readyTasks'[q] <=> /\ \/ u \in readyTasks[q]
                                       \/ u \in Preempted /\ priority[u] = q
                                    /\ ~(u = t /\ q = p)
        BY <2>1
  <2>9. ReadyListExact'
        BY <2>1, <2>2, <2>3, <2>8 DEF ReadyListExact, FreshReady, TypeOK, TaskId
  <2>10. NoSpinnerLost'
    <3>1. \A u \in Spinners \cap Added : u \in TaskId /\ priority[u] \in Priority
          BY DEF TypeOK
    <3> QED BY <2>1, <2>3, <2>8, <3>1 DEF NoSpinnerLost, Started, Added, TypeOK
  <2> QED BY <1>0, <2>4, <2>5, <2>6, <2>7, <2>9, <2>10,
           <2>11
<1>5. ASSUME ContextSwitch, ReadyLevels = {}, UNCHANGED <<currentTask, readyVars>>
      PROVE  IInv'
  <2>1. /\ Started /\ Started'
        /\ UNCHANGED <<taskCount, priority, highestTaskPriority, state, readyTasks,
                       sleepingTasksBitmap, taskWakeUpTimes, currentTask, tickCount>>
        BY <1>5 DEF ContextSwitch, BootsIdle, Started, taskVars, sleepVars, readyVars
  \* Nobody is in the reach of the search, so a spinner has the processor.
  <2>2. Spinners # {} => state[currentTask] = "eRunning"
    <3>1. SUFFICES ASSUME NEW t \in Spinners
                   PROVE  state[currentTask] = "eRunning"
          OBVIOUS
    <3>2. t \in Added /\ priority[t] \in highestTaskPriority .. PRIORITY_IDLE - 1
          BY <2>1 DEF NoSpinnerLost
    <3>3. t \notin readyTasks[priority[t]]
          BY <3>2, <1>5 DEF ReadyLevels
    <3> QED BY <3>2, <3>3 DEF NoSpinnerLost
  <2>3. NoSleepwalking'
        BY <2>1, <2>2  DEF NoSleepwalking
  <2>4. ReadyListExact' /\ SleepersExact' /\ FreshReady' /\ IdleStays' /\ OneRuns'
        /\ LevelsBounded'
        BY <2>1 DEF ReadyListExact, SleepersExact, FreshReady, IdleStays, OneRuns,
                    LevelsBounded
  <2>5. NoSpinnerLost' /\ BootsIdle'
        BY <2>1 DEF NoSpinnerLost, BootsIdle, Added
  <2> QED BY <1>0, <2>3, <2>4, <2>5
<1>6. ASSUME NEW t \in TaskId, NEW n \in SleepTicks, Sleep(t, n)
      PROVE  IInv'
  <2>1. /\ Started /\ currentTask = t /\ t # Idle /\ pc[t] = "run" /\ t \notin Spinners
        /\ sleepingTasksBitmap' = sleepingTasksBitmap \cup {t}
        /\ taskWakeUpTimes' = [taskWakeUpTimes EXCEPT ![t] = tickCount + n]
        /\ state' = [state EXCEPT ![t] = "eSleeping"]
        /\ pc' = [pc EXCEPT ![t] = "yield"]
        /\ UNCHANGED <<kernelState, taskCount, priority, highestTaskPriority,
                       readyTasks, currentTask, tickCount, pendSV>>
        BY <1>6 DEF Sleep, Thread, AddSleepingTask, taskVars, cpuVars
  \* The caller is running: it has no ready bit to leave behind.
  <2>2. state[t] = "eRunning" /\ t < taskCount
        BY <2>1 DEF NoSleepwalking, FreshReady, TypeOK, TaskId
  <2>3. NoSleepwalking' /\ BootsIdle' /\ OneRuns'
        BY <2>1 DEF NoSleepwalking, BootsIdle, OneRuns, Started, TypeOK
  <2>4. ReadyListExact'
        BY <2>1, <2>2 DEF ReadyListExact, TypeOK
  <2>5. SleepersExact'
        BY <2>1 DEF SleepersExact, TypeOK
  <2>6. FreshReady' /\ IdleStays' /\ LevelsBounded'
        BY <2>1, <2>2 DEF FreshReady, IdleStays, LevelsBounded, TypeOK, TaskId
  <2>7. NoSpinnerLost'
        BY <2>1 DEF NoSpinnerLost, Started, Added, TypeOK
  <2> QED BY <1>0, <2>3, <2>4, <2>5, <2>6, <2>7
<1>7. ASSUME NEW t \in TaskId, Block(t)
      PROVE  IInv'
  <2>1. /\ Started /\ currentTask = t /\ t # Idle /\ pc[t] = "run" /\ t \notin Spinners
        BY <1>7 DEF Block, Thread
  <2>2. state[t] = "eRunning" /\ t < taskCount
        BY <2>1 DEF NoSleepwalking, FreshReady, TypeOK, TaskId
  <2>3. /\ readyTasks' = readyTasks
        /\ state' = [state EXCEPT ![t] = "eBlocked"]
        /\ pc' = [pc EXCEPT ![t] = "yield"]
        /\ UNCHANGED <<kernelState, taskCount, priority, highestTaskPriority,
                       sleepingTasksBitmap, taskWakeUpTimes, currentTask, tickCount,
                       pendSV>>
        BY <1>7, <2>2 DEF Block, ResetTaskReady, taskVars, sleepVars, cpuVars, TypeOK
  <2>4. NoSleepwalking' /\ BootsIdle' /\ OneRuns'
        BY <2>1, <2>3 DEF NoSleepwalking, BootsIdle, OneRuns, Started, TypeOK
  <2>5. ReadyListExact' /\ SleepersExact'
        BY <2>2, <2>3 DEF ReadyListExact, SleepersExact, TypeOK
  <2>6. FreshReady' /\ IdleStays' /\ LevelsBounded'
        BY <2>2, <2>3 DEF FreshReady, IdleStays, LevelsBounded, TypeOK, TaskId
  <2>7. NoSpinnerLost'
        BY <2>1, <2>3 DEF NoSpinnerLost, Started, Added, TypeOK
  <2> QED BY <1>0, <2>4, <2>5, <2>6, <2>7
<1>8. ASSUME NEW t \in TaskId, Wake(t)
      PROVE  IInv'
  <2>1. /\ state[t] = "eBlocked"
        /\ state' = [u \in TaskId |-> IF u = t THEN "eReady" ELSE state[u]]
        /\ readyTasks' = [p \in Priority |-> readyTasks[p] \cup {u \in {t} : priority[u] = p}]
        /\ UNCHANGED <<kernelState, taskCount, priority, highestTaskPriority,
                       sleepingTasksBitmap, taskWakeUpTimes, currentTask, tickCount,
                       pendSV, pc>>
        BY <1>8 DEF Wake, SetTaskReady, taskVars, sleepVars, cpuVars
  <2>2. t < taskCount
        BY <2>1 DEF FreshReady, TypeOK, TaskId
  <2>3. NoSleepwalking' /\ BootsIdle' /\ OneRuns'
        BY <2>1 DEF NoSleepwalking, BootsIdle, OneRuns, Started, TypeOK
  <2>4. ReadyListExact' /\ SleepersExact'
        BY <2>1, <2>2 DEF ReadyListExact, SleepersExact, TypeOK
  <2>5. FreshReady' /\ IdleStays' /\ LevelsBounded'
        BY <2>1, <2>2 DEF FreshReady, IdleStays, LevelsBounded
  <2>6. NoSpinnerLost'
    <3>1. \A u \in Spinners \cap Added : u \in TaskId /\ priority[u] \in Priority
          BY DEF TypeOK
    <3> QED BY <2>1, <3>1 DEF NoSpinnerLost, Started, Added
  <2> QED BY <1>0, <2>3, <2>4, <2>5, <2>6
<1>9. ASSUME NEW t \in TaskId, Yield(t)
      PROVE  IInv'
  <2>1. /\ Started /\ pc' = [pc EXCEPT ![t] = "yielded"]
        /\ UNCHANGED <<kernelState, taskCount, priority, highestTaskPriority, state,
                       readyTasks, sleepingTasksBitmap, taskWakeUpTimes, currentTask,
                       tickCount>>
        BY <1>9 DEF Yield, Thread, taskVars, readyVars, sleepVars
  <2>2. NoSleepwalking' /\ BootsIdle'
        BY <2>1 DEF NoSleepwalking, BootsIdle, Started, TypeOK
  <2>3. ReadyListExact' /\ SleepersExact' /\ FreshReady' /\ IdleStays' /\ OneRuns'
        /\ LevelsBounded'
        BY <2>1 DEF ReadyListExact, SleepersExact, FreshReady, IdleStays, OneRuns,
                    LevelsBounded
  <2>4. NoSpinnerLost'
        BY <2>1 DEF NoSpinnerLost, Started, Added
  <2> QED BY <1>0, <2>2, <2>3, <2>4
<1>10. CASE UNCHANGED vars
  <2>1. UNCHANGED <<kernelState, taskCount, priority, highestTaskPriority, state,
                    readyTasks, sleepingTasksBitmap, taskWakeUpTimes, currentTask,
                    tickCount, pendSV, pc>>
        BY <1>10 DEF vars, taskVars, readyVars, sleepVars, cpuVars
  <2>2. NoSleepwalking' /\ BootsIdle' /\ NoSpinnerLost'
        BY <2>1 DEF NoSleepwalking, BootsIdle, NoSpinnerLost, Started, Added
  <2>3. ReadyListExact' /\ SleepersExact' /\ FreshReady' /\ IdleStays' /\ OneRuns'
        /\ LevelsBounded'
        BY <2>1 DEF ReadyListExact, SleepersExact, FreshReady, IdleStays, OneRuns,
                    LevelsBounded
  <2> QED BY <1>0, <2>2, <2>3
<1> QED BY <1>1, <1>2, <1>3, <1>4, <1>5, <1>6, <1>7, <1>8, <1>9, <1>10
        DEF Next, ContextSwitch, SelectHighestPriorityTask

-----------------------------------------------------------------------------

LEMMA Invariance ==
    ASSUME Spinners # {}
    PROVE  Spec => []IInv
<1>1. Init => IInv
      BY InvInit
<1>2. IInv /\ [Next]_vars => IInv'
      BY InvStep
<1> QED BY <1>1, <1>2, PTL DEF Spec

\* With one application task that never gives the processor up, however many
\* other tasks sleep, wait and are woken, no task executes past its own call
\* of sleep or wait before the scheduler chose it again.
THEOREM NobodySleepwalks ==
    ASSUME Spinners # {}
    PROVE  Spec => []NoSleepwalking
<1>1. IInv => NoSleepwalking
      BY DEF IInv
<1> QED BY <1>1, Invariance, PTL

\* Under the same assumption the ready list never disagrees with the states
\* and levels of the tasks: no ready task is lost, no other one is chosen.
THEOREM ReadyListStaysExact ==
    ASSUME Spinners # {}
    PROVE  Spec => []ReadyListExact
<1>1. IInv => ReadyListExact
      BY DEF IInv
<1> QED BY <1>1, Invariance, PTL

\* Sleeping bits match sleeping states, and nobody sleeps past a due tick.
THEOREM SleepersStayExact ==
    ASSUME Spinners # {}
    PROVE  Spec => []SleepersExact
<1>1. IInv => SleepersExact
      BY DEF IInv
<1> QED BY <1>1, Invariance, PTL

\* A task that is always willing to run keeps its place in the scheduler.
THEOREM SpinnersStaySchedulable ==
    ASSUME Spinners # {}
    PROVE  Spec => []NoSpinnerLost
<1>1. IInv => NoSpinnerLost
      BY DEF IInv
<1> QED BY <1>1, Invariance, PTL

\* Every ready task above the idle level is within the search.
THEOREM ReadyTasksStayReachable ==
    ASSUME Spinners # {}
    PROVE  Spec => []ReadyTasksReachable
<1>1. ASSUME IInv
      PROVE  ReadyTasksReachable
  <2>1. ASSUME NEW p \in 0 .. PRIORITY_IDLE - 1, readyTasks[p] # {}
        PROVE  p \in highestTaskPriority .. PRIORITY_IDLE - 1
    <3>1. p \in Priority
          BY Constants DEF Priority
    <3>2. PICK t \in readyTasks[p] : t \in TaskId
          BY <1>1, <2>1, <3>1 DEF IInv, TypeOK
    <3>3. t < taskCount /\ priority[t] = p
          BY <1>1, <3>1, <3>2 DEF IInv, ReadyListExact
    <3>4. highestTaskPriority <= p
          BY <1>1, <3>2, <3>3 DEF IInv, LevelsBounded
    <3> QED BY <1>1, <3>1, <3>4, Constants DEF IInv, TypeOK, Priority
  <2> QED BY <2>1 DEF ReadyTasksReachable, ReadyLevels
<1> QED BY <1>1, Invariance, PTL

-----------------------------------------------------------------------------
(***************************************************************************)
(* The scheduler implements AbstractScheduler.                             *)
(***************************************************************************)

\* What the abstract phase says of a task of the code.
LEMMA Phases ==
    ASSUME TypeOK, NEW t \in UserTask
    PROVE  /\ phaseBar[t] = "absent" <=> t >= taskCount
           /\ phaseBar[t] = "runnable" <=> t < taskCount /\ state[t] = "eReady"
           /\ phaseBar[t] = "running" <=> t < taskCount /\ state[t] = "eRunning"
           /\ phaseBar[t] = "asleep" <=> t < taskCount /\ state[t] = "eSleeping"
           /\ phaseBar[t] = "waiting" <=> t < taskCount /\ state[t] = "eBlocked"
           /\ t >= taskCount \/ phaseBar[t] = PhaseOf[state[t]]
<1>1. /\ t \in Nat /\ taskCount \in Nat
      /\ state[t] \in TaskStateType
      /\ phaseBar[t] = IF t >= taskCount THEN "absent" ELSE PhaseOf[state[t]]
      BY Constants DEF TypeOK, UserTask, TaskId, phaseBar
<1> QED BY <1>1 DEF PhaseOf, TaskStateType

\* A new state of one task is a new phase of that task alone.
LEMMA PhaseUpdate ==
    ASSUME TypeOK, NEW t \in UserTask, t < taskCount, taskCount' = taskCount,
           NEW s \in TaskStateType, state' = [state EXCEPT ![t] = s]
    PROVE  phaseBar' = [phaseBar EXCEPT ![t] = PhaseOf[s]]
<1>1. t \in TaskId /\ t \in Nat /\ taskCount \in Nat
      BY Constants DEF UserTask, TaskId, TypeOK
<1>2. ASSUME NEW u \in UserTask
      PROVE  phaseBar'[u] = IF u = t THEN PhaseOf[s] ELSE phaseBar[u]
  <2>1. u \in TaskId /\ u \in Nat
        BY Constants DEF UserTask, TaskId
  <2>2. state'[u] = IF u = t THEN s ELSE state[u]
        BY <1>1, <2>1 DEF TypeOK
  <2> QED BY <1>1, <2>1, <2>2 DEF phaseBar, PhaseOf
<1>3. phaseBar' = [u \in UserTask |-> phaseBar'[u]]
      BY DEF phaseBar
<1>4. phaseBar = [u \in UserTask |-> phaseBar[u]]
      BY DEF phaseBar
<1> QED BY <1>2, <1>3, <1>4

LEMMA RefinementInit == Init => Promise!Init
<1> SUFFICES ASSUME Init
             PROVE  Promise!Init
    OBVIOUS
<1>1. phaseBar = [t \in UserTask |-> "absent"]
      BY Constants DEF Init, phaseBar, UserTask, TaskId, Idle
<1>2. /\ rankBar = [t \in UserTask |-> PRIORITY_IDLE]
      /\ dueBar = [t \in UserTask |-> 0]
      BY DEF Init, rankBar, dueBar, UserTask
<1> QED BY <1>1, <1>2 DEF Init, Promise!Init

\* Each step of the scheduler is one abstract step or none.
LEMMA RefinementStep ==
    ASSUME Spinners # {}, IInv, IInv', [Next]_vars
    PROVE  [Promise!Next]_(Promise!vars)
<1> USE Constants
<1>0. TypeOK /\ TypeOK'
      BY DEF IInv
<1>1. ASSUME NEW p \in Priority, AddTask(p)
      PROVE  Promise!Create(taskCount, p) /\ taskCount \in UserTask
  <2>1. /\ taskCount' = taskCount + 1
        /\ priority' = [priority EXCEPT ![taskCount] = p]
        /\ UNCHANGED <<state, taskWakeUpTimes, tickCount>>
        BY <1>1 DEF AddTask, HasRoom, sleepVars
  <2>2. taskCount \in UserTask /\ state[taskCount] = "eReady"
        BY <1>0, <1>1 DEF AddTask, HasRoom, UserTask, TaskId, Idle, TypeOK, IInv, FreshReady
  <2>3. phaseBar' = [phaseBar EXCEPT ![taskCount] = "runnable"]
    <3>1. ASSUME NEW u \in UserTask
          PROVE  phaseBar'[u] = IF u = taskCount THEN "runnable" ELSE phaseBar[u]
      <4>1. u \in Nat /\ taskCount \in Nat
            BY <1>0 DEF UserTask, TaskId, TypeOK
      <4>2. u >= taskCount' <=> u >= taskCount /\ u # taskCount
            BY <2>1, <4>1
      <4> QED BY <2>1, <2>2, <4>1, <4>2 DEF phaseBar, PhaseOf
    <3>2. /\ phaseBar' = [u \in UserTask |-> phaseBar'[u]]
          /\ phaseBar = [u \in UserTask |-> phaseBar[u]]
          BY DEF phaseBar
    <3> QED BY <3>1, <3>2
  <2>4. rankBar' = [rankBar EXCEPT ![taskCount] = p] /\ dueBar' = dueBar
        BY <1>0, <2>1, <2>2 DEF rankBar, dueBar, TypeOK, UserTask
  <2>5. phaseBar[taskCount] = "absent"
        BY <1>0, <2>2, Phases DEF TypeOK
  <2> QED BY <2>1, <2>2, <2>3, <2>4, <2>5 DEF Promise!Create
<1>2. ASSUME Tick
      PROVE  Promise!Elapse
  <2>1. /\ tickCount' \in {tickCount, tickCount + 1}
        /\ state' = [t \in TaskId |-> IF t \in DueSleepers(tickCount') THEN "eReady"
                                                                     ELSE state[t]]
        /\ UNCHANGED <<taskCount, priority, taskWakeUpTimes>>
        BY <1>2 DEF Tick, SetTaskReady, taskVars
  <2>2. \A t \in UserTask : t \in DueSleepers(tickCount')
                           <=> phaseBar[t] = "asleep" /\ dueBar[t] <= tickCount'
    <3>1. \A t \in UserTask : state[t] = "eSleeping" => t < taskCount
          BY <1>0 DEF UserTask, TaskId, TypeOK, IInv, FreshReady
    <3> QED BY <1>0, <3>1, Phases DEF DueSleepers, IInv, SleepersExact, dueBar, UserTask
  <2>3. phaseBar' = [t \in UserTask |->
                       IF phaseBar[t] = "asleep" /\ dueBar[t] <= tickCount'
                       THEN "runnable" ELSE phaseBar[t]]
    <3>1. ASSUME NEW t \in UserTask
          PROVE  phaseBar'[t] = IF t \in DueSleepers(tickCount') THEN "runnable"
                                                                 ELSE phaseBar[t]
          BY <1>0, <2>1, <2>2, Phases DEF phaseBar, PhaseOf, UserTask
    <3> QED BY <2>2, <3>1 DEF phaseBar
  <2>4. rankBar' = rankBar /\ dueBar' = dueBar
        BY <2>1 DEF rankBar, dueBar
  <2> QED BY <2>1, <2>3, <2>4 DEF Promise!Elapse
<1>3. ASSUME NEW p \in Priority, NEW t \in TaskId,
             ContextSwitch, IsNext(t, p), SwitchTo(t, p)
      PROVE  Promise!Dispatch(t) /\ t \in UserTask
  <2>1. /\ p \in ReadyLevels /\ t \in readyTasks[p]
        /\ \A q \in ReadyLevels : p <= q
        /\ state' = [u \in TaskId |-> IF u = t THEN "eRunning"
                                      ELSE IF u \in Preempted THEN "eReady"
                                      ELSE state[u]]
        /\ UNCHANGED <<taskCount, priority, taskWakeUpTimes, tickCount>>
        BY <1>3 DEF ContextSwitch, IsNext, SwitchTo, taskVars, sleepVars
  <2>2. t < taskCount /\ state[t] = "eReady" /\ priority[t] = p /\ p < PRIORITY_IDLE
        BY <2>1 DEF IInv, ReadyListExact, ReadyLevels
  <2>3. t \in UserTask
        BY <2>2 DEF IInv, IdleStays, UserTask
  <2>4. Promise!Eligible(t)
        BY <1>0, <2>2, <2>3, Phases DEF Promise!Eligible, rankBar
  <2>5. ASSUME NEW u \in UserTask, Promise!Eligible(u)
        PROVE  rankBar[t] <= rankBar[u]
    <3>1. u < taskCount /\ state[u] = "eReady" /\ priority[u] < PRIORITY_IDLE
          BY <1>0, <2>5, Phases DEF Promise!Eligible, rankBar
    <3>2. u \in TaskId /\ priority[u] \in Priority /\ u \in readyTasks[priority[u]]
          BY <1>0, <3>1 DEF UserTask, TypeOK, IInv, ReadyListExact
    <3>3. highestTaskPriority <= priority[u] /\ highestTaskPriority \in Priority
          BY <1>0, <3>1, <3>2 DEF IInv, LevelsBounded, TypeOK
    <3>4. priority[u] \in ReadyLevels
          BY <3>1, <3>2, <3>3 DEF ReadyLevels, Priority
    <3> QED BY <2>1, <2>2, <2>3, <3>4 DEF rankBar
  <2>6. phaseBar' = [u \in UserTask |-> IF u = t THEN "running"
                                       ELSE IF phaseBar[u] = "running" THEN "runnable"
                                       ELSE phaseBar[u]]
    <3>1. \A u \in UserTask : u \in Preempted <=> phaseBar[u] = "running"
      <4>1. \A u \in UserTask : state[u] = "eRunning" => u = currentTask /\ u < taskCount
            BY <1>0 DEF IInv, OneRuns, FreshReady, UserTask, TypeOK, TaskId
      <4> QED BY <1>0, <4>1, Phases DEF Preempted
    <3>2. ASSUME NEW u \in UserTask
          PROVE  phaseBar'[u] = IF u = t THEN "running"
                                ELSE IF phaseBar[u] = "running" THEN "runnable"
                                ELSE phaseBar[u]
          BY <1>0, <2>1, <2>2, <3>1, Phases DEF phaseBar, PhaseOf, UserTask
    <3> QED BY <3>2 DEF phaseBar
  <2>7. rankBar' = rankBar /\ dueBar' = dueBar
        BY <2>1 DEF rankBar, dueBar
  <2> QED BY <2>1, <2>3, <2>4, <2>5, <2>6, <2>7 DEF Promise!Dispatch
<1>4. ASSUME NEW t \in TaskId, NEW n \in SleepTicks, Sleep(t, n)
      PROVE  Promise!Doze(t, n) /\ t \in UserTask
  <2>1. /\ t \in UserTask /\ state[t] = "eRunning" /\ t < taskCount
        /\ taskWakeUpTimes' = [taskWakeUpTimes EXCEPT ![t] = tickCount + n]
        /\ state' = [state EXCEPT ![t] = "eSleeping"]
        /\ UNCHANGED <<taskCount, priority, tickCount>>
        BY <1>0, <1>4 DEF Sleep, Thread, AddSleepingTask, taskVars, IInv,
                          NoSleepwalking, FreshReady, UserTask, TypeOK, TaskId
  <2>2. phaseBar' = [phaseBar EXCEPT ![t] = "asleep"]
        BY <1>0, <2>1, PhaseUpdate, "eSleeping" \in TaskStateType DEF PhaseOf, TaskStateType
  <2>3. rankBar' = rankBar /\ dueBar' = [dueBar EXCEPT ![t] = tickCount + n]
        BY <1>0, <2>1 DEF rankBar, dueBar, TypeOK, UserTask
  <2> QED BY <1>0, <2>1, <2>2, <2>3, Phases DEF Promise!Doze
<1>5. ASSUME NEW t \in TaskId, Block(t)
      PROVE  Promise!Await(t) /\ t \in UserTask
  <2>1. /\ t \in UserTask /\ state[t] = "eRunning" /\ t < taskCount
        /\ state' = [state EXCEPT ![t] = "eBlocked"]
        /\ UNCHANGED <<taskCount, priority, taskWakeUpTimes, tickCount>>
        BY <1>0, <1>5 DEF Block, Thread, ResetTaskReady, taskVars, sleepVars, IInv,
                          NoSleepwalking, FreshReady, UserTask, TypeOK, TaskId
  <2>2. phaseBar' = [phaseBar EXCEPT ![t] = "waiting"]
        BY <1>0, <2>1, PhaseUpdate, "eBlocked" \in TaskStateType DEF PhaseOf, TaskStateType
  <2>3. rankBar' = rankBar /\ dueBar' = dueBar
        BY <2>1 DEF rankBar, dueBar
  <2> QED BY <1>0, <2>1, <2>2, <2>3, Phases DEF Promise!Await
<1>6. ASSUME NEW t \in TaskId, Wake(t)
      PROVE  Promise!Release(t) /\ t \in UserTask
  <2>1. /\ state[t] = "eBlocked"
        /\ state' = [state EXCEPT ![t] = "eReady"]
        /\ UNCHANGED <<taskCount, priority, taskWakeUpTimes, tickCount>>
        BY <1>0, <1>6 DEF Wake, SetTaskReady, taskVars, sleepVars, TypeOK
  <2>4. t \in UserTask /\ t < taskCount
        BY <1>0, <2>1 DEF IInv, IdleStays, FreshReady, UserTask, TypeOK, TaskId
  <2>2. phaseBar' = [phaseBar EXCEPT ![t] = "runnable"]
        BY <1>0, <2>1, <2>4, PhaseUpdate, "eReady" \in TaskStateType DEF PhaseOf, TaskStateType
  <2>3. rankBar' = rankBar /\ dueBar' = dueBar
        BY <2>1 DEF rankBar, dueBar
  <2> QED BY <1>0, <2>1, <2>2, <2>3, <2>4, Phases DEF Promise!Release
\* start, a yield, and a context switch that finds nobody change nothing.
<1>7. ASSUME UNCHANGED <<taskCount, state, priority, taskWakeUpTimes, tickCount>>
      PROVE  UNCHANGED Promise!vars
      BY <1>7 DEF Promise!vars, phaseBar, rankBar, dueBar
<1>8. CASE Start \/ (\E t \in TaskId : Yield(t)) \/ UNCHANGED vars
      BY <1>7, <1>8 DEF Start, Yield, vars, taskVars, readyVars, sleepVars, cpuVars
<1>9. CASE ContextSwitch /\ ReadyLevels = {} /\ UNCHANGED <<currentTask, readyVars>>
      BY <1>7, <1>9 DEF ContextSwitch, taskVars, readyVars, sleepVars
<1> QED BY <1>1, <1>2, <1>3, <1>4, <1>5, <1>6, <1>8, <1>9
        DEF Next, ContextSwitch, SelectHighestPriorityTask, Promise!Next

\* The scheduler keeps its promise for any number of tasks and levels, as
\* long as one application task never gives the processor up.
THEOREM KernelImplementsPromise ==
    ASSUME Spinners # {}
    PROVE  Spec => ImplementsPromise
<1>1. Init => Promise!Init
      BY RefinementInit
<1>2. IInv /\ IInv' /\ [Next]_vars => [Promise!Next]_(Promise!vars)
      BY RefinementStep
<1> QED BY <1>1, <1>2, Invariance, PTL DEF Spec, Promise!Spec, ImplementsPromise

-----------------------------------------------------------------------------
(***************************************************************************)
(* For the objects built on the scheduler: their queues of waiting tasks   *)
(* as sets, and what making waiting tasks ready does to the scheduler.     *)
(***************************************************************************)

LEMMA NobodyQueued ==
    ToSet(<<>>) = {} /\ IsInjective(<<>>) /\ \A D : <<>> \in Seq(D)
<1>1. DOMAIN <<>> = {} /\ \A D : <<>> \in Seq(D)
      BY EmptySeq
<1> QED BY <1>1 DEF ToSet, IsInjective

\* A queue is empty if it holds nobody.
LEMMA QueueEmpty ==
    ASSUME NEW D, NEW q \in Seq(D)
    PROVE  q = <<>> <=> ToSet(q) = {}
<1>1. /\ q = <<>> <=> Len(q) = 0
      /\ DOMAIN q = 1 .. Len(q) /\ Len(q) \in Nat
      BY LenProperties, EmptySeq
<1>2. q # <<>> => q[1] \in ToSet(q)
      BY <1>1 DEF ToSet
<1> QED BY <1>2, NobodyQueued

\* A newcomer joins the tasks of the queue.
LEMMA QueueAppend ==
    ASSUME NEW D, NEW q \in Seq(D), NEW x \in D
    PROVE  /\ Append(q, x) \in Seq(D)
           /\ ToSet(Append(q, x)) = ToSet(q) \cup {x}
           /\ IsInjective(q) /\ x \notin ToSet(q) => IsInjective(Append(q, x))
<1>1. /\ Append(q, x) \in Seq(D)
      /\ Len(q) \in Nat /\ DOMAIN q = 1 .. Len(q)
      /\ DOMAIN Append(q, x) = 1 .. Len(q) + 1
      /\ \A i \in 1 .. Len(q) : Append(q, x)[i] = q[i]
      /\ Append(q, x)[Len(q) + 1] = x
      BY LenProperties
<1>2. ToSet(Append(q, x)) = ToSet(q) \cup {x}
      BY <1>1 DEF ToSet
<1>3. IsInjective(q) /\ x \notin ToSet(q) => IsInjective(Append(q, x))
      BY <1>1 DEF ToSet, IsInjective
<1> QED BY <1>1, <1>2, <1>3

\* The first task leaves the queue, and it alone if nobody is queued twice.
LEMMA QueueTail ==
    ASSUME NEW D, NEW q \in Seq(D), q # <<>>
    PROVE  /\ Head(q) \in ToSet(q) /\ Head(q) \in D
           /\ Tail(q) \in Seq(D)
           /\ ToSet(q) = ToSet(Tail(q)) \cup {Head(q)}
           /\ IsInjective(q) => IsInjective(Tail(q)) /\ Head(q) \notin ToSet(Tail(q))
<1>1. /\ Len(q) \in Nat /\ Len(q) > 0 /\ DOMAIN q = 1 .. Len(q)
      /\ Tail(q) \in Seq(D) /\ DOMAIN Tail(q) = 1 .. Len(q) - 1
      /\ \A i \in 1 .. Len(q) - 1 : Tail(q)[i] = q[i + 1]
      /\ Head(q) = q[1] /\ q[1] \in D
      BY LenProperties, EmptySeq, HeadTailProperties
<1>2. ToSet(q) = ToSet(Tail(q)) \cup {Head(q)}
  <2>1. \A i \in 1 .. Len(q) : i = 1 \/ (i - 1 \in 1 .. Len(q) - 1 /\ q[i] = Tail(q)[i - 1])
        BY <1>1
  <2>2. ToSet(q) \subseteq ToSet(Tail(q)) \cup {Head(q)}
    <3>1. ASSUME NEW i \in 1 .. Len(q)
          PROVE  q[i] \in ToSet(Tail(q)) \cup {Head(q)}
      <4>1. CASE i = 1
            BY <1>1, <4>1
      <4>2. CASE i # 1
        <5>1. q[i] = Tail(q)[i - 1] /\ i - 1 \in DOMAIN Tail(q)
              BY <1>1, <2>1, <4>2
        <5> QED BY <5>1 DEF ToSet
      <4> QED BY <4>1, <4>2
    <3>2. ToSet(q) = {q[i] : i \in 1 .. Len(q)}
          BY <1>1 DEF ToSet
    <3> QED BY <3>1, <3>2
  <2>3. ToSet(Tail(q)) \cup {Head(q)} \subseteq ToSet(q)
    <3>1. \A i \in 1 .. Len(q) - 1 : i + 1 \in 1 .. Len(q) /\ 1 \in 1 .. Len(q)
          BY <1>1
    <3> QED BY <1>1, <3>1 DEF ToSet
  <2> QED BY <2>2, <2>3
<1>3. IsInjective(q) => IsInjective(Tail(q)) /\ Head(q) \notin ToSet(Tail(q))
      BY <1>1 DEF ToSet, IsInjective
<1> QED BY <1>1, <1>2, <1>3 DEF ToSet

LEMMA ReleaseKeepsType ==
    ASSUME TypeOK, NEW S \in SUBSET TaskId, SetTaskReady(S),
           UNCHANGED <<taskVars, sleepVars, currentTask, tickCount>>,
           pendSV' \in BOOLEAN, pc' \in [TaskId -> ThreadPoint]
    PROVE  TypeOK'
<1>1. /\ state' \in [TaskId -> TaskStateType]
      /\ readyTasks' \in [Priority -> SUBSET TaskId]
      BY DEF SetTaskReady, TypeOK, TaskStateType
<1>2. priorityBitmap' \in SUBSET Priority
      BY DEF SetTaskReady, TypeOK
<1> QED BY <1>1, <1>2 DEF TypeOK, taskVars, sleepVars

\* Making waiting tasks ready, with or without the request of a context switch
\* and whatever the thread points of others, keeps the invariant: a semaphore,
\* a mutex or an event group does no more to the scheduler when it wakes tasks.
LEMMA ReleaseKeepsInv ==
    ASSUME IInv, NEW S \in SUBSET TaskId, \A t \in S : state[t] = "eBlocked",
           SetTaskReady(S), UNCHANGED <<taskVars, sleepVars, currentTask, tickCount>>,
           Started, pendSV' \in BOOLEAN, pc' \in [TaskId -> ThreadPoint],
           \A t \in TaskId : pc'[t] = "run" => pc[t] = "run"
    PROVE  IInv'
<1> USE Constants DEF IInv
<1>1. /\ state' = [u \in TaskId |-> IF u \in S THEN "eReady" ELSE state[u]]
      /\ readyTasks' = [p \in Priority |-> readyTasks[p] \cup {u \in S : priority[u] = p}]
      /\ UNCHANGED <<kernelState, taskCount, priority, highestTaskPriority,
                     sleepingTasksBitmap, taskWakeUpTimes, currentTask, tickCount>>
      BY DEF SetTaskReady, taskVars, sleepVars
<1>2. \A t \in S : t \in TaskId /\ t < taskCount
      BY DEF FreshReady, TypeOK, TaskId
<1>3. TypeOK'
      BY ReleaseKeepsType
<1>4. NoSleepwalking' /\ BootsIdle' /\ OneRuns'
      BY <1>1 DEF NoSleepwalking, BootsIdle, OneRuns, Started, TypeOK
<1>5. ReadyListExact'
      BY <1>1, <1>2 DEF ReadyListExact, TypeOK
<1>6. SleepersExact'
      BY <1>1 DEF SleepersExact, TypeOK
<1>7. FreshReady' /\ IdleStays' /\ LevelsBounded'
      BY <1>1, <1>2 DEF FreshReady, IdleStays, LevelsBounded
<1>8. NoSpinnerLost'
  <2>1. \A u \in Spinners \cap Added : u \in TaskId /\ priority[u] \in Priority
        BY DEF TypeOK
  <2> QED BY <1>1, <2>1 DEF NoSpinnerLost, Started, Added
<1> QED BY <1>3, <1>4, <1>5, <1>6, <1>7, <1>8

=============================================================================

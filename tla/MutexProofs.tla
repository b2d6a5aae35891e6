---------------------------- MODULE MutexProofs -----------------------------
(***************************************************************************)
(* Theorems about Mutex.tla, for any number of tasks, levels and ticks, as *)
(* long as one added task never gives the processor up.                    *)
(***************************************************************************)
EXTENDS Mutex, KernelProofs, FiniteSetTheorems

(***************************************************************************)
(* The inductive invariant.  That of the scheduler (IInv of KernelProofs)  *)
(* does not hold here: a ready task may have its bit at a level it had     *)
(* before, and the destructor makes tasks ready without a bit.             *)
(***************************************************************************)

\* The two levels of a task are equal at all times, since setPriority changes
\* both: release has nothing to restore, and a lent level is kept.
LevelsEqual == basePriority = priority

\* Who tries does not own the mutex, and who tries or owns is an application
\* task that gives the processor up: the levels of the others never change.
Contenders ==
    /\ \A t \in TaskId : call[t] = "trying" => owner # t /\ t \notin Spinners \cup {Idle}
    /\ owner \notin Spinners \cup {Idle}

\* A bit is set only for a ready task, for each at one level, which the search
\* visits although the task may have another level by now.
BitsOfReady ==
    \A t \in TaskId, p \in Priority :
        t \in readyTasks[p] => /\ t < taskCount /\ state[t] = "eReady"
                               /\ highestTaskPriority <= p
                               /\ \A q \in Priority : t \in readyTasks[q] => q = p

\* Only the destructor makes tasks ready without a bit.
ReadyHasBit ==
    \A t \in TaskId :
        t < taskCount /\ state[t] = "eReady" /\ ~Lost(t)
            => \E p \in Priority : t \in readyTasks[p]

\* The idle task keeps the bit it was registered with, and so has no other.
IdleBit == Idle \in readyTasks[PRIORITY_IDLE]

MInv ==
    /\ MutexTypeOK
    /\ OneHolder
    /\ WaitersBlocked
    /\ NoStrandedWaiter
    /\ LevelsEqual
    /\ Contenders
    /\ BitsOfReady
    /\ ReadyHasBit
    /\ IdleBit
    /\ NoSleepwalking
    /\ SleepersExact
    /\ NoSpinnerLost
    /\ BootsIdle
    /\ FreshReady
    /\ IdleStays
    /\ OneRuns
    /\ LevelsBounded

LEMMA MInvInit == MutexInit => MInv
<1> SUFFICES ASSUME MutexInit
             PROVE  MInv
    OBVIOUS
<1>1. IInv
      BY InvInit DEF MutexInit
<1>2. MutexTypeOK
      BY <1>1, NobodyQueued DEF MutexInit, MutexTypeOK, IInv, TypeOK
<1>3. OneHolder
      BY FS_EmptySet DEF MutexInit, OneHolder
<1>4. WaitersBlocked /\ NoStrandedWaiter
      BY NobodyQueued DEF MutexInit, Init, WaitersBlocked, NoStrandedWaiter
<1>5. LevelsEqual /\ Contenders
      BY MutexAssumption, Constants DEF MutexInit, LevelsEqual, Contenders
<1>6. BitsOfReady
      BY <1>1 DEF BitsOfReady, IInv, ReadyListExact, LevelsBounded
<1>7. ReadyHasBit /\ IdleBit
      BY <1>1, Constants
      DEF ReadyHasBit, IdleBit, IInv, ReadyListExact, IdleStays, TypeOK, Priority, Idle
<1> QED BY <1>1, <1>2, <1>3, <1>4, <1>5, <1>6, <1>7 DEF MInv, IInv

\* A task that executes is marked running.
LEMMA CallerRuns ==
    ASSUME MInv, NEW t \in TaskId, Thread(t), pc[t] = "run"
    PROVE  state[t] = "eRunning" /\ currentTask = t /\ t # Idle /\ t < taskCount /\ Started
BY Constants DEF MInv, NoSleepwalking, Thread, FreshReady, MutexTypeOK, TypeOK, TaskId

\* The mutex is taken exactly while it is counted.
LEMMA FreeIsUnowned ==
    ASSUME MInv
    PROVE  /\ Free <=> owner = Nobody
           /\ owner = Nobody => count = 0 /\ holders = {}
           /\ owner # Nobody => count = 1 /\ holders = {owner}
<1> USE DEF MInv
<1>1. count \in {0, 1} /\ holders = {owner} \ {Nobody} /\ count = Cardinality(holders)
      BY DEF MutexTypeOK, OneHolder
<1>2. CASE owner = Nobody
  <2>1. holders = {}
        BY <1>1, <1>2
  <2> QED BY <1>1, <1>2, <2>1, FS_EmptySet DEF Free
<1>3. CASE owner # Nobody
  <2>1. holders = {owner}
        BY <1>1, <1>3
  <2>2. Cardinality({owner}) = 1
        BY FS_Singleton
  <2> QED BY <1>1, <1>3, <2>1, <2>2 DEF Free
<1> QED BY <1>2, <1>3

-----------------------------------------------------------------------------

\* The mutex is left alone, and nobody becomes or ceases to be blocked.
LEMMA LockUntouched ==
    ASSUME MInv, UNCHANGED ownVars, TypeOK', basePriority' \in [TaskId -> Priority],
           \A t \in TaskId : state'[t] = "eBlocked" <=> state[t] = "eBlocked"
    PROVE  MutexTypeOK' /\ OneHolder' /\ WaitersBlocked' /\ NoStrandedWaiter' /\ Contenders'
<1> USE DEF MInv
<1>1. UNCHANGED <<count, owner, blockedTasks, call, end, masked, destroyed, holders>>
      BY DEF ownVars, mutexVars, callVars
<1>2. MutexTypeOK'
      BY <1>1 DEF MutexTypeOK
<1>3. OneHolder' /\ NoStrandedWaiter' /\ Contenders'
      BY <1>1 DEF OneHolder, NoStrandedWaiter, Contenders
<1>4. WaitersBlocked'
      BY <1>1 DEF WaitersBlocked
<1> QED BY <1>2, <1>3, <1>4

\* A task is added: it is the only one whose level changes.
LEMMA AddStep ==
    ASSUME MInv, NEW p \in Priority, AddMutexTask(p)
    PROVE  MInv'
<1> USE Constants DEF MInv
<1>a. TypeOK /\ UNCHANGED <<call, destroyed>>
      BY DEF MutexTypeOK, AddMutexTask, ownVars, callVars
<1>b. TypeOK'
      BY <1>a, TypeStep DEF AddMutexTask, Next
<1>1. /\ taskCount < MAX_TASKS /\ taskCount' = taskCount + 1
      /\ taskCount \in Spinners => p < PRIORITY_IDLE
      /\ priority' = [priority EXCEPT ![taskCount] = p]
      /\ basePriority' = [basePriority EXCEPT ![taskCount] = p]
      /\ highestTaskPriority' = MoreUrgent(p, highestTaskPriority)
      /\ readyTasks' = [readyTasks EXCEPT ![p] = @ \cup {taskCount}]
      /\ UNCHANGED <<kernelState, state, sleepingTasksBitmap, taskWakeUpTimes,
                     currentTask, tickCount, pendSV, pc>>
      BY DEF AddMutexTask, AddTask, HasRoom, sleepVars, cpuVars
<1>2. /\ taskCount \in TaskId
      /\ \A t \in TaskId : t < taskCount' <=> t < taskCount \/ t = taskCount
      BY <1>a, <1>1 DEF TypeOK, TaskId
<1>3. state[taskCount] = "eReady"
      BY <1>a, <1>2 DEF FreshReady, TypeOK
<1>4. LevelsEqual' /\ basePriority' \in [TaskId -> Priority]
      BY <1>1 DEF LevelsEqual, MutexTypeOK
<1>5. MutexTypeOK' /\ OneHolder' /\ WaitersBlocked' /\ NoStrandedWaiter' /\ Contenders'
      BY <1>b, <1>1, <1>4, LockUntouched DEF AddMutexTask
<1>6. /\ highestTaskPriority' \in Nat
      /\ highestTaskPriority' <= highestTaskPriority /\ highestTaskPriority' <= p
      BY <1>a, <1>1 DEF MoreUrgent, TypeOK, Priority
<1>7. BitsOfReady'
  <2>1. \A q \in Priority : q \in Nat /\ (highestTaskPriority <= q => highestTaskPriority' <= q)
        BY <1>a, <1>6 DEF Priority, TypeOK
  <2>2. \A t \in TaskId, q \in Priority :
           t \in readyTasks'[q] <=> t \in readyTasks[q] \/ (t = taskCount /\ q = p)
        BY <1>a, <1>1 DEF TypeOK
  <2>3. \A q \in Priority : taskCount \notin readyTasks[q]
        BY <1>a, <1>2 DEF BitsOfReady, TypeOK
  <2> QED BY <1>1, <1>2, <1>3, <1>6, <2>1, <2>2, <2>3 DEF BitsOfReady
<1>8. ReadyHasBit' /\ IdleBit'
      BY <1>a, <1>1, <1>2 DEF ReadyHasBit, IdleBit, Lost, TypeOK, Priority
<1>9. NoSleepwalking' /\ SleepersExact' /\ BootsIdle' /\ FreshReady' /\ OneRuns'
      BY <1>a, <1>1, <1>2 DEF NoSleepwalking, SleepersExact, BootsIdle, FreshReady,
                        OneRuns, Started, TypeOK, TaskId
<1>10. IdleStays'
      BY <1>a, <1>1 DEF IdleStays, TypeOK, Idle
<1>11. LevelsBounded'
      BY <1>a, <1>1, <1>2, <1>6 DEF LevelsBounded, TypeOK, TaskId, Priority
<1>12. NoSpinnerLost'
  <2>1. Added' = Added \cup {taskCount} /\ taskCount \notin Added
        BY <1>a, <1>1 DEF Added, TypeOK
  <2>2. ASSUME NEW t \in Spinners \cap Added
        PROVE  /\ priority'[t] = priority[t]
               /\ priority[t] \in highestTaskPriority' .. PRIORITY_IDLE - 1
               /\ t \in readyTasks[priority[t]] => t \in readyTasks'[priority[t]]
    <3>1. /\ t \in Added /\ t \in TaskId /\ t # taskCount
          /\ priority[t] \in highestTaskPriority .. PRIORITY_IDLE - 1
          BY <1>a, <2>1 DEF NoSpinnerLost, TypeOK
    <3>2. priority'[t] = priority[t]
          BY <1>a, <1>1, <3>1 DEF TypeOK
    <3>3. priority[t] \in highestTaskPriority' .. PRIORITY_IDLE - 1
          BY <1>a, <1>6, <3>1 DEF TypeOK, Priority
    <3>4. t \in readyTasks[priority[t]] => t \in readyTasks'[priority[t]]
          BY <1>a, <1>1, <3>1 DEF TypeOK
    <3> QED BY <3>2, <3>3, <3>4
  <2>3. taskCount \in Spinners => /\ priority'[taskCount] = p
                                  /\ p \in highestTaskPriority' .. PRIORITY_IDLE - 1
                                  /\ taskCount \in readyTasks'[p]
        BY <1>a, <1>1, <1>2, <1>6 DEF TypeOK, Priority
  <2> QED BY <1>1, <2>1, <2>2, <2>3 DEF NoSpinnerLost, Started
<1> QED BY <1>4, <1>5, <1>7, <1>8, <1>9, <1>10, <1>11, <1>12

\* The scheduler's own steps, and what tasks do outside the mutex.
LEMMA SchedulerStep ==
    ASSUME Spinners # {}, MInv, KernelStep
    PROVE  MInv'
<1> USE Constants DEF MInv
<1>a. TypeOK /\ UNCHANGED <<call, destroyed, basePriority>>
      BY DEF MutexTypeOK, KernelStep, ownVars, callVars
<1>b. TypeOK'
  <2>1. [Next]_vars
        BY DEF KernelStep, Next
  <2> QED BY <1>a, <2>1, TypeStep
<1>c. LevelsEqual /\ basePriority' \in [TaskId -> Priority]
      BY <1>a DEF MutexTypeOK
<1>d. (\A t \in TaskId : state'[t] = "eBlocked" <=> state[t] = "eBlocked")
        => MutexTypeOK' /\ OneHolder' /\ WaitersBlocked' /\ NoStrandedWaiter' /\ Contenders'
      BY <1>b, <1>c, LockUntouched DEF KernelStep
<1>e. priority' = priority => LevelsEqual'
      BY <1>a, <1>c DEF LevelsEqual
<1>1. CASE Start
  <2>1. /\ Started' /\ ~Started /\ Spinners \subseteq Added
        /\ UNCHANGED <<taskCount, priority, highestTaskPriority, state, readyTasks,
                       sleepingTasksBitmap, taskWakeUpTimes, currentTask, tickCount,
                       pendSV, pc>>
        BY <1>1 DEF Start, Started, readyVars, sleepVars, cpuVars
  <2>2. NoSleepwalking' /\ BootsIdle'
        BY <2>1 DEF NoSleepwalking, BootsIdle
  <2>3. NoSpinnerLost'
        BY <2>1 DEF NoSpinnerLost, Added
  <2>4. BitsOfReady' /\ ReadyHasBit' /\ IdleBit'
        BY <1>a, <2>1 DEF BitsOfReady, ReadyHasBit, IdleBit, Lost
  <2>5. SleepersExact' /\ FreshReady' /\ IdleStays' /\ OneRuns' /\ LevelsBounded'
        BY <2>1 DEF SleepersExact, FreshReady, IdleStays, OneRuns, LevelsBounded
  <2> QED BY <1>d, <1>e, <2>1, <2>2, <2>3, <2>4, <2>5
<1>2. CASE Tick
  <2> DEFINE due == DueSleepers(tickCount')
  <2>1. /\ Started /\ due \subseteq sleepingTasksBitmap
        /\ \A t \in sleepingTasksBitmap \ due : tickCount' <= taskWakeUpTimes[t]
        /\ state' = [t \in TaskId |-> IF t \in due THEN "eReady" ELSE state[t]]
        /\ readyTasks' = [p \in Priority |-> readyTasks[p] \cup {t \in due : priority[t] = p}]
        /\ sleepingTasksBitmap' = sleepingTasksBitmap \ due
        /\ UNCHANGED <<kernelState, taskCount, priority, highestTaskPriority,
                       taskWakeUpTimes, currentTask, pc>>
        BY <1>2, <1>a, <1>b DEF Tick, SetTaskReady, DueSleepers, taskVars, TypeOK
  <2> HIDE DEF due
  <2>2. \A t \in due : t \in TaskId /\ state[t] = "eSleeping" /\ t < taskCount
        BY <1>a, <2>1 DEF SleepersExact, FreshReady, TypeOK, TaskId
  <2>3. NoSleepwalking' /\ BootsIdle' /\ OneRuns'
        BY <1>a, <2>1, <2>2 DEF NoSleepwalking, BootsIdle, OneRuns, Started, TypeOK
  <2>4. SleepersExact'
        BY <1>a, <2>1, <2>2 DEF SleepersExact, TypeOK
  <2>5. FreshReady' /\ IdleStays' /\ LevelsBounded'
        BY <2>1, <2>2 DEF FreshReady, IdleStays, LevelsBounded
  <2>6. BitsOfReady'
        BY <1>a, <2>1, <2>2 DEF BitsOfReady, LevelsBounded, TypeOK
  <2>7. ReadyHasBit' /\ IdleBit'
    <3>1. PRIORITY_IDLE \in Priority /\ \A t \in TaskId : priority[t] \in Priority
          BY <1>a DEF TypeOK, Priority
    <3> QED BY <1>a, <2>1, <2>2, <3>1 DEF ReadyHasBit, IdleBit, Lost
  <2>8. NoSpinnerLost'
    <3>1. \A t \in Spinners \cap Added : t \in TaskId /\ priority[t] \in Priority
          BY <1>a DEF TypeOK
    <3> QED BY <2>1, <2>2, <3>1 DEF NoSpinnerLost, Started, Added
  <2> QED BY <1>d, <1>e, <2>1, <2>2, <2>3, <2>4, <2>5, <2>6, <2>7, <2>8
<1>3. ASSUME NEW p \in Priority, NEW t \in TaskId,
             ContextSwitch, IsNext(t, p), SwitchTo(t, p)
      PROVE  MInv'
  <2>1. /\ p \in ReadyLevels /\ t \in readyTasks[p] /\ currentTask' = t
        /\ state' = [u \in TaskId |-> IF u = t THEN "eRunning"
                                      ELSE IF u \in Preempted THEN "eReady"
                                      ELSE state[u]]
        /\ readyTasks' = [q \in Priority |->
                            (readyTasks[q] \cup {u \in Preempted : priority[u] = q})
                                \ (IF q = p THEN {t} ELSE {})]
        /\ UNCHANGED <<kernelState, taskCount, priority, highestTaskPriority,
                       sleepingTasksBitmap, taskWakeUpTimes, tickCount>>
        BY <1>3 DEF ContextSwitch, IsNext, SwitchTo, taskVars, sleepVars
  \* The bit names a ready task, though perhaps not at the level it has now.
  <2>2. /\ t < taskCount /\ state[t] = "eReady"
        /\ \A q \in Priority : t \in readyTasks[q] => q = p
        BY <2>1 DEF BitsOfReady
  <2>3. \A u \in TaskId : u \in Preempted <=> u = currentTask /\ state[u] = "eRunning"
        BY <1>a DEF Preempted, TypeOK
  <2>4. NoSleepwalking' /\ OneRuns'
        BY <2>1, <2>3 DEF NoSleepwalking, OneRuns
  <2>5. SleepersExact'
        BY <1>a, <2>1, <2>2, <2>3 DEF SleepersExact, TypeOK
  <2>6. FreshReady' /\ LevelsBounded'
        BY <1>a, <2>1, <2>2, <2>3 DEF FreshReady, LevelsBounded, TypeOK, TaskId
  <2>7. IdleStays' /\ IdleBit'
    <3>1. Idle \notin readyTasks[p] /\ PRIORITY_IDLE \in Priority
      <4>1. PRIORITY_IDLE \in Priority /\ p # PRIORITY_IDLE
            BY <2>1 DEF ReadyLevels, Priority
      <4>2. Idle \in readyTasks[PRIORITY_IDLE]
            BY DEF IdleBit
      <4> QED BY <4>1, <4>2 DEF BitsOfReady
    <3> QED BY <1>a, <2>1, <2>3, <3>1 DEF IdleStays, IdleBit, TypeOK
  <2>8. BootsIdle'
        BY <1>3, <2>1 DEF BootsIdle, ContextSwitch, Started
  <2>9. \A u \in TaskId, q \in Priority :
           u \in readyTasks'[q] <=> /\ \/ u \in readyTasks[q]
                                       \/ u \in Preempted /\ priority[u] = q
                                    /\ ~(u = t /\ q = p)
        BY <2>1
  <2>10. \A u \in TaskId : u \in Preempted => u < taskCount /\ u # t
         BY <1>a, <2>2, <2>3 DEF FreshReady, TypeOK, TaskId
  <2>11. BitsOfReady'
         BY <1>a, <2>1, <2>2, <2>3, <2>9, <2>10 DEF BitsOfReady, LevelsBounded, TypeOK
  <2>12. ReadyHasBit'
    <3>1. \A u \in TaskId : priority[u] \in Priority
          BY <1>a DEF TypeOK
    <3> QED BY <1>a, <2>1, <2>9, <2>10, <3>1 DEF ReadyHasBit, Lost
  <2>13. NoSpinnerLost'
    <3>1. \A u \in Spinners \cap Added : u \in TaskId /\ priority[u] \in Priority
          BY <1>a DEF TypeOK
    <3> QED BY <1>a, <2>1, <2>3, <2>9, <3>1 DEF NoSpinnerLost, Started, Added, TypeOK
  <2> QED BY <1>d, <1>e, <2>1, <2>2, <2>3, <2>4, <2>5, <2>6, <2>7, <2>8, <2>11,
             <2>12, <2>13
<1>4. ASSUME ContextSwitch, ReadyLevels = {}, UNCHANGED <<currentTask, readyVars>>
      PROVE  MInv'
  <2>1. /\ Started /\ Started'
        /\ UNCHANGED <<taskCount, priority, highestTaskPriority, state, readyTasks,
                       sleepingTasksBitmap, taskWakeUpTimes, currentTask, tickCount>>
        BY <1>4 DEF ContextSwitch, BootsIdle, Started, taskVars, sleepVars, readyVars
  \* Nobody is in the reach of the search, so a spinner has the processor.
  <2>2. state[currentTask] = "eRunning"
    <3>1. PICK t \in Spinners : TRUE
          OBVIOUS
    <3>2. t \in Added /\ priority[t] \in highestTaskPriority .. PRIORITY_IDLE - 1
          BY <2>1, <3>1 DEF NoSpinnerLost
    <3>3. t \notin readyTasks[priority[t]]
          BY <3>2, <1>4 DEF ReadyLevels
    <3> QED BY <3>2, <3>3 DEF NoSpinnerLost
  <2>3. NoSleepwalking'
        BY <2>1, <2>2 DEF NoSleepwalking
  <2>4. BitsOfReady' /\ ReadyHasBit' /\ IdleBit'
        BY <1>a, <2>1 DEF BitsOfReady, ReadyHasBit, IdleBit, Lost
  <2>5. SleepersExact' /\ FreshReady' /\ IdleStays' /\ OneRuns' /\ LevelsBounded'
        BY <2>1 DEF SleepersExact, FreshReady, IdleStays, OneRuns, LevelsBounded
  <2>6. NoSpinnerLost' /\ BootsIdle'
        BY <2>1 DEF NoSpinnerLost, BootsIdle, Added
  <2> QED BY <1>d, <1>e, <2>1, <2>3, <2>4, <2>5, <2>6
<1>5. ASSUME NEW t \in TaskId, NEW n \in SleepTicks, Sleep(t, n), call[t] = "out"
      PROVE  MInv'
  <2>1. /\ Started /\ currentTask = t /\ t # Idle /\ pc[t] = "run" /\ t \notin Spinners
        /\ sleepingTasksBitmap' = sleepingTasksBitmap \cup {t}
        /\ taskWakeUpTimes' = [taskWakeUpTimes EXCEPT ![t] = tickCount + n]
        /\ state' = [state EXCEPT ![t] = "eSleeping"]
        /\ pc' = [pc EXCEPT ![t] = "yield"]
        /\ UNCHANGED <<kernelState, taskCount, priority, highestTaskPriority,
                       readyTasks, currentTask, tickCount, pendSV>>
        BY <1>5 DEF Sleep, Thread, AddSleepingTask, taskVars, cpuVars
  <2>2. state[t] = "eRunning" /\ t < taskCount
        BY <1>5, CallerRuns DEF Sleep
  <2>3. NoSleepwalking' /\ BootsIdle' /\ OneRuns'
        BY <1>a, <2>1 DEF NoSleepwalking, BootsIdle, OneRuns, Started, TypeOK
  <2>4. BitsOfReady' /\ ReadyHasBit' /\ IdleBit'
        BY <1>a, <2>1, <2>2 DEF BitsOfReady, ReadyHasBit, IdleBit, Lost, TypeOK
  <2>5. SleepersExact'
        BY <1>a, <2>1 DEF SleepersExact, TypeOK
  <2>6. FreshReady' /\ IdleStays' /\ LevelsBounded'
        BY <1>a, <2>1, <2>2 DEF FreshReady, IdleStays, LevelsBounded, TypeOK, TaskId
  <2>7. NoSpinnerLost'
        BY <1>a, <2>1 DEF NoSpinnerLost, Started, Added, TypeOK
  <2>8. \A u \in TaskId : state'[u] = "eBlocked" <=> state[u] = "eBlocked"
        BY <1>a, <2>1, <2>2 DEF TypeOK
  <2> QED BY <1>d, <1>e, <2>1, <2>3, <2>4, <2>5, <2>6, <2>7, <2>8
<1>6. ASSUME NEW t \in TaskId, Yield(t)
      PROVE  MInv'
  <2>1. /\ Started /\ pc' = [pc EXCEPT ![t] = "yielded"]
        /\ UNCHANGED <<kernelState, taskCount, priority, highestTaskPriority, state,
                       readyTasks, sleepingTasksBitmap, taskWakeUpTimes, currentTask,
                       tickCount>>
        BY <1>6 DEF Yield, Thread, taskVars, readyVars, sleepVars
  <2>2. NoSleepwalking' /\ BootsIdle'
        BY <1>a, <2>1 DEF NoSleepwalking, BootsIdle, Started, TypeOK
  <2>3. BitsOfReady' /\ ReadyHasBit' /\ IdleBit'
        BY <1>a, <2>1 DEF BitsOfReady, ReadyHasBit, IdleBit, Lost
  <2>4. SleepersExact' /\ FreshReady' /\ IdleStays' /\ OneRuns' /\ LevelsBounded'
        BY <2>1 DEF SleepersExact, FreshReady, IdleStays, OneRuns, LevelsBounded
  <2>5. NoSpinnerLost'
        BY <2>1 DEF NoSpinnerLost, Started, Added
  <2> QED BY <1>d, <1>e, <2>1, <2>2, <2>3, <2>4, <2>5
<1> QED BY <1>1, <1>2, <1>3, <1>4, <1>5, <1>6
        DEF KernelStep, ContextSwitch, SelectHighestPriorityTask

-----------------------------------------------------------------------------

\* Steps of acquire that leave the scheduler alone.
LEMMA CallStep ==
    ASSUME MInv, UNCHANGED <<vars, basePriority, destroyed>>, ~destroyed,
           MutexTypeOK', OneHolder', WaitersBlocked', NoStrandedWaiter', Contenders'
    PROVE  MInv'
<1> USE DEF MInv
<1>1. UNCHANGED <<kernelState, taskCount, priority, highestTaskPriority, state,
                  readyTasks, sleepingTasksBitmap, taskWakeUpTimes, currentTask,
                  tickCount, pendSV, pc>>
      BY DEF vars, taskVars, readyVars, sleepVars, cpuVars
<1>2. LevelsEqual' /\ BitsOfReady' /\ ReadyHasBit' /\ IdleBit'
      BY <1>1 DEF LevelsEqual, BitsOfReady, ReadyHasBit, IdleBit, Lost
<1>3. NoSleepwalking' /\ BootsIdle' /\ NoSpinnerLost'
      BY <1>1 DEF NoSleepwalking, BootsIdle, NoSpinnerLost, Started, Added
<1>4. SleepersExact' /\ FreshReady' /\ IdleStays' /\ OneRuns' /\ LevelsBounded'
      BY <1>1 DEF SleepersExact, FreshReady, IdleStays, OneRuns, LevelsBounded
<1> QED BY <1>2, <1>3, <1>4

\* The call begins, succeeds or runs out of time: the caller runs all the
\* while, so it is not queued, and it stays at most one that holds the mutex.
LEMMA AcquireStep ==
    ASSUME MInv, NEW t \in TaskId,
           \/ \E n \in Timeouts \cup {WAIT_FOREVER} : BeginAcquire(t, n)
           \/ Take(t) \/ GiveUp(t)
    PROVE  MInv'
<1> USE Constants, MutexAssumption DEF MInv
<1>1. /\ Thread(t) /\ pc[t] = "run" /\ ~destroyed
      /\ UNCHANGED <<vars, basePriority, destroyed, blockedTasks>>
      BY DEF BeginAcquire, Take, GiveUp, InCode, Trying, mutexVars
<1>2. /\ TypeOK /\ TypeOK' /\ UNCHANGED <<state, tickCount>>
      /\ call \in [TaskId -> {"out", "trying"}]
      /\ end \in [TaskId -> Nat \cup {WAIT_FOREVER}] /\ tickCount \in Nat
  <2>1. TypeOK /\ TypeOK'
    <3>1. TypeOK
          BY DEF MutexTypeOK
    <3> HIDE DEF MInv
    <3> QED BY <1>1, <3>1, TypeStep
  <2>2. UNCHANGED <<state, tickCount>>
        BY <1>1 DEF vars, readyVars
  <2>3. /\ call \in [TaskId -> {"out", "trying"}]
        /\ end \in [TaskId -> Nat \cup {WAIT_FOREVER}]
        BY DEF MutexTypeOK
  <2>4. tickCount \in Nat
        BY <2>1 DEF TypeOK
  <2> QED BY <2>1, <2>2, <2>3, <2>4
<1>3. state[t] = "eRunning" /\ t # Idle
      BY <1>1, CallerRuns
<1>4. blockedTasks \in Seq(TaskId) /\ t \notin ToSet(blockedTasks)
      BY <1>3 DEF WaitersBlocked, MutexTypeOK
<1>5. CASE \E n \in Timeouts \cup {WAIT_FOREVER} : BeginAcquire(t, n)
  <2>1. /\ t \notin Spinners /\ owner # t
        /\ call' = [call EXCEPT ![t] = "trying"]
        /\ UNCHANGED <<count, owner, blockedTasks, masked, holders>>
        BY <1>5 DEF BeginAcquire, mutexVars
  <2>2. end' \in [TaskId -> Nat \cup {WAIT_FOREVER}]
        BY <1>2, <1>5 DEF BeginAcquire
  <2>3. MutexTypeOK'
        BY <1>1, <1>2, <2>1, <2>2 DEF MutexTypeOK
  <2>4. OneHolder' /\ WaitersBlocked' /\ NoStrandedWaiter'
        BY <1>2, <2>1 DEF OneHolder, WaitersBlocked, NoStrandedWaiter
  <2>5. Contenders'
        BY <1>2, <1>3, <2>1 DEF Contenders
  <2> QED BY <1>1, <2>3, <2>4, <2>5, CallStep
<1>6. CASE Take(t)
  <2>1. /\ owner = Nobody /\ count = 0 /\ holders = {}
        /\ call[t] = "trying" /\ call' = [call EXCEPT ![t] = "out"]
        /\ end' = [end EXCEPT ![t] = 0]
        /\ count' = 1 /\ owner' = t /\ holders' = {t} /\ t # Nobody
        /\ masked' \in BOOLEAN
        BY <1>6, FreeIsUnowned DEF Take, Trying, Return
  <2>2. end' \in [TaskId -> Nat \cup {WAIT_FOREVER}]
        BY <1>2, <2>1
  <2>3. MutexTypeOK'
        BY <1>1, <1>2, <2>1, <2>2 DEF MutexTypeOK
  <2>4. OneHolder' /\ NoStrandedWaiter'
        BY <2>1, FS_Singleton DEF OneHolder, NoStrandedWaiter
  <2>5. WaitersBlocked' /\ Contenders'
        BY <1>1, <1>2, <1>3, <2>1 DEF WaitersBlocked, Contenders
  <2> QED BY <1>1, <2>3, <2>4, <2>5, CallStep
<1>7. CASE GiveUp(t)
  <2>1. /\ owner # Nobody
        /\ call' = [call EXCEPT ![t] = "out"] /\ end' = [end EXCEPT ![t] = 0]
        /\ UNCHANGED <<count, owner, masked, holders>>
        BY <1>7, FreeIsUnowned DEF GiveUp, Return, mutexVars
  <2>2. end' \in [TaskId -> Nat \cup {WAIT_FOREVER}]
        BY <1>2, <2>1
  <2>3. MutexTypeOK'
        BY <1>1, <1>2, <2>1, <2>2 DEF MutexTypeOK
  <2>4. OneHolder' /\ NoStrandedWaiter' /\ Contenders'
        BY <1>2, <2>1 DEF OneHolder, NoStrandedWaiter, Contenders
  <2>5. WaitersBlocked'
        BY <1>1, <1>2, <1>3, <2>1 DEF WaitersBlocked
  <2> QED BY <1>1, <2>3, <2>4, <2>5, CallStep
<1> QED BY <1>5, <1>6, <1>7

\* The caller is queued, and its level lent to the owner, whose ready bit stays
\* where it is; or all slots are taken and the caller tries again.
LEMMA WaitStep ==
    ASSUME MInv, NEW t \in TaskId, WaitOn(t)
    PROVE  MInv'
<1> USE Constants, MutexAssumption DEF MInv
<1>1. /\ Thread(t) /\ pc[t] = "run" /\ ~destroyed /\ call[t] = "trying"
      /\ UNCHANGED <<kernelState, taskCount, highestTaskPriority, sleepingTasksBitmap,
                     taskWakeUpTimes, currentTask, pendSV, tickCount, count, owner,
                     call, end, masked, destroyed, holders>>
      /\ pc' = [pc EXCEPT ![t] = "yield"]
      BY DEF WaitOn, Trying, sleepVars, cpuVars, callVars
<1>2. TypeOK /\ owner \in TaskId \cup {Nobody} /\ blockedTasks \in Seq(TaskId)
      BY DEF MutexTypeOK
<1>3. state[t] = "eRunning" /\ currentTask = t /\ t # Idle /\ t < taskCount /\ Started
      BY <1>1, CallerRuns
<1>4. t \notin ToSet(blockedTasks) /\ owner # t /\ t \notin Spinners
      BY <1>1, <1>3 DEF WaitersBlocked, Contenders
<1>5. owner \in TaskId /\ owner \notin Spinners \cup {Idle}
      BY <1>2, FreeIsUnowned DEF WaitOn, Contenders
\* The new level is one of an added task, so the search still visits it.
<1>6. /\ priority' \in [TaskId -> Priority] /\ basePriority' = priority'
      /\ \A u \in TaskId : u # owner => priority'[u] = priority[u]
      /\ priority'[owner] \in {priority[owner], priority[t]}
  <2>1. CASE priority[t] < priority[owner]
        BY <1>2, <1>5, <2>1
        DEF WaitOn, LendPriority, SetPriority, LevelsEqual, TypeOK
  <2>2. CASE ~(priority[t] < priority[owner])
        BY <1>2, <1>5, <2>2 DEF WaitOn, LendPriority, LevelsEqual, TypeOK
  <2> QED BY <2>1, <2>2
<1>7. /\ UNCHANGED <<readyTasks, priorityBitmap>>
      /\ \/ /\ state' = [state EXCEPT ![t] = "eBlocked"]
            /\ blockedTasks' = Append(blockedTasks, t)
         \/ UNCHANGED <<state, blockedTasks>>
      BY <1>2, <1>3 DEF WaitOn, ResetTaskReady, readyVars, TypeOK
<1>8. TypeOK'
  <2>1. state' \in [TaskId -> TaskStateType] /\ pc' \in [TaskId -> ThreadPoint]
        BY <1>1, <1>2, <1>7 DEF TypeOK, TaskStateType, ThreadPoint
  <2> QED BY <1>1, <1>2, <1>6, <1>7, <2>1 DEF TypeOK
<1>9. /\ blockedTasks' \in Seq(TaskId) /\ IsInjective(blockedTasks')
      /\ \A u \in TaskId : u \in ToSet(blockedTasks') <=> state'[u] = "eBlocked"
  <2>1. CASE UNCHANGED <<state, blockedTasks>>
        BY <2>1 DEF MutexTypeOK, WaitersBlocked
  <2>2. CASE /\ state' = [state EXCEPT ![t] = "eBlocked"]
             /\ blockedTasks' = Append(blockedTasks, t)
    <3>1. /\ blockedTasks' \in Seq(TaskId) /\ IsInjective(blockedTasks')
          /\ ToSet(blockedTasks') = ToSet(blockedTasks) \cup {t}
          BY <1>2, <1>4, <2>2, QueueAppend DEF MutexTypeOK
    <3> QED BY <1>2, <2>2, <3>1 DEF WaitersBlocked, TypeOK
  <2> QED BY <1>7, <2>1, <2>2
<1>10. MutexTypeOK' /\ OneHolder' /\ Contenders'
      BY <1>1, <1>6, <1>8, <1>9 DEF MutexTypeOK, OneHolder, Contenders
<1>11. WaitersBlocked' /\ NoStrandedWaiter' /\ LevelsEqual'
      BY <1>1, <1>2, <1>4, <1>5, <1>6, <1>7, <1>9
      DEF WaitersBlocked, NoStrandedWaiter, LevelsEqual, TypeOK
<1>12. BitsOfReady' /\ ReadyHasBit' /\ IdleBit'
      BY <1>1, <1>2, <1>3, <1>7 DEF BitsOfReady, ReadyHasBit, IdleBit, Lost, TypeOK
<1>13. NoSleepwalking' /\ SleepersExact' /\ BootsIdle' /\ OneRuns'
      BY <1>1, <1>2, <1>3, <1>7
      DEF NoSleepwalking, SleepersExact, BootsIdle, OneRuns, Started, TypeOK
<1>14. FreshReady' /\ IdleStays'
      BY <1>1, <1>2, <1>3, <1>5, <1>6, <1>7 DEF FreshReady, IdleStays, TypeOK, TaskId
<1>15. LevelsBounded'
      BY <1>1, <1>3, <1>5, <1>6 DEF LevelsBounded
<1>16. NoSpinnerLost'
  <2>1. Added' = Added /\ Started
        BY <1>1, <1>3 DEF Added
  <2>2. \A u \in Spinners \cap Added :
           u \in TaskId /\ priority'[u] = priority[u] /\ state'[u] = state[u]
        BY <1>2, <1>4, <1>5, <1>6, <1>7 DEF TypeOK
  <2> QED BY <1>1, <1>7, <2>1, <2>2 DEF NoSpinnerLost
<1> QED BY <1>10, <1>11, <1>12, <1>13, <1>14, <1>15, <1>16

\* The first task in the queue is made ready; it is inside acquire, so that the
\* tasks behind it are not stranded when nobody owns the mutex.
LEMMA ReleaseStep ==
    ASSUME MInv, NEW t \in TaskId, Release(t)
    PROVE  MInv'
<1> USE Constants, MutexAssumption DEF MInv
<1>1. /\ Thread(t) /\ pc[t] = "run" /\ call[t] = "out" /\ ~destroyed /\ owner = t
      /\ UNCHANGED <<kernelState, taskCount, highestTaskPriority, basePriority,
                     sleepingTasksBitmap, taskWakeUpTimes, currentTask, pendSV,
                     tickCount, call, end, masked, destroyed>>
      /\ pc' = [pc EXCEPT ![t] = "yield"]
      BY DEF Release, InCode, sleepVars, cpuVars, callVars
<1>2. /\ TypeOK /\ blockedTasks \in Seq(TaskId) /\ IsInjective(blockedTasks)
      /\ call \in [TaskId -> {"out", "trying"}]
      BY DEF MutexTypeOK
<1>3. state[t] = "eRunning" /\ currentTask = t /\ t # Idle /\ t < taskCount /\ Started
      BY <1>1, CallerRuns
<1>4. priority' = priority
      BY <1>1, <1>2 DEF Release, RestorePriority, LevelsEqual, TypeOK
<1>5. /\ owner' = Nobody /\ t # Nobody
      /\ count = 1 /\ count' = 0 /\ holders = {t} /\ holders' = {}
      BY <1>1, FreeIsUnowned DEF Release
<1>6. /\ \E S \in SUBSET ToSet(blockedTasks) :
            /\ SetTaskReady(S) /\ ToSet(blockedTasks') = ToSet(blockedTasks) \ S
            /\ blockedTasks # <<>> => S # {}
      /\ blockedTasks' \in Seq(TaskId) /\ IsInjective(blockedTasks')
  <2>1. CASE blockedTasks # <<>>
    <3>1. /\ SetTaskReady({Head(blockedTasks)}) /\ blockedTasks' = Tail(blockedTasks)
          BY <2>1 DEF Release, WakeFirst
    <3>2. /\ Head(blockedTasks) \in ToSet(blockedTasks)
          /\ Tail(blockedTasks) \in Seq(TaskId)
          /\ ToSet(blockedTasks) = ToSet(Tail(blockedTasks)) \cup {Head(blockedTasks)}
          /\ IsInjective(Tail(blockedTasks))
          /\ Head(blockedTasks) \notin ToSet(Tail(blockedTasks))
          BY <1>2, <2>1, QueueTail
    <3>3. /\ {Head(blockedTasks)} \in SUBSET ToSet(blockedTasks)
          /\ ToSet(blockedTasks') = ToSet(blockedTasks) \ {Head(blockedTasks)}
          BY <3>1, <3>2
    <3> QED BY <3>1, <3>2, <3>3
  <2>2. CASE blockedTasks = <<>>
    <3>1. UNCHANGED <<state, readyTasks, priorityBitmap, blockedTasks>>
          BY <2>2 DEF Release, readyVars
    <3>2. /\ state = [u \in TaskId |-> state[u]]
          /\ readyTasks = [p \in Priority |-> readyTasks[p]]
          BY <1>2 DEF TypeOK
    <3>3. SetTaskReady({})
          BY <3>1, <3>2 DEF SetTaskReady
    <3>4. /\ {} \in SUBSET ToSet(blockedTasks)
          /\ ToSet(blockedTasks') = ToSet(blockedTasks) \ {}
          BY <3>1
    <3> QED BY <1>2, <2>2, <3>1, <3>3, <3>4
  <2> QED BY <2>1, <2>2
<1>7. PICK S \in SUBSET ToSet(blockedTasks) :
            /\ SetTaskReady(S) /\ ToSet(blockedTasks') = ToSet(blockedTasks) \ S
            /\ blockedTasks # <<>> => S # {}
      BY <1>6
<1>8. /\ S \in SUBSET TaskId
      /\ \A u \in S : state[u] = "eBlocked" /\ call[u] = "trying" /\ u < taskCount /\ u # t
  <2>1. ToSet(blockedTasks) \subseteq TaskId
        BY <1>2, LenProperties, ElementOfSeq DEF ToSet
  <2>2. \A u \in ToSet(blockedTasks) : state[u] = "eBlocked" /\ call[u] = "trying" /\ u # t
        BY <1>1, <1>2, <2>1 DEF WaitersBlocked
  <2>3. \A u \in TaskId : state[u] = "eBlocked" => u < taskCount
        BY <1>2 DEF FreshReady, TypeOK, TaskId
  <2> QED BY <2>1, <2>2, <2>3
<1>9. /\ state' = [u \in TaskId |-> IF u \in S THEN "eReady" ELSE state[u]]
      /\ readyTasks' = [p \in Priority |-> readyTasks[p] \cup {u \in S : priority[u] = p}]
      BY <1>7 DEF SetTaskReady
<1>10. TypeOK'
  <2>1. pc' \in [TaskId -> ThreadPoint] /\ pendSV' \in BOOLEAN
        BY <1>1, <1>2 DEF TypeOK, ThreadPoint
  <2> QED BY <1>1, <1>2, <1>4, <1>7, <1>8, <2>1, ReleaseKeepsType DEF taskVars, sleepVars
<1>11. MutexTypeOK' /\ LevelsEqual'
      BY <1>1, <1>4, <1>5, <1>6, <1>10 DEF MutexTypeOK, LevelsEqual
<1>12. OneHolder' /\ Contenders'
      BY <1>1, <1>5, FS_EmptySet DEF OneHolder, Contenders
<1>13. WaitersBlocked'
      BY <1>1, <1>2, <1>5, <1>7, <1>8, <1>9 DEF WaitersBlocked, TypeOK
<1>14. NoStrandedWaiter'
  <2>1. blockedTasks # <<>> => \E u \in TaskId : u \in S
        BY <1>7, <1>8
  <2>2. blockedTasks = <<>> => ToSet(blockedTasks') = {}
        BY <1>7, NobodyQueued
  <2>3. blockedTasks' = <<>> <=> ToSet(blockedTasks') = {}
        BY <1>6, QueueEmpty
  <2> QED BY <1>1, <1>7, <1>8, <2>1, <2>2, <2>3 DEF NoStrandedWaiter
<1>15. BitsOfReady'
      BY <1>1, <1>2, <1>4, <1>8, <1>9 DEF BitsOfReady, LevelsBounded, TypeOK
<1>16. ReadyHasBit' /\ IdleBit'
  <2>1. PRIORITY_IDLE \in Priority /\ \A u \in TaskId : priority[u] \in Priority
        BY <1>2 DEF TypeOK, Priority
  <2> QED BY <1>1, <1>9, <2>1 DEF ReadyHasBit, IdleBit, Lost
<1>17. NoSleepwalking' /\ SleepersExact' /\ BootsIdle' /\ OneRuns'
      BY <1>1, <1>2, <1>3, <1>8, <1>9
      DEF NoSleepwalking, SleepersExact, BootsIdle, OneRuns, Started, TypeOK
<1>18. FreshReady' /\ IdleStays' /\ LevelsBounded'
      BY <1>1, <1>2, <1>4, <1>8, <1>9 DEF FreshReady, IdleStays, LevelsBounded
<1>19. NoSpinnerLost'
  <2>1. \A u \in Spinners \cap Added : u \in TaskId /\ priority[u] \in Priority
        BY <1>2 DEF TypeOK
  <2> QED BY <1>1, <1>4, <1>8, <1>9, <2>1 DEF NoSpinnerLost, Started, Added
<1> QED BY <1>11, <1>12, <1>13, <1>14, <1>15, <1>16, <1>17, <1>18, <1>19

\* The destructor makes the queued tasks ready without a bit.  They are inside
\* acquire, which no task leaves any more: they are the lost ones.
LEMMA DestroyStep ==
    ASSUME MInv, NEW t \in TaskId, Destroy(t)
    PROVE  MInv'
<1> USE Constants DEF MInv
<1>1. /\ ~destroyed /\ destroyed' = TRUE /\ blockedTasks' = <<>>
      /\ UNCHANGED <<kernelState, taskCount, priority, highestTaskPriority, readyTasks,
                     priorityBitmap, sleepingTasksBitmap, taskWakeUpTimes, currentTask,
                     pendSV, tickCount, pc, basePriority, count, owner, call, end, masked,
                     holders>>
      BY DEF Destroy, taskVars, sleepVars, cpuVars, callVars
<1>2. TypeOK /\ blockedTasks \in Seq(TaskId)
      BY DEF MutexTypeOK
<1>3. \A u \in TaskId : state'[u] = IF state[u] = "eBlocked" THEN "eReady" ELSE state[u]
      BY DEF Destroy, WaitersBlocked
<1>4. \A u \in TaskId : state[u] = "eBlocked" => call[u] = "trying" /\ u < taskCount
      BY <1>2 DEF WaitersBlocked, FreshReady, TypeOK, TaskId
<1>5. TypeOK'
  <2>1. state' \in [TaskId -> TaskStateType]
        BY <1>2 DEF Destroy, TypeOK, TaskStateType
  <2> QED BY <1>1, <1>2, <2>1 DEF TypeOK
<1>6. MutexTypeOK' /\ OneHolder' /\ Contenders' /\ LevelsEqual'
      BY <1>1, <1>5, NobodyQueued DEF MutexTypeOK, OneHolder, Contenders, LevelsEqual
<1>7. WaitersBlocked' /\ NoStrandedWaiter'
      BY <1>1, <1>3, NobodyQueued DEF WaitersBlocked, NoStrandedWaiter
<1>8. BitsOfReady' /\ IdleBit'
      BY <1>1, <1>3 DEF BitsOfReady, IdleBit
<1>9. ReadyHasBit'
      BY <1>1, <1>3, <1>4 DEF ReadyHasBit, Lost
<1>10. NoSleepwalking' /\ SleepersExact' /\ BootsIdle' /\ OneRuns'
      BY <1>1, <1>2, <1>3
      DEF NoSleepwalking, SleepersExact, BootsIdle, OneRuns, Started, TypeOK
<1>11. FreshReady' /\ IdleStays' /\ LevelsBounded'
      BY <1>1, <1>3 DEF FreshReady, IdleStays, LevelsBounded
<1>12. NoSpinnerLost'
      BY <1>1, <1>2, <1>3 DEF NoSpinnerLost, Started, Added, TypeOK
<1> QED BY <1>6, <1>7, <1>8, <1>9, <1>10, <1>11, <1>12

LEMMA MInvStep ==
    ASSUME Spinners # {}, MInv, [MutexNext]_allVars
    PROVE  MInv'
<1>1. CASE UNCHANGED allVars
  <2>1. UNCHANGED <<vars, basePriority, count, owner, blockedTasks, call, end,
                    masked, destroyed, holders>>
        BY <1>1 DEF allVars, ownVars, mutexVars, callVars
  <2>2. UNCHANGED <<kernelState, taskCount, priority, highestTaskPriority, state,
                    readyTasks, priorityBitmap, sleepingTasksBitmap, taskWakeUpTimes,
                    currentTask, tickCount, pendSV, pc>>
        BY <2>1 DEF vars, taskVars, readyVars, sleepVars, cpuVars
  <2>3. MutexTypeOK' /\ OneHolder' /\ WaitersBlocked' /\ NoStrandedWaiter' /\ Contenders'
        BY <2>1, <2>2 DEF MInv, MutexTypeOK, TypeOK, OneHolder, WaitersBlocked,
                          NoStrandedWaiter, Contenders
  <2>4. LevelsEqual' /\ BitsOfReady' /\ ReadyHasBit' /\ IdleBit'
        BY <2>1, <2>2 DEF MInv, LevelsEqual, BitsOfReady, ReadyHasBit, IdleBit, Lost
  <2>5. NoSleepwalking' /\ SleepersExact' /\ NoSpinnerLost' /\ BootsIdle'
        BY <2>2 DEF MInv, NoSleepwalking, SleepersExact, NoSpinnerLost, BootsIdle,
                    Started, Added
  <2>6. FreshReady' /\ IdleStays' /\ OneRuns' /\ LevelsBounded'
        BY <2>2 DEF MInv, FreshReady, IdleStays, OneRuns, LevelsBounded
  <2> QED BY <2>3, <2>4, <2>5, <2>6 DEF MInv
<1> QED BY <1>1, SchedulerStep, AddStep, AcquireStep, WaitStep, ReleaseStep, DestroyStep
        DEF MutexNext, MutexStep

LEMMA MutexInvariance ==
    ASSUME Spinners # {}
    PROVE  MutexSpec => []MInv
<1>1. MutexInit => MInv
      BY MInvInit
<1>2. MInv /\ [MutexNext]_allVars => MInv'
      BY MInvStep
<1> QED BY <1>1, <1>2, PTL DEF MutexSpec

\* Every field stays in its range, and the queue never holds a task twice, so
\* that MAX_TASKS slots are enough for it.
THEOREM MutexTypeCorrect ==
    ASSUME Spinners # {}
    PROVE  MutexSpec => []MutexTypeOK
<1>1. MInv => MutexTypeOK
      BY DEF MInv
<1> QED BY <1>1, MutexInvariance, PTL

\* Mutual exclusion: at most one task was told Success and has not released the
\* mutex since, and the count and the owner, which different calls test, agree.
THEOREM OneHolderAtMost ==
    ASSUME Spinners # {}
    PROVE  MutexSpec => []OneHolder
<1>1. MInv => OneHolder
      BY DEF MInv
<1> QED BY <1>1, MutexInvariance, PTL

\* A task is blocked exactly while it is queued, inside acquire, not the owner.
THEOREM MutexWaitersStayBlocked ==
    ASSUME Spinners # {}
    PROVE  MutexSpec => []WaitersBlocked
<1>1. MInv => WaitersBlocked
      BY DEF MInv
<1> QED BY <1>1, MutexInvariance, PTL

\* While tasks are queued, somebody owns the mutex or was let go to take it.
THEOREM NobodyStranded ==
    ASSUME Spinners # {}
    PROVE  MutexSpec => []NoStrandedWaiter
<1>1. MInv => NoStrandedWaiter
      BY DEF MInv
<1> QED BY <1>1, MutexInvariance, PTL

\* Lending levels neither loses nor doubles a ready bit: only the destructor
\* leaves ready tasks without one.
THEOREM ReadyBitsStayUnique ==
    ASSUME Spinners # {}
    PROVE  MutexSpec => []OneReadyBit
<1>1. ASSUME MInv
      PROVE  OneReadyBit
  <2>1. ASSUME NEW t \in Added \ {Idle}
        PROVE  LET bits == {p \in Priority : t \in readyTasks[p]}
               IN  IF state[t] = "eReady" /\ ~Lost(t)
                   THEN Cardinality(bits) = 1 /\ \A p \in bits : p >= highestTaskPriority
                   ELSE Lost(t) \/ bits = {}
    <3> DEFINE bits == {p \in Priority : t \in readyTasks[p]}
    <3>1. t \in TaskId /\ t < taskCount
          BY <1>1, <2>1, Constants DEF MInv, MutexTypeOK, TypeOK, Added, TaskId
    <3>2. \A p \in bits : /\ state[t] = "eReady" /\ highestTaskPriority <= p
                          /\ \A q \in bits : q = p
          BY <1>1, <3>1 DEF MInv, BitsOfReady
    <3>3. CASE state[t] = "eReady" /\ ~Lost(t)
      <4>1. PICK p \in bits : TRUE
            BY <1>1, <3>1, <3>3 DEF MInv, ReadyHasBit
      <4>2. bits = {p}
            BY <3>2, <4>1
      <4>3. Cardinality(bits) = 1
            BY <4>2, FS_Singleton
      <4>4. \A q \in bits : q >= highestTaskPriority
            BY <1>1, <3>2 DEF MInv, MutexTypeOK, TypeOK, Priority
      <4> QED BY <3>3, <4>3, <4>4
    <3>4. CASE ~(state[t] = "eReady" /\ ~Lost(t))
      <4>1. Lost(t) \/ bits = {}
            BY <3>2, <3>4 DEF Lost
      <4> QED BY <3>4, <4>1
    <3> QED BY <3>3, <3>4
  <2> QED BY <2>1 DEF OneReadyBit
<1> QED BY <1>1, MutexInvariance, PTL

\* release has nothing to give back: the base level of a task, which setPriority
\* changes as well, is its level at every moment, so that a lent level is kept.
THEOREM LentLevelsAreKept ==
    ASSUME Spinners # {}
    PROVE  MutexSpec => []LevelsEqual
<1>1. MInv => LevelsEqual
      BY DEF MInv
<1> QED BY <1>1, MutexInvariance, PTL

-----------------------------------------------------------------------------
(***************************************************************************)
(* The mutex implements AbstractMutex.                                     *)
(***************************************************************************)
LEMMA PromisedInit == MutexInit => Promised!Init
BY DEF MutexInit, Promised!Init

\* A running task is not in line.
LEMMA CallerAwake ==
    ASSUME MInv, NEW t \in TaskId, Trying(t)
    PROVE  Promised!Awake(t)
<1>1. state[t] = "eRunning" /\ call[t] = "trying"
      BY CallerRuns DEF Trying
<1>2. t \notin ToSet(blockedTasks)
      BY <1>1 DEF MInv, WaitersBlocked
<1>3. \A i \in DOMAIN blockedTasks : blockedTasks[i] # t
      BY <1>2 DEF ToSet
<1> QED BY <1>1, <1>3 DEF Promised!Awake

\* Each step is one abstract step or none.
LEMMA PromisedStep ==
    ASSUME MInv, [MutexNext]_allVars
    PROVE  [Promised!Next]_(Promised!vars)
<1> DEFINE tries == {t \in TaskId : call[t] = "trying"}
<1>1. call \in [TaskId -> {"out", "trying"}]
      BY DEF MInv, MutexTypeOK
<1>2. ASSUME UNCHANGED <<owner, blockedTasks, call>>
      PROVE  UNCHANGED Promised!vars
      BY <1>2 DEF Promised!vars
<1>3. CASE KernelStep \/ (\E p \in Priority : AddMutexTask(p)) \/ UNCHANGED allVars
      BY <1>2, <1>3 DEF KernelStep, AddMutexTask, allVars, ownVars, mutexVars, callVars
<1>4. ASSUME NEW t \in TaskId, NEW n \in Timeouts \cup {WAIT_FOREVER}, BeginAcquire(t, n)
      PROVE  Promised!Call(t)
  <2>1. tries' = tries \cup {t} /\ t \notin tries
        BY <1>1, <1>4 DEF BeginAcquire, InCode
  <2> QED BY <1>4, <2>1 DEF BeginAcquire, mutexVars, Promised!Call
<1>5. ASSUME NEW t \in TaskId, Return(t)
      PROVE  tries' = tries \ {t}
      BY <1>1, <1>5 DEF Return
<1>6. ASSUME NEW t \in TaskId, Take(t)
      PROVE  Promised!Take(t)
  <2>1. tries' = tries \ {t}
        BY <1>5, <1>6 DEF Take
  <2> QED BY <1>6, <2>1, FreeIsUnowned, CallerAwake DEF Take, Promised!Take
<1>7. ASSUME NEW t \in TaskId, GiveUp(t)
      PROVE  Promised!Quit(t)
  <2>1. tries' = tries \ {t}
        BY <1>5, <1>7 DEF GiveUp
  <2> QED BY <1>7, <2>1, FreeIsUnowned, CallerAwake DEF GiveUp, mutexVars, Promised!Quit
<1>8. ASSUME NEW t \in TaskId, WaitOn(t)
      PROVE  Promised!Wait(t) \/ UNCHANGED Promised!vars
  <2>1. Trying(t) /\ ~Free /\ UNCHANGED <<owner, call>>
        BY <1>8 DEF WaitOn, callVars
  <2>2. CASE Len(blockedTasks) < MAX_TASKS
        BY <1>8, <2>1, <2>2, FreeIsUnowned, CallerAwake DEF WaitOn, Promised!Wait
  <2>3. CASE ~(Len(blockedTasks) < MAX_TASKS)
        BY <1>2, <1>8, <2>1, <2>3 DEF WaitOn
  <2> QED BY <2>2, <2>3
<1>9. ASSUME NEW t \in TaskId, Release(t)
      PROVE  Promised!Release(t)
      BY <1>9 DEF Release, WakeFirst, callVars, Promised!Release
<1>10. ASSUME NEW t \in TaskId, Destroy(t)
       PROVE  Promised!Abandon
       BY <1>10 DEF Destroy, callVars, Promised!Abandon
<1> QED BY <1>3, <1>4, <1>6, <1>7, <1>8, <1>9, <1>10
        DEF MutexNext, MutexStep, Promised!Next

\* Only its holder releases the mutex, a release lets the caller that waited
\* longest try again, and nobody else leaves the line while the mutex exists.
THEOREM MutexImplementsLock ==
    ASSUME Spinners # {}
    PROVE  MutexSpec => ImplementsMutex
<1>1. MutexInit => Promised!Init
      BY PromisedInit
<1>2. MInv /\ [MutexNext]_allVars => [Promised!Next]_(Promised!vars)
      BY PromisedStep
<1> QED BY <1>1, <1>2, MutexInvariance, PTL
        DEF MutexSpec, Promised!Spec, ImplementsMutex

=============================================================================

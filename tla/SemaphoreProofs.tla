--------------------------- MODULE SemaphoreProofs --------------------------
(***************************************************************************)
(* Theorems about Semaphore.tla, for any number of tasks, permits, levels  *)
(* and ticks, as long as one added task never gives the processor up.      *)
(***************************************************************************)
EXTENDS Semaphore, KernelProofs

(***************************************************************************)
(* The inductive invariant.  That of the scheduler (IInv of KernelProofs)  *)
(* does not hold here: a signalling task marks itself ready outside a      *)
(* critical section, and ready bits are lost.  What remains of it is still *)
(* enough for the semaphore: the task that executes is not blocked.        *)
(***************************************************************************)

\* Whenever application code runs, its task is marked running, or is halfway
\* through making itself ready.
Awake ==
    Started /\ currentTask # Idle /\ pc[currentTask] = "run"
        => state[currentTask] = "eRunning" \/ call[currentTask] = "storeSelf"

\* A ready bit is set only for a ready task of that level.  The converse does
\* not hold: StoreSelf overwrites bits, and a task that loses the processor
\* before it has none.
BitsOfReady ==
    \A t \in TaskId, p \in Priority :
        t \in readyTasks[p] => t < taskCount /\ state[t] = "eReady" /\ priority[t] = p

\* Only signallers make themselves ready, and in between they have no bit.
SelfWithoutBit ==
    \A t \in TaskId :
        /\ call[t] \in {"readySelf", "storeSelf"} => t \in Signallers
        /\ call[t] = "storeSelf" => /\ state[t] = "eReady"
                                    /\ \A p \in Priority : t \notin readyTasks[p]

\* A task that was not added is in no call.
FreshOut == \A t \in TaskId : t >= taskCount => call[t] = "out"

\* As long as the task has the processor nobody takes a bit away that it read.
CopyCurrent ==
    call[currentTask] = "storeSelf" =>
        /\ readBits[currentTask] \subseteq readyTasks[priority[currentTask]]
        /\ \A s \in Spinners \cap Added :
              priority[s] = priority[currentTask] => s \in readBits[currentTask]

SInv ==
    /\ SemTypeOK
    /\ Awake
    /\ BitsOfReady
    /\ SleepersExact
    /\ NoSpinnerLost
    /\ BootsIdle
    /\ FreshReady
    /\ IdleStays
    /\ OneRuns
    /\ SelfWithoutBit
    /\ FreshOut
    /\ CopyCurrent
    /\ WaitersBlocked
    /\ NoIdlePermit

LEMMA PermitRange ==
    /\ MostPermits \in Nat /\ maxCount <= MostPermits /\ maxCount \in Nat
    /\ initialCount \in 0 .. MostPermits
BY SemaphoreAssumption DEF MostPermits

LEMMA QueuedTasks ==
    ASSUME SemTypeOK
    PROVE  waitingQueue \in Seq(TaskId) /\ ToSet(waitingQueue) \subseteq TaskId
<1>1. waitingQueue \in Seq(TaskId)
      BY DEF SemTypeOK
<1> QED BY <1>1, LenProperties, ElementOfSeq DEF ToSet

LEMMA SInvInit == SemInit => SInv
<1> SUFFICES ASSUME SemInit
             PROVE  SInv
    OBVIOUS
<1>1. IInv
      BY InvInit DEF SemInit
<1>2. SemTypeOK
      BY <1>1, NobodyQueued, SemaphoreAssumption, PermitRange
      DEF SemInit, SemTypeOK, CallPoint, IInv
<1>3. Awake /\ BitsOfReady
      BY <1>1 DEF Awake, BitsOfReady, IInv, NoSleepwalking, ReadyListExact
<1>4. SelfWithoutBit /\ CopyCurrent /\ FreshOut
      BY <1>1 DEF SelfWithoutBit, CopyCurrent, FreshOut, SemInit, IInv, TypeOK
<1>5. WaitersBlocked /\ NoIdlePermit
      BY NobodyQueued DEF WaitersBlocked, NoIdlePermit, SemInit, Init
<1> QED BY <1>1, <1>2, <1>3, <1>4, <1>5 DEF SInv, IInv

\* A task that executes anything but the second half of setTaskReady(self) is
\* marked running.
LEMMA CallerRuns ==
    ASSUME SInv, NEW t \in TaskId, Thread(t), pc[t] = "run", call[t] # "storeSelf"
    PROVE  state[t] = "eRunning" /\ currentTask = t /\ t # Idle /\ t < taskCount /\ Started
BY Constants DEF SInv, Awake, Thread, FreshReady, SemTypeOK, TypeOK, TaskId

\* The scheduler's own steps, and what tasks do outside the semaphore.
LEMMA SchedulerStep ==
    ASSUME Spinners # {}, SInv, KernelStep
    PROVE  SInv'
<1> USE Constants DEF SInv
<1>a. UNCHANGED <<count, waitingQueue, call, ticksTimeout, end, readBits>>
      BY DEF KernelStep, semVars, callVars
<1>b. TypeOK
      BY DEF SemTypeOK
<1>c. TypeOK'
  <2>1. [Next]_vars
        BY DEF KernelStep, Next
  <2> QED BY <1>b, <2>1, TypeStep
<1>d. SemTypeOK' /\ NoIdlePermit'
      BY <1>a, <1>c DEF SemTypeOK, NoIdlePermit
\* The queue and the calls are as before: nobody may become or cease to be
\* blocked.
<1>e. (\A t \in TaskId : state'[t] = "eBlocked" <=> state[t] = "eBlocked")
        => WaitersBlocked'
      BY <1>a DEF WaitersBlocked
<1>1. ASSUME NEW p \in Priority, AddTask(p), call[currentTask] = "out"
      PROVE  SInv'
  <2>1. /\ taskCount < MAX_TASKS /\ taskCount' = taskCount + 1
        /\ taskCount \in Spinners => p < PRIORITY_IDLE
        /\ priority' = [priority EXCEPT ![taskCount] = p]
        /\ highestTaskPriority' = MoreUrgent(p, highestTaskPriority)
        /\ readyTasks' = [readyTasks EXCEPT ![p] = @ \cup {taskCount}]
        /\ UNCHANGED <<kernelState, state, sleepingTasksBitmap, taskWakeUpTimes,
                       currentTask, tickCount, pendSV, pc>>
        BY <1>1 DEF AddTask, HasRoom, sleepVars, cpuVars
  <2>2. /\ taskCount \in TaskId
        /\ \A t \in TaskId : t < taskCount' <=> t < taskCount \/ t = taskCount
        BY <1>b, <2>1 DEF TypeOK, TaskId
  <2>3. state[taskCount] = "eReady"
        BY <1>b, <2>2 DEF FreshReady, TypeOK
  <2>4. BitsOfReady'
        BY <1>b, <2>1, <2>2, <2>3 DEF BitsOfReady, TypeOK
  <2>5. Awake' /\ SleepersExact' /\ BootsIdle' /\ FreshReady' /\ OneRuns'
    <3>1. Awake' /\ SleepersExact' /\ OneRuns'
          BY <1>a, <2>1 DEF Awake, SleepersExact, OneRuns, Started
    <3>2. BootsIdle'
          BY <2>1 DEF BootsIdle, Started
    <3>3. FreshReady'
          BY <1>b, <2>1, <2>2 DEF FreshReady, TypeOK, TaskId
    <3> QED BY <3>1, <3>2, <3>3
  <2>6. IdleStays'
        BY <1>b, <2>1 DEF IdleStays, TypeOK, Idle
  <2>7. SelfWithoutBit' /\ CopyCurrent'
    <3>1. call[taskCount] = "out"
          BY <1>b, <2>2 DEF FreshOut, TypeOK
    <3> QED BY <1>1, <1>a, <1>b, <2>1, <2>2, <3>1 DEF SelfWithoutBit, CopyCurrent, TypeOK
  <2>8. NoSpinnerLost'
    <3>1. Added' = Added \cup {taskCount} /\ taskCount \notin Added
          BY <1>b, <2>1 DEF Added, TypeOK
    <3>2. /\ highestTaskPriority' \in Nat
          /\ highestTaskPriority' <= highestTaskPriority /\ highestTaskPriority' <= p
          BY <1>b, <2>1 DEF MoreUrgent, TypeOK, Priority
    <3>3. ASSUME NEW t \in Spinners \cap Added
          PROVE  /\ priority'[t] = priority[t]
                 /\ priority[t] \in highestTaskPriority' .. PRIORITY_IDLE - 1
                 /\ t \in readyTasks[priority[t]] => t \in readyTasks'[priority[t]]
          BY <1>b, <2>1, <2>2, <3>1, <3>2 DEF NoSpinnerLost, TypeOK, Priority
    <3>4. taskCount \in Spinners => /\ priority'[taskCount] = p
                                    /\ p \in highestTaskPriority' .. PRIORITY_IDLE - 1
                                    /\ taskCount \in readyTasks'[p]
          BY <1>b, <2>1, <2>2, <3>2 DEF TypeOK, Priority
    <3> QED BY <2>1, <3>1, <3>3, <3>4 DEF NoSpinnerLost, Started
  <2>9. FreshOut'
        BY <1>a, <1>b, <2>1, <2>2 DEF FreshOut, TypeOK, TaskId
  <2> QED BY <1>d, <1>e, <2>1, <2>4, <2>5, <2>6, <2>7, <2>8, <2>9
<1>2. CASE Start
  <2>1. /\ Started' /\ ~Started /\ Spinners \subseteq Added
        /\ UNCHANGED <<taskCount, priority, highestTaskPriority, state, readyTasks,
                       sleepingTasksBitmap, taskWakeUpTimes, currentTask, tickCount,
                       pendSV, pc>>
        BY <1>2 DEF Start, Started, readyVars, sleepVars, cpuVars
  <2>2. Awake' /\ BootsIdle'
        BY <2>1 DEF Awake, BootsIdle
  <2>3. NoSpinnerLost'
        BY <2>1 DEF NoSpinnerLost, Added
  <2>4. BitsOfReady' /\ SleepersExact' /\ FreshReady' /\ IdleStays' /\ OneRuns'
        BY <2>1 DEF BitsOfReady, SleepersExact, FreshReady, IdleStays, OneRuns
  <2>5. SelfWithoutBit' /\ CopyCurrent' /\ FreshOut'
        BY <1>a, <2>1 DEF SelfWithoutBit, CopyCurrent, FreshOut, Added
  <2> QED BY <1>d, <1>e, <2>1, <2>2, <2>3, <2>4, <2>5
<1>3. CASE Tick
  <2> DEFINE due == DueSleepers(tickCount')
  <2>1. /\ Started /\ due \subseteq sleepingTasksBitmap
        /\ \A t \in sleepingTasksBitmap \ due : tickCount' <= taskWakeUpTimes[t]
        /\ state' = [t \in TaskId |-> IF t \in due THEN "eReady" ELSE state[t]]
        /\ readyTasks' = [p \in Priority |-> readyTasks[p] \cup {t \in due : priority[t] = p}]
        /\ sleepingTasksBitmap' = sleepingTasksBitmap \ due
        /\ UNCHANGED <<kernelState, taskCount, priority, highestTaskPriority,
                       taskWakeUpTimes, currentTask, pc>>
        BY <1>3, <1>b, <1>c DEF Tick, SetTaskReady, DueSleepers, taskVars, TypeOK
  <2> HIDE DEF due
  <2>2. \A t \in due : t \in TaskId /\ state[t] = "eSleeping" /\ t < taskCount
        BY <1>b, <2>1 DEF SleepersExact, FreshReady, TypeOK, TaskId
  <2>3. Awake' /\ BootsIdle' /\ OneRuns'
        BY <1>a, <1>b, <2>1, <2>2 DEF Awake, BootsIdle, OneRuns, Started, TypeOK
  <2>4. SleepersExact'
        BY <1>b, <2>1, <2>2 DEF SleepersExact, TypeOK
  <2>5. FreshReady' /\ IdleStays' /\ FreshOut'
        BY <1>a, <2>1, <2>2 DEF FreshReady, IdleStays, FreshOut
  <2>6. BitsOfReady'
        BY <1>b, <2>1, <2>2 DEF BitsOfReady, TypeOK
  <2>7. SelfWithoutBit'
        BY <1>a, <2>1, <2>2 DEF SelfWithoutBit
  <2>8. NoSpinnerLost' /\ CopyCurrent'
    <3>1. \A t \in TaskId : priority[t] \in Priority
          BY <1>b DEF TypeOK
    <3>2. CopyCurrent'
          BY <1>a, <1>b, <2>1, <3>1 DEF CopyCurrent, Added, TypeOK
    <3>3. NoSpinnerLost'
          BY <2>1, <2>2, <3>1 DEF NoSpinnerLost, Started, Added
    <3> QED BY <3>2, <3>3
  <2> QED BY <1>d, <1>e, <2>1, <2>2, <2>3, <2>4, <2>5, <2>6, <2>7, <2>8
<1>4. ASSUME NEW p \in Priority, NEW t \in TaskId,
             ContextSwitch, IsNext(t, p), SwitchTo(t, p)
      PROVE  SInv'
  <2>1. /\ p \in ReadyLevels /\ t \in readyTasks[p] /\ currentTask' = t
        /\ state' = [u \in TaskId |-> IF u = t THEN "eRunning"
                                      ELSE IF u \in Preempted THEN "eReady"
                                      ELSE state[u]]
        /\ readyTasks' = [q \in Priority |->
                            (readyTasks[q] \cup {u \in Preempted : priority[u] = q})
                                \ (IF q = p THEN {t} ELSE {})]
        /\ UNCHANGED <<kernelState, taskCount, priority, highestTaskPriority,
                       sleepingTasksBitmap, taskWakeUpTimes, tickCount>>
        BY <1>4 DEF ContextSwitch, IsNext, SwitchTo, taskVars, sleepVars
  <2>2. t < taskCount /\ state[t] = "eReady" /\ priority[t] = p
        BY <2>1 DEF BitsOfReady
  <2>3. \A u \in TaskId : u \in Preempted <=> u = currentTask /\ state[u] = "eRunning"
        BY <1>b DEF Preempted, TypeOK
  <2>4. Awake' /\ OneRuns'
        BY <2>1, <2>3 DEF Awake, OneRuns
  <2>5. SleepersExact'
        BY <1>b, <2>1, <2>2, <2>3 DEF SleepersExact, TypeOK
  <2>6. FreshReady' /\ FreshOut'
        BY <1>a, <1>b, <2>1, <2>2, <2>3 DEF FreshReady, FreshOut, TypeOK, TaskId
  <2>7. IdleStays'
    <3>1. t # Idle
          BY <2>1, <2>2 DEF IdleStays, ReadyLevels
    <3> QED BY <1>b, <2>1, <2>3, <3>1 DEF IdleStays, TypeOK
  <2>8. BootsIdle'
        BY <1>4, <2>1 DEF BootsIdle, ContextSwitch, Started
  <2>9. \A u \in TaskId, q \in Priority :
           u \in readyTasks'[q] <=> /\ \/ u \in readyTasks[q]
                                       \/ u \in Preempted /\ priority[u] = q
                                    /\ ~(u = t /\ q = p)
        BY <2>1
  <2>10. BitsOfReady'
    <3>1. \A u \in TaskId : u \in Preempted => u < taskCount /\ u # t
          BY <1>b, <2>2, <2>3 DEF FreshReady, TypeOK, TaskId
    <3> QED BY <1>b, <2>1, <2>2, <2>3, <2>9, <3>1 DEF BitsOfReady, TypeOK
  \* The chosen task has a bit, so it is not halfway through readying itself.
  <2>11. call[t] # "storeSelf"
        BY <2>1 DEF SelfWithoutBit
  <2>12. SelfWithoutBit' /\ CopyCurrent'
        BY <1>a, <2>1, <2>3, <2>9, <2>11 DEF SelfWithoutBit, CopyCurrent
  <2>13. NoSpinnerLost'
    <3>1. \A u \in Spinners \cap Added : u \in TaskId /\ priority[u] \in Priority
          BY <1>b DEF TypeOK
    <3> QED BY <1>b, <2>1, <2>3, <2>9, <3>1 DEF NoSpinnerLost, Started, Added, TypeOK
  <2> QED BY <1>d, <1>e, <2>1, <2>2, <2>3, <2>4, <2>5, <2>6, <2>7, <2>8, <2>10,
             <2>12, <2>13
<1>5. ASSUME ContextSwitch, ReadyLevels = {}, UNCHANGED <<currentTask, readyVars>>
      PROVE  SInv'
  <2>1. /\ Started /\ Started'
        /\ UNCHANGED <<taskCount, priority, highestTaskPriority, state, readyTasks,
                       sleepingTasksBitmap, taskWakeUpTimes, currentTask, tickCount>>
        BY <1>5 DEF ContextSwitch, BootsIdle, Started, taskVars, sleepVars, readyVars
  \* Nobody is in the reach of the search, so a spinner has the processor.
  <2>2. state[currentTask] = "eRunning"
    <3>1. PICK t \in Spinners : TRUE
          OBVIOUS
    <3>2. t \in Added /\ priority[t] \in highestTaskPriority .. PRIORITY_IDLE - 1
          BY <2>1, <3>1 DEF NoSpinnerLost
    <3>3. t \notin readyTasks[priority[t]]
          BY <3>2, <1>5 DEF ReadyLevels
    <3> QED BY <3>2, <3>3 DEF NoSpinnerLost
  <2>3. Awake'
        BY <2>1, <2>2 DEF Awake
  <2>4. BitsOfReady' /\ SleepersExact' /\ FreshReady' /\ IdleStays' /\ OneRuns'
        BY <2>1 DEF BitsOfReady, SleepersExact, FreshReady, IdleStays, OneRuns
  <2>5. NoSpinnerLost' /\ BootsIdle'
        BY <2>1 DEF NoSpinnerLost, BootsIdle, Added
  <2>6. SelfWithoutBit' /\ CopyCurrent' /\ FreshOut'
        BY <1>a, <2>1 DEF SelfWithoutBit, CopyCurrent, FreshOut, Added
  <2> QED BY <1>d, <1>e, <2>1, <2>3, <2>4, <2>5, <2>6
<1>6. ASSUME NEW t \in TaskId, NEW n \in SleepTicks, Sleep(t, n), call[t] = "out"
      PROVE  SInv'
  <2>1. /\ Started /\ currentTask = t /\ t # Idle /\ pc[t] = "run" /\ t \notin Spinners
        /\ sleepingTasksBitmap' = sleepingTasksBitmap \cup {t}
        /\ taskWakeUpTimes' = [taskWakeUpTimes EXCEPT ![t] = tickCount + n]
        /\ state' = [state EXCEPT ![t] = "eSleeping"]
        /\ pc' = [pc EXCEPT ![t] = "yield"]
        /\ UNCHANGED <<kernelState, taskCount, priority, highestTaskPriority,
                       readyTasks, currentTask, tickCount, pendSV>>
        BY <1>6 DEF Sleep, Thread, AddSleepingTask, taskVars, cpuVars
  <2>2. state[t] = "eRunning" /\ t < taskCount
        BY <1>6, CallerRuns DEF Sleep
  <2>3. Awake' /\ BootsIdle' /\ OneRuns'
        BY <1>b, <2>1 DEF Awake, BootsIdle, OneRuns, Started, TypeOK
  <2>4. BitsOfReady'
        BY <1>b, <2>1, <2>2 DEF BitsOfReady, TypeOK
  <2>5. SleepersExact'
        BY <1>b, <2>1 DEF SleepersExact, TypeOK
  <2>6. FreshReady' /\ IdleStays' /\ FreshOut'
        BY <1>a, <1>b, <2>1, <2>2 DEF FreshReady, IdleStays, FreshOut, TypeOK, TaskId
  <2>7. NoSpinnerLost'
        BY <1>b, <2>1 DEF NoSpinnerLost, Started, Added, TypeOK
  <2>8. SelfWithoutBit' /\ CopyCurrent'
        BY <1>6, <1>a, <1>b, <2>1 DEF SelfWithoutBit, CopyCurrent, TypeOK
  <2>9. \A u \in TaskId : state'[u] = "eBlocked" <=> state[u] = "eBlocked"
        BY <1>b, <2>1, <2>2 DEF TypeOK
  <2> QED BY <1>d, <1>e, <2>3, <2>4, <2>5, <2>6, <2>7, <2>8, <2>9
<1>7. ASSUME NEW t \in TaskId, Yield(t)
      PROVE  SInv'
  <2>1. /\ Started /\ pc' = [pc EXCEPT ![t] = "yielded"]
        /\ UNCHANGED <<kernelState, taskCount, priority, highestTaskPriority, state,
                       readyTasks, sleepingTasksBitmap, taskWakeUpTimes, currentTask,
                       tickCount>>
        BY <1>7 DEF Yield, Thread, taskVars, readyVars, sleepVars
  <2>2. Awake' /\ BootsIdle'
        BY <1>a, <1>b, <2>1 DEF Awake, BootsIdle, Started, TypeOK
  <2>3. BitsOfReady' /\ SleepersExact' /\ FreshReady' /\ IdleStays' /\ OneRuns'
        BY <2>1 DEF BitsOfReady, SleepersExact, FreshReady, IdleStays, OneRuns
  <2>4. NoSpinnerLost'
        BY <2>1 DEF NoSpinnerLost, Started, Added
  <2>5. SelfWithoutBit' /\ CopyCurrent' /\ FreshOut'
        BY <1>a, <2>1 DEF SelfWithoutBit, CopyCurrent, FreshOut, Added
  <2> QED BY <1>d, <1>e, <2>1, <2>2, <2>3, <2>4, <2>5
<1> QED BY <1>1, <1>2, <1>3, <1>4, <1>5, <1>6, <1>7
        DEF KernelStep, ContextSwitch, SelectHighestPriorityTask

-----------------------------------------------------------------------------

\* A step of a running task that only moves it to another point of a call, and
\* none at all, leave the scheduler's part of the invariant alone.
LEMMA CallStep ==
    ASSUME SInv, NEW t \in TaskId, NEW x \in CallPoint \ {"readySelf", "storeSelf"},
           Thread(t), pc[t] = "run", call[t] # "storeSelf",
           UNCHANGED <<vars, readBits>>, call' = [call EXCEPT ![t] = x],
           SemTypeOK', WaitersBlocked', NoIdlePermit'
    PROVE  SInv'
<1> USE DEF SInv
<1>1. /\ state[t] = "eRunning" /\ t < taskCount /\ TypeOK
      /\ call \in [TaskId -> CallPoint]
      BY CallerRuns DEF SemTypeOK
<1>2. UNCHANGED <<kernelState, taskCount, priority, highestTaskPriority, state,
                  readyTasks, sleepingTasksBitmap, taskWakeUpTimes, currentTask,
                  tickCount, pendSV, pc>>
      BY DEF vars, taskVars, readyVars, sleepVars, cpuVars
<1>3. \A u \in TaskId : call'[u] = IF u = t THEN x ELSE call[u]
      BY <1>1
<1>6. Awake' /\ CopyCurrent'
      BY <1>1, <1>2, <1>3 DEF Awake, CopyCurrent, Added, Started, TypeOK, Thread
<1>7. FreshOut' /\ SelfWithoutBit'
      BY <1>1, <1>2, <1>3 DEF FreshOut, SelfWithoutBit, TypeOK, TaskId
<1>4. BitsOfReady' /\ SleepersExact' /\ FreshReady' /\ IdleStays' /\ OneRuns'
      BY <1>2 DEF BitsOfReady, SleepersExact, FreshReady, IdleStays, OneRuns
<1>5. NoSpinnerLost' /\ BootsIdle'
      BY <1>2 DEF NoSpinnerLost, BootsIdle, Added, Started
<1> QED BY <1>4, <1>5, <1>6, <1>7

\* Waiting tasks are made ready, and the caller, if it is a task, is about to
\* make itself ready.
LEMMA ReleaseStep ==
    ASSUME SInv, NEW S \in SUBSET ToSet(waitingQueue),
           SetTaskReady(S), Started, UnchangedByRelease,
           \/ call' = call
           \/ \E t \in Signallers : InCode(t) /\ call' = [call EXCEPT ![t] = "readySelf"],
           SemTypeOK', WaitersBlocked', NoIdlePermit'
    PROVE  SInv'
<1> USE Constants DEF SInv
<1>1. /\ state' = [u \in TaskId |-> IF u \in S THEN "eReady" ELSE state[u]]
      /\ readyTasks' = [p \in Priority |-> readyTasks[p] \cup {u \in S : priority[u] = p}]
      /\ UNCHANGED <<kernelState, taskCount, priority, highestTaskPriority,
                     sleepingTasksBitmap, taskWakeUpTimes, currentTask, tickCount,
                     pendSV, pc, readBits>>
      BY DEF SetTaskReady, UnchangedByRelease, taskVars, sleepVars, cpuVars
<1>2. TypeOK /\ call \in [TaskId -> CallPoint]
      BY DEF SemTypeOK
<1>3. \A t \in S : /\ t \in TaskId /\ state[t] = "eBlocked" /\ t < taskCount
                   /\ call[t] = "parked"
  <2>1. \A t \in ToSet(waitingQueue) :
            t \in TaskId /\ state[t] = "eBlocked" /\ call[t] = "parked"
        BY <1>2, QueuedTasks DEF WaitersBlocked
  <2>2. \A t \in TaskId : state[t] = "eBlocked" => t < taskCount
        BY <1>2 DEF FreshReady, TypeOK, TaskId
  <2> QED BY <2>1, <2>2
<1>4. \A t \in TaskId : \/ call'[t] = call[t]
                        \/ /\ call'[t] = "readySelf" /\ t \in Signallers
                           /\ call[t] = "out" /\ t < taskCount
  <2>1. \A t \in Signallers : InCode(t) => t < taskCount /\ t \in TaskId /\ call[t] = "out"
        BY CallerRuns, SemaphoreAssumption DEF InCode
  <2> QED BY <1>2, <2>1
<1>5. Awake' /\ BootsIdle' /\ OneRuns'
      BY <1>1, <1>2, <1>3, <1>4 DEF Awake, BootsIdle, OneRuns, Started, TypeOK
<1>6. BitsOfReady' /\ SleepersExact'
      BY <1>1, <1>2, <1>3 DEF BitsOfReady, SleepersExact, TypeOK
<1>7. FreshReady' /\ IdleStays' /\ FreshOut'
      BY <1>1, <1>2, <1>3, <1>4 DEF FreshReady, IdleStays, FreshOut, TypeOK, TaskId
<1>8. SelfWithoutBit'
      BY <1>1, <1>2, <1>3, <1>4 DEF SelfWithoutBit
<1>9. NoSpinnerLost' /\ CopyCurrent'
  <2>1. \A t \in TaskId : priority[t] \in Priority
        BY <1>2 DEF TypeOK
  <2>2. CopyCurrent'
        BY <1>1, <1>2, <1>4, <2>1 DEF CopyCurrent, Added, TypeOK
  <2>3. NoSpinnerLost'
        BY <1>1, <1>3, <2>1 DEF NoSpinnerLost, Started, Added
  <2> QED BY <2>2, <2>3
<1> QED BY <1>5, <1>6, <1>7, <1>8, <1>9

\* The queue after its first task left, or everybody.
LEMMA ReleaseQueue ==
    ASSUME SInv, Release \/ ReleaseAll
    PROVE  \/ /\ \E S \in SUBSET ToSet(waitingQueue) :
                    /\ SetTaskReady(S)
                    /\ ToSet(waitingQueue') = ToSet(waitingQueue) \ S
              /\ waitingQueue # <<>> /\ count' = count
              /\ waitingQueue' \in Seq(TaskId) /\ IsInjective(waitingQueue')
           \/ /\ waitingQueue' = <<>> /\ waitingQueue = <<>>
              /\ count' \in 0 .. MostPermits /\ UNCHANGED readyVars
<1>1. waitingQueue \in Seq(TaskId) /\ IsInjective(waitingQueue)
      /\ count \in 0 .. MostPermits
      BY DEF SInv, SemTypeOK
<1>2. CASE waitingQueue # <<>> /\ Release
  <2>1. /\ SetTaskReady({Head(waitingQueue)}) /\ waitingQueue' = Tail(waitingQueue)
        /\ count' = count
        BY <1>2 DEF Release
  <2>2. /\ Head(waitingQueue) \in ToSet(waitingQueue)
        /\ Tail(waitingQueue) \in Seq(TaskId)
        /\ ToSet(waitingQueue) = ToSet(Tail(waitingQueue)) \cup {Head(waitingQueue)}
        /\ IsInjective(Tail(waitingQueue))
        /\ Head(waitingQueue) \notin ToSet(Tail(waitingQueue))
        BY <1>1, <1>2, QueueTail
  <2>3. {Head(waitingQueue)} \in SUBSET ToSet(waitingQueue)
        BY <2>2
  <2>4. ToSet(waitingQueue') = ToSet(waitingQueue) \ {Head(waitingQueue)}
        BY <2>1, <2>2
  <2> QED BY <1>2, <2>1, <2>2, <2>3, <2>4
<1>3. CASE waitingQueue = <<>> /\ Release
  <2>1. count' \in 0 .. MostPermits
        BY <1>1, <1>3, PermitRange DEF Release
  <2> QED BY <1>3, <2>1 DEF Release
<1>4. CASE ReleaseAll
  <2>1. ToSet(waitingQueue') = ToSet(waitingQueue) \ ToSet(waitingQueue)
        BY <1>4, NobodyQueued DEF ReleaseAll
  <2> QED BY <1>4, <2>1, NobodyQueued DEF ReleaseAll
<1> QED BY <1>2, <1>3, <1>4

\* signal and flush, from a task or from an interrupt handler.
LEMMA SignalStep ==
    ASSUME SInv, Release \/ ReleaseAll, Started, UnchangedByRelease,
           \/ call' = call
           \/ \E t \in Signallers : InCode(t) /\ call' = [call EXCEPT ![t] = "readySelf"]
    PROVE  SInv'
<1> USE DEF SInv
<1>1. /\ TypeOK /\ call \in [TaskId -> CallPoint]
      /\ UNCHANGED <<taskVars, sleepVars, cpuVars, tickCount, pc, ticksTimeout, end, readBits>>
      BY DEF SemTypeOK, UnchangedByRelease
<1>2. /\ call' \in [TaskId -> CallPoint]
      /\ \A t \in TaskId : call[t] = "parked" => call'[t] = "parked"
      BY <1>1 DEF CallPoint, InCode
<1>3. CASE waitingQueue' = <<>> /\ waitingQueue = <<>> /\ count' \in 0 .. MostPermits
           /\ UNCHANGED readyVars
  <2>1. SetTaskReady({})
    <3>1. /\ state = [u \in TaskId |-> state[u]]
          /\ readyTasks = [p \in Priority |-> readyTasks[p]]
          BY <1>1 DEF TypeOK
    <3> QED BY <1>3, <3>1 DEF SetTaskReady, readyVars
  <2>2. TypeOK'
        BY <1>1, <1>3 DEF TypeOK, taskVars, sleepVars, cpuVars, readyVars
  <2>3. SemTypeOK' /\ WaitersBlocked' /\ NoIdlePermit'
        BY <1>1, <1>2, <1>3, <2>2 DEF SemTypeOK, WaitersBlocked, NoIdlePermit, readyVars
  <2> QED BY <2>1, <2>3, ReleaseStep
<1>4. CASE /\ \E S \in SUBSET ToSet(waitingQueue) :
                 SetTaskReady(S) /\ ToSet(waitingQueue') = ToSet(waitingQueue) \ S
           /\ waitingQueue # <<>> /\ count' = count
           /\ waitingQueue' \in Seq(TaskId) /\ IsInjective(waitingQueue')
  <2>1. PICK S \in SUBSET ToSet(waitingQueue) :
               SetTaskReady(S) /\ ToSet(waitingQueue') = ToSet(waitingQueue) \ S
        BY <1>4
  <2>2. S \in SUBSET TaskId
        BY QueuedTasks
  <2>3. TypeOK'
        BY <1>1, <2>1, <2>2, ReleaseKeepsType DEF cpuVars, TypeOK
  <2>4. SemTypeOK'
        BY <1>1, <1>2, <1>4, <2>3 DEF SemTypeOK
  <2>5. WaitersBlocked'
        BY <1>1, <1>2, <2>1, <2>2 DEF WaitersBlocked, SetTaskReady, TypeOK
  <2>6. NoIdlePermit'
        BY <1>4 DEF NoIdlePermit
  <2> QED BY <2>1, <2>4, <2>5, <2>6, ReleaseStep
<1> QED BY <1>3, <1>4, ReleaseQueue

\* Queueing the caller, which runs and so is not queued yet.
LEMMA ParkStep ==
    ASSUME Spinners # {}, SInv, NEW t \in TaskId, Park(t)
    PROVE  SInv'
<1> USE Constants DEF SInv
<1>1. /\ state[t] = "eRunning" /\ t < taskCount /\ currentTask = t /\ t # Idle
      /\ Started /\ TypeOK /\ call \in [TaskId -> CallPoint]
      BY CallerRuns DEF SemTypeOK, Park, At
<1>2. Block(t) /\ t \notin Spinners /\ pc[t] = "run" /\ count = 0 /\ call[t] = "entry"
      BY DEF Park, Block, At
<1>3. /\ readyTasks' = readyTasks
      /\ state' = [state EXCEPT ![t] = "eBlocked"]
      /\ pc' = [pc EXCEPT ![t] = "yield"]
      /\ UNCHANGED <<kernelState, taskCount, priority, highestTaskPriority,
                     sleepingTasksBitmap, taskWakeUpTimes, currentTask, tickCount,
                     pendSV>>
      BY <1>1, <1>2 DEF Block, ResetTaskReady, taskVars, sleepVars, cpuVars, TypeOK
<1>4. /\ call' = [call EXCEPT ![t] = "parked"]
      /\ waitingQueue' = Append(waitingQueue, t)
      /\ UNCHANGED <<count, ticksTimeout, end, readBits>>
      BY DEF Park, Goto
<1>5. t \notin ToSet(waitingQueue)
      BY <1>1 DEF WaitersBlocked
<1>6. /\ waitingQueue' \in Seq(TaskId) /\ IsInjective(waitingQueue')
      /\ ToSet(waitingQueue') = ToSet(waitingQueue) \cup {t}
  <2>1. waitingQueue \in Seq(TaskId) /\ IsInjective(waitingQueue)
        BY DEF SemTypeOK
  <2> QED BY <1>4, <1>5, <2>1, QueueAppend
<1>7. TypeOK'
      BY <1>1, <1>2, TypeStep DEF Next
<1>8. SemTypeOK'
      BY <1>1, <1>4, <1>6, <1>7 DEF SemTypeOK, CallPoint
<1>9. WaitersBlocked' /\ NoIdlePermit'
      BY <1>1, <1>2, <1>3, <1>4, <1>6 DEF WaitersBlocked, NoIdlePermit, TypeOK
<1>10. Awake' /\ BootsIdle' /\ OneRuns'
      BY <1>1, <1>3 DEF Awake, BootsIdle, OneRuns, Started, TypeOK
<1>11. BitsOfReady' /\ SleepersExact'
      BY <1>1, <1>3 DEF BitsOfReady, SleepersExact, TypeOK
<1>12. FreshReady' /\ IdleStays' /\ FreshOut'
      BY <1>1, <1>3, <1>4 DEF FreshReady, IdleStays, FreshOut, TypeOK, TaskId
<1>13. NoSpinnerLost'
      BY <1>1, <1>2, <1>3 DEF NoSpinnerLost, Started, Added, TypeOK
<1>14. SelfWithoutBit' /\ CopyCurrent'
      BY <1>1, <1>2, <1>3, <1>4 DEF SelfWithoutBit, CopyCurrent
<1> QED BY <1>8, <1>9, <1>10, <1>11, <1>12, <1>13, <1>14

\* The caller is marked ready and has no bit: the bits it read do not name it,
\* and all the spinners of its level are among them, since it has the processor.
LEMMA MarkSelfStep ==
    ASSUME SInv, NEW t \in TaskId, MarkSelf(t)
    PROVE  SInv'
<1> USE Constants DEF SInv
<1>1. /\ state[t] = "eRunning" /\ t < taskCount /\ currentTask = t /\ t # Idle
      /\ Started /\ TypeOK /\ call \in [TaskId -> CallPoint]
      /\ readBits \in [TaskId -> SUBSET TaskId] /\ call[t] = "readySelf" /\ pc[t] = "run"
      BY CallerRuns DEF SemTypeOK, MarkSelf, At
<1>2. /\ state' = [state EXCEPT ![t] = "eReady"]
      /\ readBits' = [readBits EXCEPT ![t] = readyTasks[priority[t]]]
      /\ call' = [call EXCEPT ![t] = "storeSelf"]
      /\ UNCHANGED <<kernelState, taskCount, priority, highestTaskPriority, readyTasks,
                     priorityBitmap, sleepingTasksBitmap, taskWakeUpTimes, currentTask,
                     tickCount, pendSV, pc, count, waitingQueue, ticksTimeout, end>>
      BY DEF MarkSelf, Goto, taskVars, sleepVars, cpuVars, semVars
<1>3. t \in Signallers /\ t \notin Spinners
      BY <1>1, SemaphoreAssumption DEF SelfWithoutBit
<1>4. SemTypeOK'
  <2>1. /\ state' \in [TaskId -> TaskStateType]
        /\ readBits' \in [TaskId -> SUBSET TaskId]
        /\ call' \in [TaskId -> CallPoint]
        BY <1>1, <1>2 DEF TypeOK, TaskStateType, CallPoint
  <2> QED BY <1>1, <1>2, <2>1 DEF SemTypeOK, TypeOK
<1>5. WaitersBlocked' /\ NoIdlePermit'
      BY <1>1, <1>2 DEF WaitersBlocked, NoIdlePermit, TypeOK
<1>6. Awake' /\ BootsIdle' /\ OneRuns'
      BY <1>1, <1>2 DEF Awake, BootsIdle, OneRuns, Started, TypeOK
<1>7. BitsOfReady' /\ SleepersExact'
      BY <1>1, <1>2 DEF BitsOfReady, SleepersExact, TypeOK
<1>8. FreshReady' /\ IdleStays' /\ FreshOut'
      BY <1>1, <1>2 DEF FreshReady, IdleStays, FreshOut, TypeOK, TaskId
<1>9. NoSpinnerLost'
      BY <1>1, <1>2, <1>3 DEF NoSpinnerLost, Started, Added, TypeOK
<1>10. SelfWithoutBit'
      BY <1>1, <1>2, <1>3 DEF SelfWithoutBit, BitsOfReady, TypeOK
<1>11. CopyCurrent'
      BY <1>1, <1>2, <1>3 DEF CopyCurrent, NoSpinnerLost, Added, TypeOK
<1> QED BY <1>4, <1>5, <1>6, <1>7, <1>8, <1>9, <1>10, <1>11

\* The write may take away the bits of tasks made ready since the read, but it
\* sets none that is not due, and keeps those of the spinners.
LEMMA StoreSelfStep ==
    ASSUME SInv, NEW t \in TaskId, StoreSelf(t)
    PROVE  SInv'
<1> USE Constants DEF SInv
<1>1. /\ currentTask = t /\ t # Idle /\ Started /\ TypeOK
      /\ call \in [TaskId -> CallPoint]
      /\ readBits \in [TaskId -> SUBSET TaskId] /\ call[t] = "storeSelf"
      BY DEF SemTypeOK, StoreSelf, At, Thread
<1>2. /\ readyTasks' = [readyTasks EXCEPT ![priority[t]] = readBits[t] \cup {t}]
      /\ priorityBitmap' = priorityBitmap \cup {priority[t]}
      /\ readBits' = [readBits EXCEPT ![t] = {}]
      /\ call' = [call EXCEPT ![t] = "out"]
      /\ pc' = [pc EXCEPT ![t] = "yield"]
      /\ UNCHANGED <<kernelState, taskCount, priority, highestTaskPriority, state,
                     sleepingTasksBitmap, taskWakeUpTimes, currentTask,
                     tickCount, pendSV, count, waitingQueue, ticksTimeout, end>>
      BY DEF StoreSelf, Goto, taskVars, sleepVars, cpuVars, semVars
<1>3. /\ t \in Signallers /\ t \notin Spinners /\ state[t] = "eReady"
      /\ priority[t] \in Priority
      BY <1>1, SemaphoreAssumption DEF SelfWithoutBit, TypeOK
<1>4. t < taskCount
      BY <1>1 DEF FreshOut, TypeOK, TaskId
<1>5. /\ readBits[t] \subseteq readyTasks[priority[t]]
      /\ \A s \in Spinners \cap Added : priority[s] = priority[t] => s \in readBits[t]
      BY <1>1 DEF CopyCurrent
<1>6. SemTypeOK'
  <2>1. /\ readyTasks' \in [Priority -> SUBSET TaskId]
        /\ priorityBitmap' \in SUBSET Priority
        /\ readBits' \in [TaskId -> SUBSET TaskId]
        /\ call' \in [TaskId -> CallPoint] /\ pc' \in [TaskId -> ThreadPoint]
        BY <1>1, <1>2, <1>3 DEF TypeOK, CallPoint, ThreadPoint
  <2> QED BY <1>1, <1>2, <2>1 DEF SemTypeOK, TypeOK
<1>7. WaitersBlocked' /\ NoIdlePermit'
      BY <1>1, <1>2, <1>3 DEF WaitersBlocked, NoIdlePermit, TypeOK
<1>8. Awake' /\ BootsIdle' /\ OneRuns'
      BY <1>1, <1>2 DEF Awake, BootsIdle, OneRuns, Started, TypeOK
<1>9. \A u \in TaskId, p \in Priority :
          u \in readyTasks'[p] => u \in readyTasks[p] \/ (u = t /\ p = priority[t])
      BY <1>1, <1>2, <1>5 DEF TypeOK
<1>10. BitsOfReady' /\ SleepersExact'
      BY <1>2, <1>3, <1>4, <1>9 DEF BitsOfReady, SleepersExact
<1>11. FreshReady' /\ IdleStays' /\ FreshOut'
      BY <1>1, <1>2, <1>4 DEF FreshReady, IdleStays, FreshOut, TypeOK, TaskId
<1>12. NoSpinnerLost'
  <2>1. \A s \in Spinners \cap Added : s \in TaskId /\ priority[s] \in Priority
        BY <1>1 DEF TypeOK
  <2>2. \A s \in Spinners \cap Added :
            s \in readyTasks[priority[s]] => s \in readyTasks'[priority[s]]
        BY <1>1, <1>2, <1>5, <2>1 DEF TypeOK
  <2> QED BY <1>2, <2>1, <2>2 DEF NoSpinnerLost, Started, Added
<1>13. SelfWithoutBit' /\ CopyCurrent'
      BY <1>1, <1>2, <1>9 DEF SelfWithoutBit, CopyCurrent
<1> QED BY <1>6, <1>7, <1>8, <1>10, <1>11, <1>12, <1>13

LEMMA SInvStep ==
    ASSUME Spinners # {}, SInv, [SemNext]_allVars
    PROVE  SInv'
<1> USE DEF SInv
<1>1. /\ TypeOK /\ call \in [TaskId -> CallPoint] /\ count \in 0 .. MostPermits
      /\ ticksTimeout \in [TaskId -> Timeouts \cup {0, WAIT_FOREVER}]
      /\ end \in [TaskId -> Nat] /\ tickCount \in Nat
      BY Constants DEF SemTypeOK, TypeOK
\* The steps of a running task that change nothing of the scheduler.
<1>2. ASSUME NEW t \in TaskId, NEW x \in CallPoint \ {"readySelf", "storeSelf"},
             Thread(t), pc[t] = "run", call[t] # "storeSelf",
             UNCHANGED <<vars, waitingQueue, readBits>>, Goto(t, x),
             ticksTimeout' \in [TaskId -> Timeouts \cup {0, WAIT_FOREVER}],
             end' \in [TaskId -> Nat], count' \in 0 .. MostPermits,
             count' <= count
      PROVE  SInv'
  <2>1. /\ state[t] = "eRunning" /\ state' = state
        /\ call' = [call EXCEPT ![t] = x]
        BY <1>2, CallerRuns DEF Goto, vars, readyVars
  <2>2. TypeOK'
        BY <1>1, <1>2, TypeStep
  <2>3. SemTypeOK' /\ WaitersBlocked' /\ NoIdlePermit'
        BY <1>1, <1>2, <2>1, <2>2, PermitRange DEF SemTypeOK, WaitersBlocked, NoIdlePermit
  <2> QED BY <1>2, <2>1, <2>3, CallStep
<1>3. ASSUME NEW t \in TaskId, NEW n \in Timeouts \cup {WAIT_FOREVER}, BeginWait(t, n)
      PROVE  SInv'
  <2>1. /\ ticksTimeout' \in [TaskId -> Timeouts \cup {0, WAIT_FOREVER}]
        /\ end' \in [TaskId -> Nat]
        BY <1>1, <1>3, SemaphoreAssumption DEF BeginWait
  <2>2. UNCHANGED <<count, waitingQueue>> /\ count' <= count
        BY <1>1, <1>3, PermitRange DEF BeginWait, semVars
  <2> QED BY <1>1, <1>2, <1>3, <2>1, <2>2 DEF BeginWait, InCode, CallPoint
<1>4. ASSUME NEW t \in TaskId, ForgetArguments(t)
      PROVE  /\ ticksTimeout' \in [TaskId -> Timeouts \cup {0, WAIT_FOREVER}]
             /\ end' \in [TaskId -> Nat]
      BY <1>1, <1>4 DEF ForgetArguments
<1>5. ASSUME NEW t \in TaskId, TakePermit(t)
      PROVE  SInv'
  <2>1. count' \in 0 .. MostPermits /\ count' <= count
        BY <1>1, <1>5, PermitRange DEF TakePermit
  <2> QED BY <1>1, <1>2, <1>4, <1>5, <2>1 DEF TakePermit, At, CallPoint
<1>6. ASSUME NEW t \in TaskId, GiveUp(t) \/ ReturnFromWait(t)
      PROVE  SInv'
  <2>1. UNCHANGED <<count, waitingQueue>> /\ count' <= count
        BY <1>1, <1>6, PermitRange DEF GiveUp, ReturnFromWait, semVars
  <2> QED BY <1>1, <1>2, <1>4, <1>6, <2>1 DEF GiveUp, ReturnFromWait, At, CallPoint
<1>7. ASSUME NEW t \in TaskId, SignalFromTask(t) \/ FlushFromTask(t)
      PROVE  SInv'
      BY <1>7, SignalStep DEF SignalFromTask, FlushFromTask, Goto, InCode, Thread
<1>8. CASE SignalFromISR \/ FlushFromISR
      BY <1>8, SignalStep DEF SignalFromISR, FlushFromISR
<1>9. CASE UNCHANGED allVars
  <2>1. UNCHANGED <<kernelState, taskCount, priority, highestTaskPriority, state,
                    readyTasks, priorityBitmap, sleepingTasksBitmap, taskWakeUpTimes,
                    currentTask, tickCount, pendSV, pc, count, waitingQueue, call,
                    ticksTimeout, end, readBits>>
        BY <1>9 DEF allVars, vars, taskVars, readyVars, sleepVars, cpuVars, semVars,
                    callVars
  <2>2. SemTypeOK' /\ WaitersBlocked' /\ NoIdlePermit'
        BY <2>1 DEF SemTypeOK, TypeOK, WaitersBlocked, NoIdlePermit
  <2>3. Awake' /\ BitsOfReady' /\ SleepersExact' /\ NoSpinnerLost' /\ BootsIdle'
        BY <2>1 DEF Awake, BitsOfReady, SleepersExact, NoSpinnerLost, BootsIdle,
                    Started, Added
  <2>4. FreshReady' /\ IdleStays' /\ OneRuns' /\ SelfWithoutBit' /\ FreshOut' /\ CopyCurrent'
        BY <2>1 DEF FreshReady, IdleStays, OneRuns, SelfWithoutBit, FreshOut,
                    CopyCurrent, Added
  <2> QED BY <2>2, <2>3, <2>4
<1> QED BY <1>3, <1>5, <1>6, <1>7, <1>8, <1>9, SchedulerStep, ParkStep, MarkSelfStep,
           StoreSelfStep DEF SemNext, SemStep

LEMMA SemInvariance ==
    ASSUME Spinners # {}
    PROVE  SemSpec => []SInv
<1>1. SemInit => SInv
      BY SInvInit
<1>2. SInv /\ [SemNext]_allVars => SInv'
      BY SInvStep
<1> QED BY <1>1, <1>2, PTL DEF SemSpec

\* Every field stays in its range, and the queue never holds a task twice, so
\* that MAX_TASKS slots are enough for it.
THEOREM SemTypeCorrect ==
    ASSUME Spinners # {}
    PROVE  SemSpec => []SemTypeOK
<1>1. SInv => SemTypeOK
      BY DEF SInv
<1> QED BY <1>1, SemInvariance, PTL

\* Although ready bits are lost, a task is blocked exactly while it is queued,
\* and it is inside wait then.
THEOREM SemWaitersStayBlocked ==
    ASSUME Spinners # {}
    PROVE  SemSpec => []WaitersBlocked
<1>1. SInv => WaitersBlocked
      BY DEF SInv
<1> QED BY <1>1, SemInvariance, PTL

\* No permit lies unused while a task waits for one.
THEOREM NoPermitLiesIdle ==
    ASSUME Spinners # {}
    PROVE  SemSpec => []NoIdlePermit
<1>1. SInv => NoIdlePermit
      BY DEF SInv
<1> QED BY <1>1, SemInvariance, PTL

-----------------------------------------------------------------------------
(***************************************************************************)
(* The semaphore implements AbstractSemaphore.                             *)
(***************************************************************************)
LEMMA PermitsInit == SemInit => Permits!Init
BY DEF SemInit, Permits!Init

\* Each step is one abstract step or none.
LEMMA PermitsStep ==
    ASSUME SInv, [SemNext]_allVars
    PROVE  [Permits!Next]_(Permits!vars)
<1> USE DEF SInv
<1> DEFINE in  == {t \in TaskId : call[t] = "parked"}
           lim == {t \in TaskId : call[t] = "parked" /\ ticksTimeout[t] # WAIT_FOREVER}
<1>1. /\ call \in [TaskId -> CallPoint] /\ count \in Nat
      /\ ticksTimeout \in [TaskId -> Timeouts \cup {0, WAIT_FOREVER}]
      BY PermitRange DEF SemTypeOK
\* Another point of its call, where the arguments may be set and forgotten.
<1>2. ASSUME NEW t \in TaskId, NEW x \in CallPoint \ {"parked"}, Goto(t, x),
             \A u \in TaskId \ {t} : ticksTimeout'[u] = ticksTimeout[u]
      PROVE  in' = in \ {t} /\ lim' = lim \ {t}
      BY <1>1, <1>2 DEF Goto
<1>3. ASSUME NEW t \in TaskId, NEW x \in CallPoint \ {"parked"}, Goto(t, x),
             call[t] # "parked",
             \A u \in TaskId \ {t} : ticksTimeout'[u] = ticksTimeout[u]
      PROVE  in' = in /\ lim' = lim
      BY <1>2, <1>3
<1>4. ASSUME NEW t \in TaskId,
             \/ UNCHANGED ticksTimeout
             \/ ForgetArguments(t)
             \/ \E n : ticksTimeout' = [ticksTimeout EXCEPT ![t] = n]
      PROVE  \A u \in TaskId \ {t} : ticksTimeout'[u] = ticksTimeout[u]
      BY <1>1, <1>4 DEF ForgetArguments
<1>5. CASE KernelStep \/ UNCHANGED allVars
      BY <1>5 DEF KernelStep, allVars, callVars, semVars, Permits!vars
<1>6. ASSUME NEW t \in TaskId,
             \/ \E n \in Timeouts \cup {WAIT_FOREVER} : BeginWait(t, n)
             \/ GiveUp(t) \/ MarkSelf(t) \/ StoreSelf(t)
      PROVE  UNCHANGED Permits!vars
  <2>1. \A u \in TaskId \ {t} : ticksTimeout'[u] = ticksTimeout[u]
        BY <1>4, <1>6 DEF BeginWait, GiveUp, MarkSelf, StoreSelf
  <2>2. in' = in /\ lim' = lim
        BY <1>3, <1>6, <2>1 DEF BeginWait, GiveUp, MarkSelf, StoreSelf, InCode, At, CallPoint
  <2> QED BY <1>6, <2>2 DEF BeginWait, GiveUp, MarkSelf, StoreSelf, semVars, Permits!vars
<1>7. ASSUME NEW t \in TaskId, TakePermit(t)
      PROVE  Permits!Take
  <2>1. in' = in /\ lim' = lim
        BY <1>3, <1>4, <1>7 DEF TakePermit, At, CallPoint
  <2> QED BY <1>7, <2>1 DEF TakePermit, Permits!Take
<1>8. ASSUME NEW t \in TaskId, Park(t)
      PROVE  Permits!Queue(t)
  <2>1. in' = in \cup {t} /\ t \notin in
        BY <1>1, <1>8 DEF Park, Goto, At
  <2>2. lim' \in {lim, lim \cup {t}}
    <3>1. lim' = IF ticksTimeout[t] = WAIT_FOREVER THEN lim ELSE lim \cup {t}
          BY <1>1, <1>8 DEF Park, Goto, At
    <3> QED BY <3>1
  <2> QED BY <1>8, <2>1, <2>2 DEF Park, At, Permits!Queue
<1>9. ASSUME NEW t \in TaskId, ReturnFromWait(t)
      PROVE  Permits!Leave(t)
  <2>1. in' = in \ {t} /\ lim' = lim \ {t} /\ t \in in
        BY <1>1, <1>2, <1>4, <1>9 DEF ReturnFromWait, At, CallPoint
  <2>2. t \notin ToSet(waitingQueue)
        BY <1>9, CallerRuns DEF ReturnFromWait, At, WaitersBlocked
  <2>3. t \notin Permits!ToSet(waitingQueue)
        BY <2>2 DEF ToSet, Permits!ToSet
  <2> QED BY <1>9, <2>1, <2>3 DEF ReturnFromWait, semVars, Permits!Leave, Permits!Return
<1>10. ASSUME Release \/ ReleaseAll, UNCHANGED ticksTimeout,
              call' = call \/ \E t \in TaskId : InCode(t) /\ Goto(t, "readySelf")
       PROVE  Permits!Signal \/ Permits!Flush
  <2>1. in' = in /\ lim' = lim
        BY <1>3, <1>10 DEF InCode, CallPoint
  <2> QED BY <1>10, <2>1 DEF Release, ReleaseAll, Permits!Signal, Permits!Flush
<1> QED BY <1>5, <1>6, <1>7, <1>8, <1>9, <1>10
        DEF SemNext, SemStep, SignalFromTask, FlushFromTask, SignalFromISR,
            FlushFromISR, UnchangedByRelease, Permits!Next

\* Nobody returns with Success while still in line, and signals serve the callers
\* in their order of arrival.
THEOREM SemaphoreImplementsPermits ==
    ASSUME Spinners # {}
    PROVE  SemSpec => ImplementsPermits
<1>1. SemInit => Permits!Init
      BY PermitsInit
<1>2. SInv /\ [SemNext]_allVars => [Permits!Next]_(Permits!vars)
      BY PermitsStep
<1> QED BY <1>1, <1>2, SemInvariance, PTL DEF SemSpec, Permits!Spec, ImplementsPermits

=============================================================================

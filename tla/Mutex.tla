-------------------------------- MODULE Mutex -------------------------------
(***************************************************************************)
(* A mutex that lends the level of a waiting task to its owner             *)
(* (Source/Mutex.cpp) on the scheduler of Kernel.tla.  It is the first     *)
(* object that changes the level of a task after it was added, while the   *)
(* task's ready bit may be set at the old level.                           *)
(*                                                                         *)
(* acquire is a loop of critical sections, each one step, with a yield in  *)
(* between; `call' is "trying" from the computation of the deadline to the *)
(* return.  A call on a mutex the caller owns (AlreadyOwned) and a release *)
(* by anybody else (NotOwner, or Success of a free mutex) change nothing.  *)
(*                                                                         *)
(* The call that takes the mutex enters a critical section twice and leaves*)
(* it once.  A port whose exitCritical ends the section, which is what     *)
(* Interface.hpp says of it, forgets the second call.  One that counts     *)
(* nested sections, as the Cortex-M7 port does, keeps the mask up from then*)
(* on (MaskStays): no exception is taken any more.  What the owner does    *)
(* there after its next yield, which returns at once, is not followed.     *)
(***************************************************************************)
EXTENDS Kernel, Sequences, SequencesExt

CONSTANTS
    Nobody,             \* the null pointer
    Timeouts,           \* the finite arguments of acquire
    WAIT_FOREVER,       \* the other one
    MaskStays           \* whether the port counts nested critical sections

ASSUME MutexAssumption ==
    /\ Nobody \notin TaskId
    /\ Timeouts \subseteq Nat /\ WAIT_FOREVER \notin Nat
    /\ MaskStays \in BOOLEAN

VARIABLES
    count,          \* Mutex::count
    owner,          \* Mutex::owner
    blockedTasks,   \* Mutex::blockedTasks
    basePriority,   \* TaskData::basePriority, by task id
    call,           \* whether a task is inside acquire
    end,            \* the local variable of acquire, or WAIT_FOREVER
    masked,         \* interrupts stay masked outside critical sections
    destroyed,      \* the destructor has run
    holders         \* history: who was told Success and has not released

mutexVars == <<count, owner, blockedTasks>>
callVars  == <<call, end>>
ownVars   == <<mutexVars, callVars, masked, destroyed, holders>>
allVars   == <<vars, basePriority, ownVars>>

MutexInit ==
    /\ Init
    /\ count = 0 /\ owner = Nobody /\ blockedTasks = <<>>
    /\ basePriority = priority
    /\ call = [t \in TaskId |-> "out"]
    /\ end = [t \in TaskId |-> 0]
    /\ masked = FALSE
    /\ destroyed = FALSE
    /\ holders = {}

InCode(t) == Thread(t) /\ pc[t] = "run" /\ call[t] = "out"
Trying(t) == Thread(t) /\ pc[t] = "run" /\ call[t] = "trying" /\ ~destroyed

Return(t) ==
    /\ call' = [call EXCEPT ![t] = "out"]
    /\ end' = [end EXCEPT ![t] = 0]

-----------------------------------------------------------------------------
(***************************************************************************)
(* acquire.                                                                *)
(***************************************************************************)

\* The deadline is computed before the critical section: ticks pass between.
BeginAcquire(t, n) ==
    /\ InCode(t) /\ t \notin Spinners /\ ~destroyed
    /\ owner # t
    /\ call' = [call EXCEPT ![t] = "trying"]
    /\ end' = [end EXCEPT ![t] = IF n = WAIT_FOREVER THEN n ELSE n + tickCount]
    /\ UNCHANGED <<vars, basePriority, mutexVars, masked, destroyed, holders>>

\* Fault: off by one.
FreeByOne == count <= 1

Free == count <= 0

\* The second enterCritical is never taken back.
Take(t) ==
    /\ Trying(t) /\ Free
    /\ count' = count + 1
    /\ owner' = t /\ holders' = holders \cup {t}
    /\ masked' = MaskStays
    /\ Return(t)
    /\ UNCHANGED <<vars, basePriority, blockedTasks, destroyed>>

Expired(t) == end[t] # WAIT_FOREVER /\ tickCount > end[t]

\* Returns Timeout.
GiveUp(t) ==
    /\ Trying(t) /\ ~Free /\ Expired(t)
    /\ Return(t)
    /\ UNCHANGED <<vars, basePriority, mutexVars, masked, destroyed, holders>>

\* TaskData::setPriority: both levels change, and no ready bit is moved.
SetPriority(o, p) ==
    /\ priority' = [priority EXCEPT ![o] = p]
    /\ basePriority' = [basePriority EXCEPT ![o] = p]

\* An owner less urgent than the caller gets the caller's level.
LendPriority(t) ==
    IF priority[t] < priority[owner]
    THEN SetPriority(owner, priority[t])
    ELSE UNCHANGED <<priority, basePriority>>

WaitOn(t) ==
    /\ Trying(t) /\ ~Free /\ ~Expired(t)
    /\ LendPriority(t)
    /\ IF Len(blockedTasks) < MAX_TASKS
       THEN /\ IF state[t] = "eRunning"
               THEN ResetTaskReady(t, "eBlocked")
               ELSE UNCHANGED readyVars
            /\ blockedTasks' = Append(blockedTasks, t)
       ELSE UNCHANGED <<readyVars, blockedTasks>>
    /\ pc' = [pc EXCEPT ![t] = "yield"]
    /\ UNCHANGED <<kernelState, taskCount, highestTaskPriority, sleepVars, cpuVars,
                   tickCount, count, owner, callVars, masked, destroyed,
                   holders>>

-----------------------------------------------------------------------------
(***************************************************************************)
(* release and the destructor.                                             *)
(***************************************************************************)

\* It reads the buffer from slot 0 whatever its head, so it may pass over a
\* waiting task and meet one that has left: any answer.
isAnyTaskBlocking == BOOLEAN

\* resetPriority copies the base level, which setPriority has changed together
\* with the level.
RestorePriority(t) ==
    \E blocking \in isAnyTaskBlocking :
        priority' = IF blocking THEN priority
                    ELSE [priority EXCEPT ![t] = basePriority[t]]

\* Faults: the task stays queued; the last one to come is taken; the task is
\* not made ready; nobody is let go.
WakeFirstQueued == SetTaskReady({Head(blockedTasks)}) /\ UNCHANGED blockedTasks
WakeLast ==
    SetTaskReady({Last(blockedTasks)}) /\ blockedTasks' = Front(blockedTasks)
WakeSilently == blockedTasks' = Tail(blockedTasks) /\ UNCHANGED readyVars
WakeNobody == UNCHANGED <<readyVars, blockedTasks>>

WakeFirst == SetTaskReady({Head(blockedTasks)}) /\ blockedTasks' = Tail(blockedTasks)

Release(t) ==
    /\ InCode(t) /\ ~destroyed
    /\ owner = t
    /\ count' = count - 1
    /\ owner' = Nobody /\ holders' = holders \ {t}
    /\ IF blockedTasks # <<>>
       THEN WakeFirst /\ RestorePriority(t)
       ELSE UNCHANGED <<readyVars, blockedTasks, priority>>
    /\ pc' = [pc EXCEPT ![t] = "yield"]
    /\ UNCHANGED <<kernelState, taskCount, highestTaskPriority, basePriority,
                   sleepVars, cpuVars, tickCount, callVars, masked, destroyed>>

\* The destructor changes the states of the waiting tasks and not the ready
\* list.  What happens to a destroyed mutex is not modelled.
Destroy(t) ==
    /\ InCode(t) /\ ~destroyed
    /\ state' = [u \in TaskId |-> IF u \in ToSet(blockedTasks) THEN "eReady"
                                  ELSE state[u]]
    /\ blockedTasks' = <<>>
    /\ destroyed' = TRUE
    /\ UNCHANGED <<taskVars, readyTasks, priorityBitmap, sleepVars, cpuVars, tickCount,
                   pc, basePriority, count, owner, callVars, masked, holders>>

-----------------------------------------------------------------------------

\* The scheduler's own steps, and what tasks do outside the mutex.  Both
\* exceptions are masked by a critical section.
KernelStep ==
    /\ \/ Start
       \/ ~masked /\ Tick
       \/ ~masked /\ ContextSwitch
       \/ \E t \in TaskId, n \in SleepTicks : Sleep(t, n) /\ call[t] = "out"
       \/ \E t \in TaskId : Yield(t) /\ (pc[t] = "yield" \/ call[t] = "out")
    /\ UNCHANGED <<basePriority, ownVars>>

AddMutexTask(p) ==
    /\ AddTask(p) /\ call[currentTask] = "out"
    /\ basePriority' = [basePriority EXCEPT ![taskCount] = p]
    /\ UNCHANGED ownVars

MutexStep(t) ==
    \/ \E n \in Timeouts \cup {WAIT_FOREVER} : BeginAcquire(t, n)
    \/ Take(t) \/ GiveUp(t) \/ WaitOn(t) \/ Release(t) \/ Destroy(t)

MutexNext ==
    \/ KernelStep
    \/ \E p \in Priority : AddMutexTask(p)
    \/ \E t \in TaskId : MutexStep(t)

MutexSpec == MutexInit /\ [][MutexNext]_allVars

-----------------------------------------------------------------------------
(***************************************************************************)
(* Properties.                                                             *)
(***************************************************************************)

\* The type invariant; the queue never holds a task twice, so its MAX_TASKS
\* slots are enough.
MutexTypeOK ==
    /\ TypeOK
    /\ count \in {0, 1}
    /\ owner \in TaskId \cup {Nobody}
    /\ blockedTasks \in Seq(TaskId) /\ IsInjective(blockedTasks)
    /\ basePriority \in [TaskId -> Priority]
    /\ call \in [TaskId -> {"out", "trying"}]
    /\ end \in [TaskId -> Nat \cup {WAIT_FOREVER}]
    /\ masked \in BOOLEAN
    /\ destroyed \in BOOLEAN
    /\ holders \subseteq TaskId

\* At most one task has been told Success and has not released the mutex
\* since, and count and owner, tested by different calls, both speak of it.
OneHolder ==
    /\ holders = {owner} \ {Nobody}
    /\ count = Cardinality(holders)

\* The mutex and the scheduler agree on who waits: a task is blocked exactly
\* while it is queued, it is inside acquire then, and it does not own the mutex.
WaitersBlocked ==
    \A t \in TaskId :
        /\ t \in ToSet(blockedTasks) <=> state[t] = "eBlocked"
        /\ state[t] = "eBlocked" => call[t] = "trying" /\ owner # t

\* A free mutex does not leave its queue asleep: whenever tasks are queued,
\* somebody owns the mutex or a task that was let go is about to try again.
NoStrandedWaiter ==
    blockedTasks # <<>> =>
        \/ owner # Nobody
        \/ \E t \in TaskId : call[t] = "trying" /\ t \notin ToSet(blockedTasks)

\* A change of level neither loses nor doubles a task in the ready list: a
\* ready task has exactly one bit, perhaps at a level it had before, and at one
\* the search visits; other tasks have none.  Only the destructor loses tasks.
Lost(t) == destroyed /\ call[t] = "trying" /\ state[t] = "eReady"

OneReadyBit ==
    \A t \in Added \ {Idle} :
        LET bits == {p \in Priority : t \in readyTasks[p]}
        IN  IF state[t] = "eReady" /\ ~Lost(t)
            THEN Cardinality(bits) = 1 /\ \A p \in bits : p >= highestTaskPriority
            ELSE Lost(t) \/ bits = {}

\* The mutex implements AbstractMutex: only its holder releases it, nobody takes
\* it from another, and a release lets the longest waiting caller try again.
Promised == INSTANCE AbstractMutex WITH
    Caller <- TaskId, holder <- owner, line <- blockedTasks,
    trying <- {t \in TaskId : call[t] = "trying"}

ImplementsMutex == Promised!Spec

=============================================================================

------------------------------ MODULE Semaphore -----------------------------
(***************************************************************************)
(* A counting semaphore (Source/Semaphore.cpp) on the scheduler of         *)
(* Kernel.tla.  The waiting queue is a sequence: Fifo.tla shows that the   *)
(* circular buffer behaves as one, and it has room for every task.         *)
(*                                                                         *)
(* wait and signal are called by tasks; signal and flush also by interrupt *)
(* handlers, which may run between any two steps.  A call is split where   *)
(* it leaves a critical section or works outside one:                      *)
(*                                                                         *)
(*   wait    "entry"      the deadline is computed, the section not entered*)
(*           "parked"     queued and blocked, returns Success when it runs *)
(*   signal  "readySelf"  the section left, setTaskReady(self) not begun   *)
(*           "storeSelf"  setTaskReady(self) has read the ready bits and   *)
(*                        not yet written them                             *)
(***************************************************************************)
EXTENDS Kernel, Sequences, SequencesExt

CONSTANTS
    maxCount, initialCount,   \* the arguments of the constructor
    Signallers,               \* tasks that call signal and flush
    Timeouts,                 \* the finite arguments of wait
    WAIT_FOREVER              \* the other one

ASSUME SemaphoreAssumption ==
    /\ maxCount \in Nat /\ initialCount \in Nat
    /\ Signallers \subseteq TaskId \ ({Idle} \cup Spinners)
    /\ Timeouts \subseteq Nat /\ WAIT_FOREVER \notin Nat

VARIABLES
    count,          \* Semaphore::count
    waitingQueue,   \* Semaphore::waitingQueue
    call,           \* where each task is inside wait or signal
    ticksTimeout,   \* the argument of the wait in progress
    end,            \* its local variable
    readBits        \* the ready bits setTaskReady(self) has read

semVars  == <<count, waitingQueue>>
callVars == <<call, ticksTimeout, end, readBits>>
allVars  == <<vars, semVars, callVars>>

CallPoint == {"out", "entry", "parked", "readySelf", "storeSelf"}

SemInit ==
    /\ Init
    /\ count = initialCount
    /\ waitingQueue = <<>>
    /\ call = [t \in TaskId |-> "out"]
    /\ ticksTimeout = [t \in TaskId |-> 0]
    /\ end = [t \in TaskId |-> 0]
    /\ readBits = [t \in TaskId |-> {}]

InCode(t) == Thread(t) /\ pc[t] = "run" /\ call[t] = "out"
At(t, p)  == Thread(t) /\ pc[t] = "run" /\ call[t] = p

Goto(t, p) == call' = [call EXCEPT ![t] = p]

ForgetArguments(t) ==
    /\ ticksTimeout' = [ticksTimeout EXCEPT ![t] = 0]
    /\ end' = [end EXCEPT ![t] = 0]

-----------------------------------------------------------------------------
(***************************************************************************)
(* wait.                                                                   *)
(***************************************************************************)

\* The deadline is computed before the critical section: ticks pass between.
BeginWait(t, n) ==
    /\ InCode(t) /\ t \notin Spinners
    /\ Goto(t, "entry")
    /\ ticksTimeout' = [ticksTimeout EXCEPT ![t] = n]
    /\ end' = [end EXCEPT ![t] = IF n = WAIT_FOREVER THEN 0 ELSE n + tickCount]
    /\ UNCHANGED <<vars, semVars, readBits>>

TakePermit(t) ==
    /\ At(t, "entry") /\ count > 0
    /\ count' = count - 1
    /\ Goto(t, "out") /\ ForgetArguments(t)
    /\ UNCHANGED <<vars, waitingQueue, readBits>>

Expired(t) ==
    \/ ticksTimeout[t] = 0
    \/ ticksTimeout[t] # WAIT_FOREVER /\ tickCount > end[t]

\* Returns Timeout.
GiveUp(t) ==
    /\ At(t, "entry") /\ count = 0 /\ Expired(t)
    /\ Goto(t, "out") /\ ForgetArguments(t)
    /\ UNCHANGED <<vars, semVars, readBits>>

Park(t) ==
    /\ At(t, "entry") /\ count = 0 /\ ~Expired(t)
    /\ Block(t)
    /\ waitingQueue' = Append(waitingQueue, t)
    /\ Goto(t, "parked")
    /\ UNCHANGED <<count, ticksTimeout, end, readBits>>

\* wait does not look at the semaphore again after its yield: Success.
ReturnFromWait(t) ==
    /\ At(t, "parked")
    /\ Goto(t, "out") /\ ForgetArguments(t)
    /\ UNCHANGED <<vars, semVars, readBits>>

-----------------------------------------------------------------------------
(***************************************************************************)
(* signal and flush.                                                       *)
(***************************************************************************)
\* Faults: the last task to arrive is served; a permit is handed over and
\* counted as well; one permit too many is kept; the task is taken out of the
\* queue and not made ready.
ReleaseLast ==
    \/ /\ waitingQueue # <<>>
       /\ SetTaskReady({Last(waitingQueue)})
       /\ waitingQueue' = Front(waitingQueue)
       /\ UNCHANGED count
    \/ /\ waitingQueue = <<>>
       /\ count' = IF count < maxCount THEN count + 1 ELSE count
       /\ UNCHANGED <<readyVars, waitingQueue>>

ReleaseAndCount ==
    /\ SetTaskReady({t \in TaskId : waitingQueue # <<>> /\ t = Head(waitingQueue)})
    /\ waitingQueue' = IF waitingQueue = <<>> THEN <<>> ELSE Tail(waitingQueue)
    /\ count' = IF count < maxCount THEN count + 1 ELSE count

ReleaseBeyond ==
    \/ /\ waitingQueue # <<>>
       /\ SetTaskReady({Head(waitingQueue)})
       /\ waitingQueue' = Tail(waitingQueue)
       /\ UNCHANGED count
    \/ /\ waitingQueue = <<>>
       /\ count' = IF count <= maxCount THEN count + 1 ELSE count
       /\ UNCHANGED <<readyVars, waitingQueue>>

ReleaseSilently ==
    /\ waitingQueue # <<>>
    /\ waitingQueue' = Tail(waitingQueue)
    /\ UNCHANGED <<count, readyVars>>

Release ==
    \/ /\ waitingQueue # <<>>
       /\ SetTaskReady({Head(waitingQueue)})
       /\ waitingQueue' = Tail(waitingQueue)
       /\ UNCHANGED count
    \/ /\ waitingQueue = <<>>
       /\ count' = IF count < maxCount THEN count + 1 ELSE count
       /\ UNCHANGED <<readyVars, waitingQueue>>

\* Fault: only the first task of the queue is made ready.
ReleaseAllFirst ==
    /\ waitingQueue # <<>>
    /\ SetTaskReady({Head(waitingQueue)})
    /\ waitingQueue' = <<>>
    /\ UNCHANGED count

ReleaseAll ==
    /\ waitingQueue # <<>>
    /\ SetTaskReady(ToSet(waitingQueue))
    /\ waitingQueue' = <<>>
    /\ UNCHANGED count

UnchangedByRelease ==
    UNCHANGED <<taskVars, sleepVars, cpuVars, tickCount, pc, ticksTimeout, end,
                readBits>>

\* A task goes on to make itself ready; flush does so only if it found somebody.
SignalFromTask(t) ==
    /\ InCode(t) /\ t \in Signallers
    /\ Release
    /\ Goto(t, "readySelf")
    /\ UnchangedByRelease

FlushFromTask(t) ==
    /\ InCode(t) /\ t \in Signallers
    /\ ReleaseAll
    /\ Goto(t, "readySelf")
    /\ UnchangedByRelease

SignalFromISR == Started /\ Release /\ UNCHANGED call /\ UnchangedByRelease

FlushFromISR == Started /\ ReleaseAll /\ UNCHANGED call /\ UnchangedByRelease

\* setTaskReady(self), outside the critical section: the state is set and the
\* ready bits of the level are read ...
MarkSelf(t) ==
    /\ At(t, "readySelf")
    /\ state' = [state EXCEPT ![t] = "eReady"]
    /\ readBits' = [readBits EXCEPT ![t] = readyTasks[priority[t]]]
    /\ Goto(t, "storeSelf")
    /\ UNCHANGED <<taskVars, readyTasks, priorityBitmap, sleepVars, cpuVars,
                   tickCount, pc, semVars, ticksTimeout, end>>

\* ... and written back with the caller's bit; then the caller yields.
StoreSelf(t) ==
    /\ At(t, "storeSelf")
    /\ readyTasks' = [readyTasks EXCEPT ![priority[t]] = readBits[t] \cup {t}]
    /\ priorityBitmap' = priorityBitmap \cup {priority[t]}
    /\ readBits' = [readBits EXCEPT ![t] = {}]
    /\ Goto(t, "out")
    /\ pc' = [pc EXCEPT ![t] = "yield"]
    /\ UNCHANGED <<taskVars, state, sleepVars, cpuVars, tickCount, semVars,
                   ticksTimeout, end>>

-----------------------------------------------------------------------------

\* The scheduler's own steps, and what tasks do outside the semaphore.
KernelStep ==
    /\ \/ \E p \in Priority : AddTask(p) /\ call[currentTask] = "out"
       \/ Start
       \/ Tick
       \/ ContextSwitch
       \/ \E t \in TaskId, n \in SleepTicks : Sleep(t, n) /\ call[t] = "out"
       \/ \E t \in TaskId : Yield(t) /\ (pc[t] = "yield" \/ call[t] = "out")
    /\ UNCHANGED <<semVars, callVars>>

SemStep(t) ==
    \/ \E n \in Timeouts \cup {WAIT_FOREVER} : BeginWait(t, n)
    \/ TakePermit(t) \/ GiveUp(t) \/ Park(t) \/ ReturnFromWait(t)
    \/ SignalFromTask(t) \/ FlushFromTask(t) \/ MarkSelf(t) \/ StoreSelf(t)

SemNext ==
    \/ KernelStep
    \/ \E t \in TaskId : SemStep(t)
    \/ SignalFromISR \/ FlushFromISR

SemSpec == SemInit /\ [][SemNext]_allVars

-----------------------------------------------------------------------------
(***************************************************************************)
(* Properties.                                                             *)
(***************************************************************************)

\* The constructor does not compare its two arguments.
MostPermits == IF initialCount > maxCount THEN initialCount ELSE maxCount

\* The type invariant; no permit is created above the maximum, whatever signals
\* come from tasks and interrupts, and the queue never holds a task twice, so
\* MAX_TASKS slots are enough for it.
SemTypeOK ==
    /\ TypeOK
    /\ count \in 0 .. MostPermits
    /\ waitingQueue \in Seq(TaskId) /\ IsInjective(waitingQueue)
    /\ call \in [TaskId -> CallPoint]
    /\ ticksTimeout \in [TaskId -> Timeouts \cup {0, WAIT_FOREVER}]
    /\ end \in [TaskId -> Nat]
    /\ readBits \in [TaskId -> SUBSET TaskId]

\* The queue of the semaphore and the states kept by the scheduler agree: a
\* task is blocked exactly while it is queued, and it is then inside wait.
\* wait, signal and flush update the two in the same critical section.
WaitersBlocked ==
    \A t \in TaskId :
        /\ t \in ToSet(waitingQueue) <=> state[t] = "eBlocked"
        /\ state[t] = "eBlocked" => call[t] = "parked"

\* No permit lies unused while a task waits for one.
NoIdlePermit == count > 0 => waitingQueue = <<>>

\* The semaphore implements AbstractSemaphore: in particular nobody returns from
\* wait with Success while it is still in line, and signals serve the callers in
\* their order of arrival.
Permits == INSTANCE AbstractSemaphore WITH
    Caller <- TaskId, MaxPermits <- maxCount, InitialPermits <- initialCount,
    permits <- count, line <- waitingQueue,
    inside <- {t \in TaskId : call[t] = "parked"},
    limited <- {t \in TaskId : call[t] = "parked" /\ ticksTimeout[t] # WAIT_FOREVER}

ImplementsPermits == Permits!Spec

\* Fairness: the two exceptions, and a task that has the processor executes.
SemFairSpec ==
    /\ SemSpec
    /\ SF_allVars(Tick /\ UNCHANGED <<semVars, callVars>>)
    /\ WF_allVars(ContextSwitch /\ UNCHANGED <<semVars, callVars>>)
    /\ \A t \in TaskId :
          SF_allVars(\/ Yield(t) /\ pc[t] = "yield" /\ UNCHANGED <<semVars, callVars>>
                     \/ TakePermit(t) \/ GiveUp(t) \/ Park(t) \/ ReturnFromWait(t))

\* A task that a signal took out of the queue returns from wait, if it is more
\* urgent than every other task: it is not forgotten between setTaskReady, the
\* pending context switch and the yield it was in.
StrictlyMostUrgent(t) == \A u \in Added \ {t} : priority[t] < priority[u]

ReleasedWaiterReturns ==
    \A t \in TaskId :
        call[t] = "parked" /\ t \notin ToSet(waitingQueue) /\ StrictlyMostUrgent(t)
            ~> call[t] = "out" \/ ~StrictlyMostUrgent(t)

(***************************************************************************)
(* What the documentation says and the code does not do.                   *)
(***************************************************************************)

\* "this function is called only after entering critical section" is said of
\* setTaskReady: a task that was ready when it lost the processor has a ready
\* bit, without which it is never chosen again.
NoTaskLost ==
    \A t \in Added \ {currentTask} :
        state[t] = "eReady" => t \in readyTasks[priority[t]]

\* A task inside wait although its time is over.
Overdue(t) ==
    call[t] = "parked" /\ ticksTimeout[t] # WAIT_FOREVER /\ tickCount > end[t]

\* "the task will be blocked until the semaphore is released by another task or
\* an optional timeout occurs" (Semaphore.hpp:108): a blocked task whose time is
\* over returns, if it is more urgent than every other task.  But the clock is
\* looked at only before the task blocks.
FiniteWaitEnds ==
    \A t \in TaskId :
        Overdue(t) /\ StrictlyMostUrgent(t) ~> call[t] = "out" \/ ~StrictlyMostUrgent(t)

=============================================================================

----------------------------- MODULE EventGroup -----------------------------
(***************************************************************************)
(* An event group (Source/EventGroup.cpp) on the scheduler of Kernel.tla.  *)
(* Tasks wait for one of several flags; tasks and interrupt handlers set   *)
(* and clear flags.                                                        *)
(*                                                                         *)
(* The queue of waiting tasks is a sequence.  It is only ever changed by   *)
(* enqueue and removeAt, so the head of the circular buffer stays at slot  *)
(* 0 and getAt(i) is the i-th task in it (Fifo.tla).                       *)
(*                                                                         *)
(* A task inside waitForEvents is "parked" from the critical section that  *)
(* queues it to its return.  Whenever it executes again it enters one more *)
(* critical section, in which it returns or decides to yield again.        *)
(*                                                                         *)
(* WAIT_FOREVER, 2^32 - 1, is no special value to waitForEvents: it is a   *)
(* timeout beyond MaxTick, where the clock of the model stops.             *)
(***************************************************************************)
EXTENDS Kernel, Sequences, SequencesExt

CONSTANTS
    Flag,        \* the bits of eventFlags that the application uses
    FlagSets,    \* the arguments of waitForEvents, setEvents and clearEvents
    Timeouts     \* the timeouts passed to waitForEvents

ASSUME EventGroupAssumption ==
    /\ FlagSets \subseteq SUBSET Flag
    /\ Timeouts \subseteq Nat

VARIABLES
    eventFlags,       \* EventGroup::eventFlags, as a set of flags
    waitingTasks,     \* EventGroup::waitingTasks
    flagsToWaitFor,   \* TaskData::flagsToWaitFor
    parked,           \* tasks inside waitForEvents, past its first section
    wanted,           \* the argument flagsToWaitFor of the call in progress
    endTime           \* its local variable

groupVars == <<eventFlags, waitingTasks, flagsToWaitFor>>
callVars  == <<parked, wanted, endTime>>
allVars   == <<vars, groupVars, callVars>>

EventInit ==
    /\ Init
    /\ eventFlags = {}
    /\ waitingTasks = <<>>
    /\ flagsToWaitFor = [t \in TaskId |-> {}]
    /\ parked = {}
    /\ wanted = [t \in TaskId |-> {}]
    /\ endTime = [t \in TaskId |-> 0]

InCode(t) == Thread(t) /\ pc[t] = "run" /\ t \notin parked

-----------------------------------------------------------------------------
(***************************************************************************)
(* waitForEvents.  Returning at once, because a flag is set or the timeout *)
(* is zero, changes nothing.                                               *)
(***************************************************************************)
WaitForEvents(t, F, timeout) ==
    /\ InCode(t) /\ t \notin Spinners
    /\ eventFlags \cap F = {} /\ timeout # 0
    /\ endTime' = [endTime EXCEPT ![t] = tickCount + timeout]
    /\ state' = [state EXCEPT ![t] = "eBlocked"]
    /\ flagsToWaitFor' = [flagsToWaitFor EXCEPT ![t] = F]
    /\ wanted' = [wanted EXCEPT ![t] = F]
    /\ waitingTasks' = Append(waitingTasks, t)
    /\ parked' = parked \cup {t}
    /\ pc' = [pc EXCEPT ![t] = "yield"]
    /\ UNCHANGED <<taskVars, readyTasks, priorityBitmap, sleepVars, cpuVars,
                   tickCount, eventFlags>>

\* Fault: a woken task looks at the flags and not at the clock.
FlagSeenOnly(t) == eventFlags \cap wanted[t] # {}

Served(t) == eventFlags \cap wanted[t] # {} \/ tickCount >= endTime[t]

\* Returns true or false; the task is removed from the queue if still there.
ReturnFromWait(t) ==
    /\ Thread(t) /\ pc[t] = "run" /\ t \in parked
    /\ Served(t)
    /\ waitingTasks' = RemoveFirst(waitingTasks, t)
    /\ parked' = parked \ {t}
    /\ wanted' = [wanted EXCEPT ![t] = {}]
    /\ endTime' = [endTime EXCEPT ![t] = 0]
    /\ UNCHANGED <<vars, eventFlags, flagsToWaitFor>>

\* Fault: it queues itself at every turn, as acquire of Mutex does.
WaitOnRequeued(t) ==
    /\ Thread(t) /\ pc[t] = "run" /\ t \in parked
    /\ ~Served(t)
    /\ waitingTasks' = Append(waitingTasks, t)
    /\ pc' = [pc EXCEPT ![t] = "yield"]
    /\ UNCHANGED <<taskVars, readyVars, sleepVars, cpuVars, tickCount,
                   eventFlags, flagsToWaitFor, callVars>>

WaitOn(t) ==
    /\ Thread(t) /\ pc[t] = "run" /\ t \in parked
    /\ ~Served(t)
    /\ pc' = [pc EXCEPT ![t] = "yield"]
    /\ UNCHANGED <<taskVars, readyVars, sleepVars, cpuVars, tickCount,
                   groupVars, callVars>>

-----------------------------------------------------------------------------
(***************************************************************************)
(* setEvents and clearEvents.                                              *)
(***************************************************************************)
\* Fault: only all the flags a task waits for release it.
HitByAll(t, F) == flagsToWaitFor[t] \subseteq F

Hit(t, F) == flagsToWaitFor[t] \cap F # {}

\* One turn of the loop, of which w has the index i, the queue and the tasks made
\* ready so far.  After a removal the next task is at the same index.
\* Fault: the index moves on then, too.
TurnSkipping(w, F) ==
    LET t == w.queue[w.i]
    IN  IF w.i > Len(w.queue) THEN w
        ELSE IF Hit(t, F)
             THEN [i |-> w.i + 1, queue |-> RemoveAt(w.queue, w.i),
                   released |-> w.released \cup {t}]
             ELSE [w EXCEPT !.i = w.i + 1]

Turn(w, F) ==
    LET t == w.queue[w.i]
    IN  IF w.i > Len(w.queue) THEN w
        ELSE IF Hit(t, F)
             THEN [i |-> w.i, queue |-> RemoveAt(w.queue, w.i),
                   released |-> w.released \cup {t}]
             ELSE [w EXCEPT !.i = w.i + 1]

\* The whole loop, over the flags F that are set: it takes a turn for each task
\* that was queued before it.
Walk(F) ==
    LET walk[n \in 0 .. Len(waitingTasks)] ==
          IF n = 0 THEN [i |-> 1, queue |-> waitingTasks, released |-> {}]
          ELSE Turn(walk[n - 1], F)
    IN  walk[Len(waitingTasks)]

\* Fault: a released task stays queued.
SetFlagsQueued(F) ==
    LET walk == Walk(eventFlags \cup F)
    IN  /\ eventFlags' = eventFlags \cup F
        /\ SetTaskReady(walk.released)
        /\ flagsToWaitFor' =
             [t \in TaskId |-> IF t \in walk.released THEN {} ELSE flagsToWaitFor[t]]
        /\ UNCHANGED waitingTasks

SetFlags(F) ==
    LET walk == Walk(eventFlags \cup F)
    IN  /\ eventFlags' = eventFlags \cup F
        /\ SetTaskReady(walk.released)
        /\ flagsToWaitFor' =
             [t \in TaskId |-> IF t \in walk.released THEN {} ELSE flagsToWaitFor[t]]
        /\ waitingTasks' = walk.queue

SetEvents(t, F) ==
    /\ InCode(t)
    /\ SetFlags(F)
    /\ pc' = [pc EXCEPT ![t] = "yield"]
    /\ UNCHANGED <<taskVars, sleepVars, cpuVars, tickCount, callVars>>

\* In an interrupt handler the yield is part of the step.
SetEventsFromISR(F) ==
    /\ Started
    /\ SetFlags(F)
    /\ pendSV' = TRUE
    /\ UNCHANGED <<taskVars, sleepVars, currentTask, tickCount, pc, callVars>>

ClearEvents(F) ==
    /\ Started
    /\ eventFlags' = eventFlags \ F
    /\ UNCHANGED <<vars, waitingTasks, flagsToWaitFor, callVars>>

-----------------------------------------------------------------------------

\* The scheduler's own steps, and what tasks do outside the event group.
KernelStep ==
    /\ \/ \E p \in Priority : AddTask(p) /\ currentTask \notin parked
       \/ Start
       \/ Tick
       \/ ContextSwitch
       \/ \E t \in TaskId, n \in SleepTicks : Sleep(t, n) /\ t \notin parked
       \/ \E t \in TaskId : Yield(t) /\ (pc[t] = "yield" \/ t \notin parked)
    /\ UNCHANGED <<groupVars, callVars>>

EventNext ==
    \/ KernelStep
    \/ \E t \in TaskId : \/ \E F \in FlagSets, n \in Timeouts : WaitForEvents(t, F, n)
                         \/ ReturnFromWait(t) \/ WaitOn(t)
                         \/ \E F \in FlagSets : SetEvents(t, F)
    \/ \E F \in FlagSets : SetEventsFromISR(F) \/ ClearEvents(F)

EventSpec == EventInit /\ [][EventNext]_allVars

\* Fairness: the two exceptions, and a task that may wait executes if it has the
\* processor again and again.
EventFairSpec ==
    /\ EventSpec
    /\ SF_allVars(Tick /\ UNCHANGED <<groupVars, callVars>>)
    /\ WF_allVars(ContextSwitch /\ UNCHANGED <<groupVars, callVars>>)
    /\ \A t \in UserTask \ Spinners :
          SF_allVars(\/ Yield(t) /\ pc[t] = "yield" /\ UNCHANGED <<groupVars, callVars>>
                     \/ ReturnFromWait(t) \/ WaitOn(t))

-----------------------------------------------------------------------------
(***************************************************************************)
(* Properties.                                                             *)
(***************************************************************************)

\* The type invariant; no task is queued twice, so that MAX_TASKS slots are
\* enough for the queue.
EventTypeOK ==
    /\ TypeOK
    /\ eventFlags \subseteq Flag
    /\ waitingTasks \in Seq(TaskId) /\ IsInjective(waitingTasks)
    /\ flagsToWaitFor \in [TaskId -> SUBSET Flag]
    /\ parked \subseteq TaskId
    /\ wanted \in [TaskId -> SUBSET Flag]
    /\ endTime \in [TaskId -> Nat]

\* The queue of the event group, the states kept by the scheduler and the
\* flags kept in the task agree: a task is blocked exactly while it is queued,
\* and then the flags setEvents compares are those the task asked for.
WaitersBlocked ==
    \A t \in TaskId :
        /\ t \in ToSet(waitingTasks) <=> state[t] = "eBlocked"
        /\ state[t] = "eBlocked" => t \in parked /\ flagsToWaitFor[t] = wanted[t]

\* No wake-up is lost: no task stays queued over a flag it waits for, however
\* setEvents, clearEvents and waitForEvents of tasks and interrupts interleave.
NoMissedEvent ==
    \A t \in ToSet(waitingTasks) : wanted[t] \cap eventFlags = {}

\* The event group implements AbstractEvents: in particular setEvents takes all
\* those out of the queue who wait for one of the flags, and nobody else, and a
\* caller returns only if it was taken out or its time is over.
Events == INSTANCE AbstractEvents WITH
    Caller <- TaskId, Wishes <- FlagSets, Patience <- Timeouts,
    flags <- eventFlags, asleep <- ToSet(waitingTasks), inside <- parked,
    wish <- wanted, due <- endTime, now <- tickCount

ImplementsEvents == Events!Spec

\* A released task that is more urgent than every other task returns while its
\* flag is set, and in any case when its time is over: it is not forgotten
\* between setTaskReady, the pending context switch and its own yields.
StrictlyMostUrgent(t) == \A u \in Added \ {t} : priority[t] < priority[u]

ReleasedWaiterReturns ==
    \A t \in UserTask \ Spinners :
        t \in parked /\ t \notin ToSet(waitingTasks) /\ StrictlyMostUrgent(t)
            ~> t \notin parked \/ ~StrictlyMostUrgent(t)
               \/ (eventFlags \cap wanted[t] = {} /\ endTime[t] > MaxTick)

\* "This operation does not affect tasks that are currently waiting for these
\* flags", EventGroup.h:91 says of clearEvents: a task whose flag was set returns
\* although the flag is cleared again, if it may run.
ClearSparesReleased ==
    \A t \in UserTask \ Spinners :
        t \in parked /\ t \notin ToSet(waitingTasks) /\ StrictlyMostUrgent(t)
            ~> t \notin parked \/ ~StrictlyMostUrgent(t)

=============================================================================

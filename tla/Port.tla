-------------------------------- MODULE Port --------------------------------
(***************************************************************************)
(* Critical sections on the Cortex-M7 port (Ports/GCC/ARMCM7): the nesting *)
(* counter that all tasks share, the register BASEPRI, and the exceptions  *)
(* that it masks.                                                          *)
(*                                                                         *)
(* A thread is at one of these points of enterCritical and exitCritical:   *)
(*                                                                         *)
(*   "out"      outside both, and outside the section                      *)
(*   "read"     nestingCounter++ has read the counter                      *)
(*   "stored"   ... and written it back; BASEPRI not yet raised            *)
(*   "in"       enterCritical has returned                                 *)
(*   "leaving"  nestingCounter-- has read the counter                      *)
(*   "left"     ... and written it back; not yet compared with zero        *)
(*                                                                         *)
(* SysTick and PendSV have the lowest priority; the handler of each is one *)
(* step, TakeSysTick and TakePendSV, and so is the handler of a device     *)
(* interrupt that calls the kernel: its own enterCritical and exitCritical *)
(* leave the counter as it was.  The scheduler's choice is any task:       *)
(* Kernel.tla is about that.                                               *)
(***************************************************************************)
EXTENDS Integers

CONSTANTS
    Thread,                           \* the tasks of the kernel
    MutexUsers,                       \* tasks that call Mutex::acquire
    PRIO_BITS,                        \* bits of a priority that the part implements
    MAX_SYSCALL_INTERRUPT_PRIORITY,   \* what enterCritical writes to BASEPRI
    MIN_INTERRUPT_PRIORITY,           \* the priority of SysTick and PendSV
    CounterSize                       \* values of nestingCounter, 2^32 in the code

ASSUME PortAssumption ==
    /\ Thread # {} /\ MutexUsers \subseteq Thread
    /\ PRIO_BITS \in 1 .. 8
    /\ MAX_SYSCALL_INTERRUPT_PRIORITY \in 0 .. 255
    /\ MIN_INTERRUPT_PRIORITY \in 0 .. 255
    /\ CounterSize \in Nat \ {0}

VARIABLES
    BASEPRI,
    nestingCounter,
    switchDue,         \* PENDSVSET in the interrupt control register
    running,           \* Kernel::currentTask
    at,                \* where each thread is
    copy,              \* the value nestingCounter++ or -- has read
    inner              \* in the second enterCritical of Mutex::acquire

portVars == <<BASEPRI, nestingCounter, switchDue, running, at, copy, inner>>

Counter == 0 .. CounterSize - 1
Point   == {"out", "read", "stored", "in", "leaving", "left"}

\* The bits a part does not implement read as zero, in BASEPRI as well.
Implemented(p) == p - (p % 2^(8 - PRIO_BITS))

\* Writing a zero disables the mask; otherwise it holds back the exceptions
\* that are not more urgent.
Masks(level) ==
    /\ Implemented(level) # 0
    /\ Implemented(level) <= Implemented(MIN_INTERRUPT_PRIORITY)

Masked == Masks(BASEPRI)

PortInit ==
    /\ BASEPRI = 0 /\ nestingCounter = 0 /\ switchDue = FALSE
    /\ running \in Thread
    /\ at = [t \in Thread |-> "out"]
    /\ copy = [t \in Thread |-> 0]
    /\ inner = [t \in Thread |-> FALSE]

-----------------------------------------------------------------------------
(***************************************************************************)
(* Threads.  An exception that is due and not masked is taken first.       *)
(***************************************************************************)
At(t, p) ==
    /\ running = t /\ at[t] = p
    /\ Masked \/ ~switchDue

Goto(t, p) == at' = [at EXCEPT ![t] = p]

ReadCounter(t) ==
    /\ copy' = [copy EXCEPT ![t] = nestingCounter]
    /\ UNCHANGED <<BASEPRI, nestingCounter, switchDue, running>>

StoreCounter(t, n) ==
    /\ nestingCounter' = n % CounterSize
    /\ UNCHANGED <<BASEPRI, switchDue, running, copy, inner>>

BeginEnter(t) ==
    /\ At(t, "out")
    /\ ReadCounter(t) /\ Goto(t, "read")
    /\ UNCHANGED inner

\* Mutex::acquire finds the mutex free and enters once more.
BeginInnerEnter(t) ==
    /\ At(t, "in") /\ t \in MutexUsers /\ ~inner[t]
    /\ ReadCounter(t) /\ Goto(t, "read")
    /\ inner' = [inner EXCEPT ![t] = TRUE]

\* Fault: the mask is thought to be up already when something was counted.
IncrementOnly(t) ==
    /\ At(t, "read")
    /\ StoreCounter(t, copy[t] + 1)
    /\ Goto(t, IF copy[t] = 0 THEN "stored" ELSE "in")

Increment(t) == At(t, "read") /\ StoreCounter(t, copy[t] + 1) /\ Goto(t, "stored")

\* Fault: only the outermost section raises BASEPRI.
raiseOutermostOnly(t) ==
    /\ At(t, "stored")
    /\ BASEPRI' = IF nestingCounter = 1 THEN MAX_SYSCALL_INTERRUPT_PRIORITY ELSE BASEPRI
    /\ Goto(t, "in")
    /\ UNCHANGED <<nestingCounter, switchDue, running, copy, inner>>

setInterruptPriorityAndGetOriginal(t) ==
    /\ At(t, "stored")
    /\ BASEPRI' = MAX_SYSCALL_INTERRUPT_PRIORITY
    /\ Goto(t, "in")
    /\ UNCHANGED <<nestingCounter, switchDue, running, copy, inner>>

\* A section of Port::yield.
RequestSwitch(t) ==
    /\ At(t, "in")
    /\ switchDue' = TRUE
    /\ UNCHANGED <<BASEPRI, nestingCounter, running, at, copy, inner>>

BeginExit(t) ==
    /\ At(t, "in")
    /\ ReadCounter(t) /\ Goto(t, "leaving")
    /\ UNCHANGED inner

Decrement(t) == At(t, "leaving") /\ StoreCounter(t, copy[t] - 1) /\ Goto(t, "left")

\* The inner exitCritical of Mutex::acquire is its only one: it returns.
enableInterrupts(t) ==
    /\ At(t, "left")
    /\ BASEPRI' = IF nestingCounter = 0 THEN 0 ELSE BASEPRI
    /\ Goto(t, "out")
    /\ inner' = [inner EXCEPT ![t] = FALSE]
    /\ UNCHANGED <<nestingCounter, switchDue, running, copy>>

-----------------------------------------------------------------------------
(***************************************************************************)
(* Exceptions.                                                             *)
(***************************************************************************)

\* Raises BASEPRI and ends with zero, whatever it found.
TakeSysTick ==
    /\ ~Masked /\ ~switchDue
    /\ BASEPRI' = 0
    /\ switchDue' = TRUE
    /\ UNCHANGED <<nestingCounter, running, at, copy, inner>>

\* Between its two writes of BASEPRI, selectHighestPriorityTask enters and
\* leaves a critical section.
TakePendSV ==
    /\ ~Masked /\ switchDue
    /\ BASEPRI' = 0
    /\ switchDue' = FALSE
    /\ running' \in Thread
    /\ UNCHANGED <<nestingCounter, at, copy, inner>>

\* A handler that calls Semaphore::signal: BASEPRI is cleared only if the
\* counter is zero again.
DeviceInterrupt ==
    /\ ~Masked
    /\ BASEPRI' = IF nestingCounter = 0 THEN 0 ELSE MAX_SYSCALL_INTERRUPT_PRIORITY
    /\ UNCHANGED <<nestingCounter, switchDue, running, at, copy, inner>>

ThreadStep(t) ==
    \/ BeginEnter(t) \/ BeginInnerEnter(t) \/ Increment(t)
    \/ setInterruptPriorityAndGetOriginal(t)
    \/ RequestSwitch(t)
    \/ BeginExit(t) \/ Decrement(t) \/ enableInterrupts(t)

PortNext ==
    \/ \E t \in Thread : ThreadStep(t)
    \/ TakeSysTick \/ TakePendSV \/ DeviceInterrupt

PortSpec == PortInit /\ [][PortNext]_portVars

-----------------------------------------------------------------------------
(***************************************************************************)
(* Properties.                                                             *)
(***************************************************************************)

\* The type invariant: the counter stays within its width.
PortTypeOK ==
    /\ BASEPRI \in {0, MAX_SYSCALL_INTERRUPT_PRIORITY}
    /\ nestingCounter \in Counter
    /\ switchDue \in BOOLEAN
    /\ running \in Thread
    /\ at \in [Thread -> Point]
    /\ copy \in [Thread -> Counter]
    /\ inner \in [Thread -> BOOLEAN]

\* enterCritical has returned and the matching exitCritical has not.
InSection(t) == at[t] \in {"in", "leaving", "left"} \/ inner[t]

\* "a portion of code that must not be interrupted" (Interface.hpp): while a
\* task is in its critical section the mask is up, although the handlers of
\* three exceptions and the inner sections write BASEPRI too.
SectionMasked == InSection(running) => Masked

\* No two tasks are in their critical sections at once, although the counter
\* they share can lose an increment or keep one too many.
SectionsExclusive == \A t, u \in Thread : InSection(t) /\ InSection(u) => t = u

=============================================================================

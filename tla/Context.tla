------------------------------- MODULE Context ------------------------------
(***************************************************************************)
(* Where the registers of a task are while it does not run: the initial    *)
(* stack frame, the start of the first task and the context switch of the  *)
(* Cortex-M7 port (Ports/GCC/ARMCM7: Port.cpp, PendHandlers.S,             *)
(* PortHwAssembly.S).  Which task comes next is up to the kernel; here it  *)
(* may be any.                                                             *)
(*                                                                         *)
(* A word says whose it is, from which stretch of its work, and which      *)
(* register it was.  The sixteen upper and the lower floating-point        *)
(* registers count as one word each.  Stacks grow downwards; depth d is    *)
(* the word d below the top.  A stack frame is written as the sequence of  *)
(* its registers by depth: the last one has the lowest address.            *)
(*                                                                         *)
(* External: what the processor does on exception entry and return.        *)
(***************************************************************************)
EXTENDS Naturals, Sequences

CONSTANTS
    Task, Idle, None,
    STACK,      \* words of a stack
    Locals      \* the depths a task's own code brings its stack to

ASSUME ContextAssumption ==
    /\ Idle \in Task /\ None \notin Task
    /\ Locals \subseteq Nat
    \* The code does not look: the stack has room for a frame with floats.
    /\ STACK \in Nat /\ \A d \in Locals \cup {0} : d + 19 <= STACK

VARIABLES
    memory,         \* the stacks, by task and depth
    stackPointer,   \* TaskData::currentStackPointer, a depth; 0 is the top
    added,          \* the tasks the kernel has
    currentTask,    \* Kernel::currentTask
    tcb,            \* ptrCurrentTask->currentStackPtr: whose stack, and how deep
    psp,            \* the process stack pointer, likewise
    cpu, fpca,      \* the registers; whether the running code uses floats
    pendSV,
    gPtrPort,       \* whether the global pointer has been set
    mode,           \* what executes
    work            \* history: the stretch of work each task is in, 0 before run

vars == <<memory, stackPointer, added, currentTask, tcb, psp, cpu, fpca, pendSV,
          gPtrPort, mode, work>>

Depth   == 0 .. STACK
Pointer == [of : Task \cup {None}, depth : Depth]
Word(w) == <<None, 0, w>>
Unknown == Word("unknown")

\* Exception entry pushes these; with floats in use, the lower ones above them.
Core     == <<"xPSR", "pc", "lr", "r12", "r3", "r2", "r1", "r0">>
Hardware(fp) == IF fp THEN <<"s0-s15">> \o Core ELSE Core

\* PendSV_Handler pushes these.
Saved(fp) ==
    (IF fp THEN <<"s16-s31">> ELSE <<>>)
        \o <<"r14", "r11", "r10", "r9", "r8", "r7", "r6", "r5", "r4">>

Image(s) == {s[i] : i \in DOMAIN s}
Float    == {"s0-s15", "s16-s31"}
Register == Image(Hardware(TRUE)) \cup Image(Saved(TRUE))

\* What r14 holds in a handler, and whether it tells of floats on the stack.
EXC_RETURN(fp) == Word(IF fp THEN "0xffffffed" ELSE "0xfffffffd")

Init ==
    /\ memory = [t \in Task |-> [d \in 1 .. STACK |-> Unknown]]
    /\ stackPointer = [t \in Task |-> 0]
    /\ added = {}
    /\ currentTask = Idle
    /\ tcb = [of |-> None, depth |-> 0] /\ psp = tcb
    /\ cpu = [r \in Register |-> Unknown] /\ fpca = FALSE
    /\ pendSV = FALSE /\ gPtrPort = FALSE
    /\ mode = "main"
    /\ work = [t \in Task |-> 0]

\* The words of a stack once s has been written below depth d.
Push(stack, d, s) ==
    [i \in DOMAIN stack |-> IF i \in d + 1 .. d + Len(s) THEN s[i - d] ELSE stack[i]]

\* Beyond its stack a task finds anything.
Load(t, d) == IF d \in 1 .. STACK THEN memory[t][d] ELSE Unknown

setGlobalPointers == gPtrPort' = TRUE

-----------------------------------------------------------------------------
(***************************************************************************)
(* Tasks.                                                                  *)
(***************************************************************************)

\* Fault: one word less is left out for r12, r3, r2 and r1.
InitialFrameShort ==
    <<Word("thumb"), Word("callFirstTime"), Word("taskExitError"),
      Unknown, Unknown, Unknown, Word("0"), EXC_RETURN(FALSE)>>
        \o [i \in 1 .. 7 |-> Word("0")]

\* The comments in the code name each of the last eight words one register too
\* high: what they call r11 is loaded as r14, and r4 is the word after the frame.
InitialFrame ==
    <<Word("thumb"), Word("callFirstTime"), Word("taskExitError"),
      Unknown, Unknown, Unknown, Unknown, Word("0"), EXC_RETURN(FALSE)>>
        \o [i \in 1 .. 7 |-> Word("0")]

\* By Kernel::addTask, before start or by a running task.  The constructor adds
\* the idle task first.
initialiseStack(t) ==
    /\ t \notin added /\ mode \in {"main", "thread"} /\ (t = Idle \/ Idle \in added)
    /\ added' = added \cup {t}
    /\ memory' = [memory EXCEPT ![t] = Push(@, 0, InitialFrame)]
    /\ stackPointer' = [stackPointer EXCEPT ![t] = Len(InitialFrame) + 1]
    /\ UNCHANGED <<currentTask, tcb, psp, cpu, fpca, pendSV, gPtrPort, mode, work>>

\* The task has the registers and its part of the stack to itself: it may call,
\* return and begin to use floats.
Compute(t, n) ==
    /\ work' = [work EXCEPT ![t] = n]
    /\ fpca' \in {fpca, TRUE}
    /\ cpu' = [r \in Register |-> IF r = "r14" \/ (r \in Float /\ ~fpca') THEN cpu[r]
                                  ELSE <<t, n, r>>]
    /\ \E d \in Locals : /\ psp' = [psp EXCEPT !.depth = d]
                         /\ memory' = [memory EXCEPT ![psp.of] =
                              Push(@, 0, [i \in 1 .. d |-> <<t, n, "local">>])]
    /\ UNCHANGED <<stackPointer, added, currentTask, tcb, pendSV, mode>>

\* It calls run of the task the kernel says is running.
callFirstTime ==
    /\ mode = "thread" /\ ~pendSV
    /\ cpu["pc"] = Word("callFirstTime")
    /\ setGlobalPointers
    /\ Compute(currentTask, 1)

Continue ==
    /\ mode = "thread" /\ ~pendSV
    /\ cpu["pc"] # Word("callFirstTime")
    /\ Compute(psp.of, 3 - work[psp.of])
    /\ UNCHANGED gPtrPort

\* From any function a task calls once it runs.
yield ==
    /\ mode = "thread" /\ cpu["pc"] # Word("callFirstTime")
    /\ pendSV' = TRUE
    /\ UNCHANGED <<memory, stackPointer, added, currentTask, tcb, psp, cpu, fpca,
                   gPtrPort, mode, work>>

-----------------------------------------------------------------------------
(***************************************************************************)
(* Exceptions.                                                             *)
(***************************************************************************)

\* Sets the priorities of the exceptions and starts the clock.
startScheduler ==
    /\ mode = "main" /\ Idle \in added
    /\ mode' = "started"
    /\ UNCHANGED <<memory, stackPointer, added, currentTask, tcb, psp, cpu, fpca,
                   pendSV, gPtrPort, work>>

\* Ends with the supervisor call.
startInitialTask == mode' = "SVC"

\* The pointer to the task's data is stored where a stack pointer belongs; the
\* first switch overwrites it.
startFirstTask ==
    /\ mode = "started"
    /\ tcb' = [of |-> None, depth |-> 0]
    /\ startInitialTask
    /\ UNCHANGED <<memory, stackPointer, added, currentTask, psp, cpu, fpca, pendSV,
                   gPtrPort, work>>

\* Fault: the stack pointer is not moved back over the saved registers.
ResumeUnmoved(t, d) ==
    LET fp    == Load(t, d - 8) = EXC_RETURN(TRUE)
        frame == Hardware(fp) \o Saved(fp)
        place(r) == CHOOSE i \in DOMAIN frame : frame[i] = r
    IN  /\ cpu' = [r \in Register |->
                     IF r \in Image(frame) THEN Load(t, d - Len(frame) + place(r))
                     ELSE cpu[r]]
        /\ psp' = [of |-> t, depth |-> d - Len(Hardware(fp))]
        /\ fpca' = fp
        /\ mode' = IF cpu'["r14"] \in {EXC_RETURN(TRUE), EXC_RETURN(FALSE)}
                   THEN "thread" ELSE "fault"

\* The end of both handlers: the registers are loaded from the stack of t below
\* depth d, the processor loads the rest according to r14.
Resume(t, d) ==
    LET fp    == Load(t, d - 8) = EXC_RETURN(TRUE)
        frame == Hardware(fp) \o Saved(fp)
        place(r) == CHOOSE i \in DOMAIN frame : frame[i] = r
    IN  /\ cpu' = [r \in Register |->
                     IF r \in Image(frame) THEN Load(t, d - Len(frame) + place(r))
                     ELSE cpu[r]]
        /\ psp' = [of |-> t, depth |-> d - Len(frame)]
        /\ fpca' = fp
        /\ mode' = IF cpu'["r14"] \in {EXC_RETURN(TRUE), EXC_RETURN(FALSE)}
                   THEN "thread" ELSE "fault"

\* The first task is the kernel's current task, the idle task.
SVC_Handler ==
    /\ mode = "SVC"
    /\ Resume(currentTask, stackPointer[currentTask])
    /\ UNCHANGED <<memory, stackPointer, added, currentTask, tcb, pendSV, gPtrPort,
                   work>>

\* The clock is started a millisecond before its first tick, long after SVC.
SysTick_Handler ==
    /\ mode = "thread"
    /\ setGlobalPointers
    /\ pendSV' = TRUE
    /\ UNCHANGED <<memory, stackPointer, added, currentTask, tcb, psp, cpu, fpca,
                   mode, work>>

\* Up to the call of taskSwitchContext.
PendSV_Handler ==
    /\ mode = "thread" /\ pendSV
    /\ LET exc   == [cpu EXCEPT !["r14"] = EXC_RETURN(fpca)]
           frame == Hardware(fpca) \o Saved(fpca)
       IN  /\ memory' = [memory EXCEPT ![psp.of] =
                           Push(@, psp.depth, [i \in DOMAIN frame |-> exc[frame[i]]])]
           /\ tcb' = [psp EXCEPT !.depth = @ + Len(frame)]
    /\ psp' = [psp EXCEPT !.depth = @ + Len(Hardware(fpca))]
    /\ cpu' = [r \in Register |-> IF r \in Image(Core) \cup {"r14"} THEN Unknown
                                  ELSE cpu[r]]
    /\ fpca' = FALSE
    /\ pendSV' = FALSE
    /\ mode' = "PendSV"
    /\ UNCHANGED <<stackPointer, added, currentTask, gPtrPort, work>>

\* Nothing to load if the task stays the same.
LoadPointer(t) ==
    tcb' = IF tcb # [of |-> t, depth |-> stackPointer'[t]]
           THEN [of |-> t, depth |-> stackPointer'[t]] ELSE tcb

\* The kernel keeps the idle task only if it is current.
taskSwitchContext ==
    /\ mode = "PendSV"
    /\ IF gPtrPort
       THEN /\ stackPointer' = [stackPointer EXCEPT ![currentTask] = tcb.depth]
            /\ currentTask' \in (added \ {Idle}) \cup {currentTask}
            /\ LoadPointer(currentTask')
       ELSE UNCHANGED <<stackPointer, currentTask, tcb>>
    /\ mode' = "PendSV return"
    /\ UNCHANGED <<memory, added, psp, cpu, fpca, pendSV, gPtrPort, work>>

ReturnFromPendSV ==
    /\ mode = "PendSV return"
    /\ Resume(tcb.of, tcb.depth)
    /\ UNCHANGED <<memory, stackPointer, added, currentTask, tcb, pendSV, gPtrPort,
                   work>>

-----------------------------------------------------------------------------

Next ==
    \/ \E t \in Task : initialiseStack(t)
    \/ callFirstTime \/ Continue \/ yield
    \/ startScheduler \/ startFirstTask \/ SVC_Handler \/ SysTick_Handler
    \/ PendSV_Handler \/ taskSwitchContext \/ ReturnFromPendSV

Spec == Init /\ [][Next]_vars

-----------------------------------------------------------------------------
(***************************************************************************)
(* Properties.                                                             *)
(***************************************************************************)

\* The type invariant; no stack pointer leaves its stack.
TypeOK ==
    /\ \A t \in Task : DOMAIN memory[t] = 1 .. STACK
    /\ stackPointer \in [Task -> Depth]
    /\ added \subseteq Task
    /\ currentTask \in Task
    /\ tcb \in Pointer /\ psp \in Pointer
    /\ DOMAIN cpu = Register
    /\ fpca \in BOOLEAN /\ pendSV \in BOOLEAN /\ gPtrPort \in BOOLEAN
    /\ mode \in {"main", "started", "SVC", "thread", "PendSV", "PendSV return", "fault"}
    /\ work \in [Task -> 0 .. 2]

\* The task the kernel calls current runs on its own stack, although the pointers
\* to it are kept in the task's data, in tcb and in the processor, and tcb begins
\* as something else.  It finds its registers and its part of the stack as it
\* left them, the floating-point registers if it uses them, whatever ran in
\* between; before its first instruction it finds the entry into callFirstTime.
ContextKept ==
    LET t == currentTask
    IN  /\ mode # "fault"
        /\ mode = "thread" =>
          /\ psp.of = t
          /\ IF work[t] = 0
             THEN /\ cpu["pc"] = Word("callFirstTime") /\ cpu["lr"] = Word("taskExitError")
                  /\ cpu["xPSR"] = Word("thumb")
                  /\ psp.depth = 0 /\ ~fpca
             ELSE /\ \A r \in Register \ {"r14"} :
                       r \notin Float \/ fpca => cpu[r] = <<t, work[t], r>>
                  /\ \A i \in 1 .. psp.depth : memory[t][i] = <<t, work[t], "local">>

=============================================================================

----------------------------- MODULE PortProofs -----------------------------
(***************************************************************************)
(* Theorems about Port.tla, for every set of tasks and every width of the  *)
(* nesting counter.                                                        *)
(***************************************************************************)
EXTENDS Port, TLAPS

LEMMA TypeInit == PortInit => PortTypeOK
<1> SUFFICES ASSUME PortInit
             PROVE  PortTypeOK
    OBVIOUS
<1>1. 0 \in Counter /\ "out" \in Point
      BY PortAssumption DEF Counter, Point
<1>2. inner \in [Thread -> BOOLEAN] /\ switchDue \in BOOLEAN
      BY Zenon DEF PortInit
<1>3. at \in [Thread -> Point] /\ copy \in [Thread -> Counter]
      BY <1>1 DEF PortInit
<1> QED BY <1>1, <1>2, <1>3 DEF PortInit, PortTypeOK

\* Only the counter needs arithmetic.
LEMMA CounterWraps == ASSUME NEW n \in Int
                      PROVE  n % CounterSize \in Counter
BY PortAssumption DEF Counter

LEMMA TypeStep == PortTypeOK /\ [PortNext]_portVars => PortTypeOK'
<1> SUFFICES ASSUME PortTypeOK, [PortNext]_portVars
             PROVE  PortTypeOK'
    OBVIOUS
<1> USE DEF PortTypeOK
<1>1. ASSUME NEW t \in Thread, ThreadStep(t)
      PROVE  PortTypeOK'
  <2>1. CASE BeginEnter(t)
        BY <2>1 DEF BeginEnter, ReadCounter, Goto, Point
  <2>2. CASE BeginInnerEnter(t)
        BY <2>2 DEF BeginInnerEnter, ReadCounter, Goto, Point
  <2>3. CASE Increment(t)
    <3>1. copy[t] + 1 \in Int
          BY DEF Counter
    <3>2. nestingCounter' \in Counter
          BY <2>3, <3>1, CounterWraps DEF Increment, StoreCounter
    <3> QED BY <2>3, <3>2 DEF Increment, StoreCounter, Goto, Point
  <2>4. CASE setInterruptPriorityAndGetOriginal(t)
        BY <2>4 DEF setInterruptPriorityAndGetOriginal, Goto, Point
  <2>5. CASE RequestSwitch(t)
        BY <2>5 DEF RequestSwitch
  <2>6. CASE BeginExit(t)
        BY <2>6 DEF BeginExit, ReadCounter, Goto, Point
  <2>7. CASE Decrement(t)
    <3>1. copy[t] - 1 \in Int
          BY DEF Counter
    <3>2. nestingCounter' \in Counter
          BY <2>7, <3>1, CounterWraps DEF Decrement, StoreCounter
    <3> QED BY <2>7, <3>2 DEF Decrement, StoreCounter, Goto, Point
  <2>8. CASE enableInterrupts(t)
        BY <2>8 DEF enableInterrupts, Goto, Point
  <2> QED BY <1>1, <2>1, <2>2, <2>3, <2>4, <2>5, <2>6, <2>7, <2>8 DEF ThreadStep
<1>2. CASE TakeSysTick
      BY <1>2 DEF TakeSysTick
<1>3. CASE TakePendSV
      BY <1>3 DEF TakePendSV
<1>4. CASE DeviceInterrupt
      BY <1>4 DEF DeviceInterrupt
<1>5. CASE UNCHANGED portVars
      BY <1>5 DEF portVars
<1> QED BY <1>1, <1>2, <1>3, <1>4, <1>5 DEF PortNext

\* The counter, shared and incremented with interrupts enabled, never leaves
\* its width.
THEOREM TypeCorrect == PortSpec => []PortTypeOK
BY TypeInit, TypeStep, PTL DEF PortSpec

-----------------------------------------------------------------------------
(***************************************************************************)
(* The inductive invariant.  The mask is up while the running task is in   *)
(* its section, so no exception is taken there, so the task that runs      *)
(* stays the only one in a section; nothing is needed of the counter,      *)
(* because the only thread step that lowers the mask also leaves.          *)
(***************************************************************************)
OnlyCurrent == \A t \in Thread : InSection(t) => t = running

IInv == PortTypeOK /\ SectionMasked /\ OnlyCurrent

LEMMA InvStep ==
    ASSUME Masks(MAX_SYSCALL_INTERRUPT_PRIORITY), IInv, [PortNext]_portVars
    PROVE  IInv'
<1>1. PortTypeOK /\ PortTypeOK'
      BY TypeStep DEF IInv
<1>2. ASSUME NEW t \in Thread, ThreadStep(t)
      PROVE  SectionMasked' /\ OnlyCurrent'
  <2>1. running = t /\ running' = t
        BY <1>2 DEF ThreadStep, At, BeginEnter, BeginInnerEnter, Increment,
             setInterruptPriorityAndGetOriginal, RequestSwitch, BeginExit,
             Decrement, enableInterrupts, ReadCounter, StoreCounter
  <2>2. \A u \in Thread \ {t} : at'[u] = at[u] /\ inner'[u] = inner[u]
        BY <1>1, <1>2 DEF PortTypeOK, ThreadStep, BeginEnter, BeginInnerEnter, Increment,
             setInterruptPriorityAndGetOriginal, RequestSwitch, BeginExit,
             Decrement, enableInterrupts, ReadCounter, StoreCounter, Goto
  <2>3. OnlyCurrent'
        BY <2>1, <2>2 DEF IInv, OnlyCurrent, InSection
  <2>4. SectionMasked'
    <3>1. CASE setInterruptPriorityAndGetOriginal(t)
          BY <3>1 DEF setInterruptPriorityAndGetOriginal, SectionMasked, Masked
    <3>2. CASE enableInterrupts(t)
          BY <1>1, <2>1, <3>2 DEF enableInterrupts, Goto, PortTypeOK, SectionMasked, InSection
    <3>3. CASE BeginInnerEnter(t) \/ BeginExit(t) \/ RequestSwitch(t)
          BY <1>1, <2>1, <3>3 DEF BeginInnerEnter, BeginExit, RequestSwitch, ReadCounter,
               Goto, At, IInv, PortTypeOK, SectionMasked, InSection, Masked
    <3>4. CASE BeginEnter(t) \/ Increment(t) \/ Decrement(t)
          BY <1>1, <2>1, <3>4 DEF BeginEnter, Increment, Decrement, ReadCounter,
               StoreCounter, Goto, At, IInv, PortTypeOK, SectionMasked, InSection, Masked
    <3> QED BY <1>2, <3>1, <3>2, <3>3, <3>4 DEF ThreadStep
  <2> QED BY <2>3, <2>4
<1>3. CASE TakeSysTick \/ TakePendSV \/ DeviceInterrupt
  <2>1. \A t \in Thread : ~InSection(t)
        BY <1>3 DEF TakeSysTick, TakePendSV, DeviceInterrupt, IInv, PortTypeOK,
             SectionMasked, OnlyCurrent
  <2>2. running' \in Thread /\ \A t \in Thread : ~InSection(t)'
        BY <1>1, <1>3, <2>1 DEF TakeSysTick, TakePendSV, DeviceInterrupt, PortTypeOK,
             InSection
  <2> QED BY <1>1, <2>2 DEF IInv, SectionMasked, OnlyCurrent
<1>4. CASE UNCHANGED portVars
  <2>1. BASEPRI' = BASEPRI /\ running' = running /\ at' = at /\ inner' = inner
        BY <1>4 DEF portVars
  <2> QED BY <1>1, <2>1 DEF IInv, SectionMasked, OnlyCurrent, InSection, Masked
<1> QED BY <1>1, <1>2, <1>3, <1>4 DEF IInv, PortNext

LEMMA Invariance ==
    ASSUME Masks(MAX_SYSCALL_INTERRUPT_PRIORITY)
    PROVE  PortSpec => []IInv
<1>1. ASSUME PortInit
      PROVE  IInv
  <2>1. PortTypeOK
        BY <1>1, TypeInit
  <2>2. \A t \in Thread : at[t] = "out" /\ inner[t] = FALSE
        BY <1>1 DEF PortInit
  <2>3. \A t \in Thread : ~InSection(t)
        BY <2>2 DEF InSection
  <2> QED BY <2>1, <2>3 DEF IInv, PortTypeOK, SectionMasked, OnlyCurrent
<1>2. IInv /\ [PortNext]_portVars => IInv'
      BY InvStep
<1> QED BY <1>1, <1>2, PTL DEF PortSpec

\* On a part where the value written to BASEPRI masks anything, no exception
\* is taken inside a critical section.
THEOREM SectionsStayMasked ==
    ASSUME Masks(MAX_SYSCALL_INTERRUPT_PRIORITY)
    PROVE  PortSpec => []SectionMasked
<1>1. IInv => SectionMasked
      BY DEF IInv
<1> QED BY <1>1, Invariance, PTL

\* On such a part critical sections exclude each other, although their
\* counter may lose increments.
THEOREM SectionsStayExclusive ==
    ASSUME Masks(MAX_SYSCALL_INTERRUPT_PRIORITY)
    PROVE  PortSpec => []SectionsExclusive
<1>1. IInv => SectionsExclusive
      BY DEF IInv, OnlyCurrent, SectionsExclusive
<1> QED BY <1>1, Invariance, PTL

=============================================================================

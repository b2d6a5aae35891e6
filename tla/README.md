# A verification project for CppRTOS

CppRTOS is a preemptive real-time kernel in C++ for the Cortex-M7: tasks with
fixed levels, sleeping, semaphores, mutexes, event groups, message queues,
software timers, counters and alarms. This directory holds TLA+ models of all
of these, the TLC runs that check them on small instances, and TLAPS proofs for
every size.

## 1. Inventory

| Component (source) | State it keeps | Operations | Works with | What makes it correct |
|---|---|---|---|---|
| Scheduler (`Kernel.cpp`) | ready bits per level, level bitmap, current task, `highestTaskPriority`, sleeping bits, wake-up times | `addTask`, `setTaskReady`, `resetTaskReady`, `addSleepingTask`, `selectHighestPriorityTask`, `tick`, `start` | called by tasks, by all synchronisation objects and by the two exceptions | the three records of who is ready agree; nobody ready is unreachable; sleepers wake on time; a most urgent ready task runs; a task that gave up the processor does not run on |
| Task (`Task.cpp`, `Task.hpp`) | state, level, base level, stack | `sleep`, `yield`, `setPriority` | scheduler | `sleep` returns after its ticks and not before |
| Idle task (`IdleTask.hpp`) | none | endless loop | task 0 of the scheduler | runs only before the first switch |
| Port (`Ports/GCC/ARMCM7`) | tick count, nesting counter, BASEPRI, PENDSVSET; each task's stack, where its saved stack pointer is | `enterCritical`, `exitCritical`, `yield`, SysTick, PendSV, SVC, `initialiseStack`, `startScheduler` | everything | critical sections are not interrupted and exclude each other (that they leave mask and counter as they found them is promised, and not kept: see 6); a task is resumed on its own stack with its own registers |
| Semaphore (`Semaphore.cpp`) | count, waiting queue | `wait`, `signal`, `flush` (the last two also from interrupts) | scheduler, Fifo | a caller that waits leaves only when released, in order of arrival; no permit lies unused or is handed out twice; a finite wait ends at its time (promised, not kept) |
| Fifo (`Fifo.hpp`) | buffer, head, tail, size | `enqueue`, `dequeue`, `getAt`, `removeAt` | inside semaphore, mutex, event group, message queue | a bounded queue, across every wrap of the indices |
| Mutex (`Mutex.cpp`) | owner, count, blocked queue; changes the owner's level | `acquire`, `release` | scheduler, Fifo | one owner; nobody queued is forgotten; changes of level neither lose nor double a ready bit; a timed call that gives up leaves no trace (that its time ends it while it is blocked is promised, not kept) |
| Event group (`EventGroup.cpp`) | flags, waiting queue, the flags each task wants | `waitForEvents`, `setEvents`, `clearEvents` | scheduler, Fifo | no lost wake-up; a task released by a flag returns by that flag or by its time; a wait ends at its time while blocked, and clearing a flag spares the tasks it has released (both promised, not kept) |
| Message queue (`MessageQueue.hpp`) | a Fifo of messages, a mutex, a spin lock | `send`, `receive`, `getNumMsg` | mutex, port | no message lost or invented but by a race of tasks between look and critical section; the mutex is given back (not kept) |
| Software timer (`Timer.cpp`) | period, remaining ticks, running | `start`, `stop`, `reset`, `setPeriod`, `tick` | tick of the scheduler, user callbacks | one callback per period, a stopped timer stays quiet |
| Counter and alarm (`Counter.cpp`, `Alarm.cpp`) | count; start, alarm and cycle time | `Increment`, `CheckAndTrigger`, `Start` | tick of the scheduler; makes tasks ready | triggers once, at its time, across the wrap; the task it activates is schedulable |
| Kernel factory (`KernelFactory.hpp`) | the pointer to the kernel | `create`, `destroy` | everything | no use of a destroyed kernel |

How they interact: a task calls a synchronisation object, which changes the
scheduler's lists inside a critical section and afterwards requests PendSV
through `yield`; PendSV runs `selectHighestPriorityTask`. SysTick advances the
clock, runs `Kernel::tick`, which wakes sleepers and serves timers, counters and
alarms with their callbacks, and requests PendSV as well. Device interrupts call
`signal`, `flush`, `setEvents` or `send` between any two steps. So the hard
behaviour is interleaving: what happens between a critical section and the yield
after it, what is done outside a section, what two exceptions in a row find.
`PROJECT.json` lists each hazard at its line, with the properties that cover it
or the reason none does.

## 2. Modules

| Module | Models | How state and actions correspond to the code |
|---|---|---|
| `Kernel` | scheduler, sleep, yield, SysTick, PendSV | variables are the members of `Kernel` (bit words as sets of task ids), each task's state and level, `PENDSVSET`, and where each thread is between the critical section of `sleep` or `wait` and the end of `yield`. One action per critical section, handler or request |
| `Semaphore` | wait, signal, flush | extends `Kernel` with `count`, `waitingQueue`, and where each task is inside a call; the `setTaskReady(self)` that `signal` and `flush` make after their critical section is two steps, the read of the ready word and its write |
| `EventGroup` | waitForEvents, setEvents, clearEvents | extends `Kernel` with `eventFlags`, `waitingTasks`, each task's `flagsToWaitFor`, who is inside a wait, for which flags and until when. The loop of a released task (look, yield, look again) is two actions and the switch between them. The walk of `setEvents` over the queue, by an index that stays where it is when a task is removed, is a recursive function, `Walk`, of its turns, `Turn` |
| `Mutex` | acquire, release, destructor, and the levels of tasks | extends `Kernel` with `count`, `owner`, `blockedTasks` and each task's base level. `acquire` is a loop of critical sections: `Take`, `WaitOn` and `GiveUp` are its turns, with a yield in between. `setPriority` changes a level while the ready bit may stay at the old one. What `isAnyTaskBlocking` answers is left open, because it reads through `getAt`, which ignores `head`. `Take` enters twice and leaves once: on a port that counts (`MaskStays`) the mask stays up, and neither SysTick nor PendSV is taken any more (`masked`) |
| `MessageQueue` | send, receive | the number of messages, where each task is inside its call, and the mutex as `AbstractMutex` describes it. The tests of `isFull` and `isEmpty` are steps of their own, before the critical section |
| `TickServices` | timers, counters and alarms, their slots in the kernel, and the rest of `Kernel::tick` | members of `Timer`, `Counter` and `Alarm`, the kernel's arrays, and how far SysTick is in its three loops. A callback is a place between two steps at which operations may be called, each as one step. In a task ticks come between the stores of an operation: `start`, `setPeriod` and `Alarm::Start` are two stores; `addTimer` is a walk from slot to slot (`TryNextSlot`), the store of the slot and that of the mark (`allocate`); `removeTimer` is three stores (`removeTimer`, `deallocate`, `FreeTimerSlot`); `addAlarm` is a walk and a store. `pending` says what the interrupted operation does next |
| `Context` | initial stack frame, start of the first task, context switch | the stacks word by word, the registers, and the three places that hold a stack pointer (`TaskData`, `tcb`, the processor). What the processor does on exception entry and return is external |
| `Fifo` | the circular buffer | the members of `Fifo`; the loop of `removeAt` is one function over the slots |
| `Port` | critical sections: nesting counter, BASEPRI, three exceptions | `nestingCounter++` and `--` are a read and a write; `Mutex::acquire` contributes its second `enterCritical` |
| `AbstractScheduler`, `AbstractSemaphore`, `AbstractEvents`, `AbstractMutex`, `BoundedQueue`, `Countdown` | what each component promises, without ready bits, queues in memory or exceptions. A wait may also end by its time in those of the semaphore, the event group and the mutex, as the headers say | `Kernel`, `Semaphore`, `EventGroup`, `Mutex` and `Fifo` refine the one of their name; in `TickServices` both timers and alarms refine `Countdown` |
| `KernelProofs`, `SemaphoreProofs`, `EventGroupProofs`, `MutexProofs`, `QueueProofs`, `TickServicesProofs`, `ContextProofs`, `PortProofs` | theorems | each extends the module it is about; `QueueProofs` is about `Fifo` and `MessageQueue` |
| `MC...` | constants of the runs | `MCMutex` and `MCPort` extend several modules that share no state and let one of them move while the others stay at their start: one run for each, side by side |

The parts fit together by refinement. `Kernel` takes a critical section as one
step: that is what `Interface.hpp` promises, and `Port` examines whether the port
keeps the promise. It does if the value written to BASEPRI masks the exceptions
(theorem `SectionsStayMasked`), and it does not with the value and the number of
priority bits in the source (run `MCPortBits`). Everything `Kernel` and the
modules built on it establish is therefore about the program on a port whose
critical sections work. Such a port may still count nested sections, as this one
does; then the mask stays up from the first successful `acquire` on. `Mutex` has
both kinds (`MaskStays`); its run is about the kind that does not count, where
more can happen. Of the other kind it has what happens until the next yield: that
yield returns with the switch still pending, and what the task does then is not
followed. Of a mutex or a message queue ever getting on nothing is claimed.
`Kernel` takes a switch as a change of the current task, which `Context` shows to
be what the port's code does. The waiting queues are sequences, which is what
`Fifo` is shown to implement. `getAt` is not part of that: it counts from slot 0
and not from `head`, so after a `dequeue` it misses queued items. The event group
may use it because nobody dequeues from its queue; the mutex does use it after
dequeuing, hence the open answer of `isAnyTaskBlocking`. `MessageQueue`
instantiates `AbstractMutex`, which `Mutex` implements.

Exceptions. SysTick and PendSV have the same, lowest priority, so neither
preempts the other; a pending PendSV is served before thread code and, by its
lower exception number, before a SysTick that is due at the same time. Device
interrupts are more urgent and come between any two steps.

Definitions whose comment starts with "Fault" are not part of a specification.
Each is the definition below it with a plausible mistake; put in its place, it
must make one of the properties fail, which shows that the property can.

## 3. Runs

All constants and bounds are in the `.cfg` files and the `MC` modules.

| Run | Question | Result |
|---|---|---|
| `MCKernel` | Do the ready bits, sleeping bits, states and levels agree in every state; is every ready task in reach of the search; is a task that never yields ever lost; is `AbstractScheduler` implemented, which wakes a sleeper at its tick and not before; do sleepers wake, does a strictly most urgent task run? Idle task and three tasks, three application levels, task 1 never sleeps, sleeps of 0 to 2 ticks, tasks added before and after start | holds |
| `MCKernelSleepwalk` | The same with nobody always ready: does the caller of `sleep` stay off the processor? (`IdleTask.hpp:43`, `Task.hpp:418`) | violated: the search never visits the idle level, finds nobody and leaves `currentTask`, so `sleep` returns at once |
| `MCKernelSlice` | Does a task that runs and did not yield make way only to one at least as urgent? (`Semaphore_Test.cpp:90`) | violated: the search compares the ready tasks, of which the running task is none, so a tick gives the processor to any ready task |
| `MCSemaphore` | Waiting tasks, one of which also signals, and interrupt handlers that signal or flush at any time: do queue, states and count agree, is `AbstractSemaphore` implemented, does a released most urgent task return from `wait`? | holds |
| `MCSemaphoreSelf` | A task signals: does every ready task keep its ready bit? (`Kernel.cpp:85`) | violated: a tick inside `setTaskReady(self)`, outside the critical section, switches away from a task marked ready without a bit |
| `MCSemaphoreTimeout` | Does a wait with a finite time end? (`Semaphore.hpp:109`) | violated: the deadline is tested only before the task blocks, and nothing wakes a blocked task for its time |
| `MCEventGroup` | Two waiting tasks, tasks and interrupt handlers that set and clear flags at any time: is a task ever left asleep over its flag, does the walk over the queue pass a task over, do queue, states and flags agree, is `AbstractEvents` implemented, does a released most urgent task return by a flag or by its time? | holds |
| `MCEventGroupClear` | Does a task that a flag released return when the flag is cleared again? (`EventGroup.h:91`) | violated: it looks at the flags once more, and waits on out of the queue, where no later `setEvents` finds it |
| `MCMutex` | Three questions side by side. `Mutex`: four tasks on two levels, one always ready, that acquire with and without a time, release and destroy: is there one holder, do queue and states agree, does a released mutex leave its queue asleep, do the changes of level lose or double a task in the ready list, is `AbstractMutex` implemented? `Fifo`: four slots, three items, every order of calls: indices consistent, no unwritten slot read, `BoundedQueue` implemented? `MessageQueue`: two senders, two receivers, interrupt handlers, two slots: is a message lost or invented only by a race between the look at the queue and the critical section? | holds |
| `MCTickServices` | Two timers, a counter and two alarms that tasks and callbacks register, start, stop and change at any moment: are slots consistent, is `Countdown` implemented by timers and by alarms, across every wrap? | holds |
| `MCPort` | Two questions side by side. `Context`: three tasks, with and without floating-point registers, switched in any order: does each run on its own stack, enter at `callFirstTime`, and find its registers and stack as it left them? `Port`: three tasks, a mask that works: are sections left alone by exceptions and by other tasks, although the counter they share can lose updates? | holds |
| `MCPortBits` | The same with the source's four priority bits (`Interface.hpp:58`) | violated: 5 has no bit among the upper four |

The six violated runs are differences between the code and what is written of it,
listed under "findings" in `PROJECT.json`. `MCSemaphoreTimeout` stands for three:
the event group (`EventGroup.h:67`) and the mutex (`Mutex.hpp:87`) promise a timeout
in much the same words and test it only before the task blocks, too.

Two more differences came up, and the models have the code as it is. `send`
returns Success for a message it drops when another sender took the last slot
after it had looked (`MessageQueue.hpp:102`, against `MessageQueue.hpp:43`), which
`LossNeedsRace` describes. The level lent to the owner of a mutex is never given
back: `setPriority` changes the base level as well, to which `resetPriority` returns
(`Task.hpp:202`, `Mutex.cpp:118`), which is the theorem `LentLevelsAreKept`.

Why the bounds are enough.

- `MCKernel`. Three application tasks give the always ready one and two others
  that compete, on three levels: equal, adjacent and distant levels all occur.
  Tasks run from tick 1 on and the clock saturates at `MaxTick` = 3; a sleep beyond
  it is not started, so no wake-up time is out of reach. A sleep of 2 begun at
  tick 1 is not due at tick 2: a sleeper woken early would show. Sleeps
  of 0, 1 and 2 also make several sleepers due at once and one after another.
  No task sleeps in the runs of the synchronisation objects.
- `MCKernelSlice`, `MCSemaphoreTimeout`, `MCEventGroupClear`: two or three
  application tasks are enough to show the violation.
- `MCSemaphore`. Two waiters are needed to see the order of service, a maximum
  count of two to see a permit kept below, at and above it. With `MaxTick` = 3 a
  wait of one tick begun at tick 1 finds its time over at tick 3, if it is
  released and looks again without a permit.
- `MCEventGroup`. Two waiters and two flags give a task released alone, with
  another and not at all. Tasks run from tick 1 on and the clock stops at tick
  2, so a timeout of one tick begun at tick 1 ends and one begun at tick 2 never
  does, which stands for `WAIT_FOREVER`.
- `MCMutex`. Three tasks besides the always ready one give an owner, a first
  and a second in line; two levels give a waiter more urgent than the owner or
  not. The only finite time is zero, over when the task first looks again.
  For the buffer, four slots let head and tail wrap with the buffer empty, partly
  filled and full. For the message queue, two tasks of each kind are the least that
  race, and two slots make the queue full, empty and neither; there is no clock: a
  finite time may be over at any look.
- `MCTickServices`. The 32-bit counts have four values, so that each wraps, and a
  period of zero takes a whole turn. `SetCounterValue` sets 0 and the maximum, from
  which the counter stands still for one tick. The constraint `Together` keeps
  two of the four timers and alarms in use at a time, one that a call is at work
  on included: interference needs two, since they share only their counter and the
  order of slots. Beside an alarm a timer has only one of the two periods.
  Registration of an object already registered, and registration by a callback,
  are not modelled (see below).
- `MCPort`. A stack of twenty words holds one word of the task's own and the
  longest frame. The sixteen floating-point registers saved together count as
  one word. The first tick comes after the SVC. The counter has eight
  values instead of 2^32, so that it also wraps.

The always ready task. With nobody ready the scheduler does not keep its
promises (`MCKernelSleepwalk`). The runs and theorems about the scheduler hence
name a set `Spinners` of tasks that never sleep nor wait, added before start
below the idle level; an application can meet that by a background task. A
semaphore without one returns from `wait` unreleased for the same reason.

Fairness. `FairSpec` of `Kernel` assumes only that the two exceptions are taken: weak
fairness of PendSV, which stays pending until served, and strong fairness of
SysTick, which is periodic and stays pending in the interrupt controller while
PendSV is served. Nothing is assumed of tasks, which may loop forever.
`SemFairSpec` and `EventFairSpec` add that a task inside a call or a `yield` gets on
when it has the processor again and again: a tick lasts many thousands of
instructions (`EventFairSpec` needs it only of tasks that wait). Calls are never
assumed to be made. `Mutex` and `MessageQueue` state no fairness and no liveness:
after the second `enterCritical` of `Mutex::acquire` (`Mutex.cpp:51`) a port that
counts takes neither exception again, and a receiver polls, so one that is less
urgent than another ready task starves.

## 4. Proofs

Every invariant, action property and refinement that a passing run checks is also
a theorem, for every value of the constants that the assumptions allow. The
proofs have the same plan everywhere: an inductive invariant, which TLC
confirmed on the runs' instances before it was proved, one lemma per action or
group of actions that preserves it, and for a refinement one more lemma per
action that maps the step to a step of the abstract specification or a stutter.

What the theorems assume:

- of `Kernel`, `Semaphore`, `EventGroup` and `Mutex`: that some task is in `Spinners`
  (see above). `TypeCorrect` of `Kernel` does without.
- of `Port`: that the value written to BASEPRI masks something.
- of `Context`: that the tasks' own code leaves nineteen words of each stack for a
  context frame. The kernel does not look, so this is the application's
  duty; then no handler leaves the stack either. `TypeOK` and
  `ContextKept` would be false without it.
- of `TickServices`: that timers, alarms and "no object" are different things, that
  counters are set to at most their maximum and alarm times are below it
  (a counter never counts up to a time that is not).
- of the others: capacities above zero.

`KernelProofs`. The inductive invariant `IInv` is the conjunction of the
checked invariants and five facts they need: the idle task is current, and no
switch pending, until start (`BootsIdle`); task ids not yet given out have no bit
and no other trace (`FreshReady`); the idle task stays ready once left
(`IdleStays`); only the current task is marked running (`OneRuns`); every
level in use is between `highestTaskPriority` and the idle level
(`LevelsBounded`). `NoSpinnerLost` is what makes the rest inductive: the
search always finds somebody, so a context switch always replaces a task that
gave up the processor.

`SemaphoreProofs`. `IInv` does not carry over: a task that signals marks itself
ready outside the critical section and may be switched away without a bit, or
write back a word of bits read earlier. `SInv` keeps what is left of it. A bit is
set only for a ready task of that level, but not the other way round
(`BitsOfReady`); between its two steps a signaller is ready and has no bit
(`SelfWithoutBit`); what it read is still in the ready list as long as it has the
processor, with every spinner of its level (`CopyCurrent`), so the stale word it
stores erases no spinner; and application code runs in a task that is running or
in the middle of that (`Awake`). From these follow that queue, states and calls
agree, that the count never exceeds the larger of the maximum and the initial
count (the constructor does not compare them), that no permit lies idle over a
queue, and that the semaphore implements `AbstractSemaphore`. That ready tasks
keep their bits is no theorem: it is false (`MCSemaphoreSelf`).

`EventGroupProofs`. Here `IInv` does hold, and `EInv` joins it with `EventTypeOK`,
`WaitersBlocked` and `NoMissedEvent`. The work is in `setEvents`, which walks the queue
by an index and removes tasks on its way. `WalkReleases` shows that the walk
passes nobody over: it releases those who wait for a flag that is set, all of them,
and leaves the others in the queue, each once. Its invariant is that nobody
before the index has such a flag, and that every turn moves the index or shortens
the queue (`RemoveAtKeeps`). The induction on the number of turns is over a set
of numbers (`NatSetInduction`, from the well-foundedness of `<`), since the library's
induction theorems take an operator.

`MutexProofs`. `IInv` fails for two other reasons: `setPriority` changes a
level while the ready bit stays where it was, and the destructor makes tasks
ready without a bit. `MInv` says instead that a task has at most one bit, at a
level the search visits, whatever its level is now (`BitsOfReady`); that every
ready task which no destructor lost has one (`ReadyHasBit`); that the idle task
keeps its own (`IdleBit`); and that only tasks that give the processor up try or
own (`Contenders`), so that no spinner ever changes its level. `LentLevelsAreKept`
is the last of the differences in section 3, as a theorem: base level and level
are equal at all times, hence a release restores nothing.

`QueueProofs`, on `Fifo`. Besides `FifoTypeOK` the invariant needs that slots before
`head` have been written (`Written`), since `head` only grows between wraps; so
`getAt` below `getSize` never returns an unwritten slot. `FifoImplementsQueue` maps
the buffer to the sequence of its occupied slots from `head` on: `PlaceDistance`
relates the n-th place to a slot across the wrap, and each of the three changes
of the buffer is shown place by place to append, drop the first, or close the
gap.

`QueueProofs`, on `MessageQueue`. A message reported as sent is lost, and a receive
succeeds without one, only if another task took the slot or the message after
the caller had looked. The inductive invariant adds to the type invariant that
senders are inside `send` and receivers inside `receive` (`Roles`), and that who
has looked and has not been overtaken still finds what it saw (`RoomSeen`,
`MessageSeen`): those lines are what every step of another task must keep.

`TickServicesProofs`. `TypeOK` says that a timer in a slot is marked allocated,
unless a call that adds or removes it is between its stores, and that no timer is
in two slots. `TInv` adds what an interrupted call is about to store
(`PendingKnown`); that what is being registered is in no slot, and a timer being
removed in none but the one about to be freed, whatever callbacks did since
(`PendingSlots`); where each loop of `tick` may be (`LoopSlots`); that the timer
whose callback runs is in the slot the loop is at, unless the callback removed it
(`CallerServed`); and that no alarm is in two slots (`AlarmsOnce`). The last two
are why a tick counts once for a timer or an alarm. The converse of the first fact
is false: a callback that removes a timer between the two stores of its `addTimer`
leaves it marked allocated in no slot. Timers and alarms are shown to implement
`Countdown`, with the remainder of a wrapping subtraction as the clock
(`DecrementedCount`, `IncrementedCount`, `Elapsed`, `SinceGoesOn`).

`ContextProofs`. A stack is `Frozen` below a pointer if a handler that pops from
that pointer gets the task's registers and leaves its own words alone. `CInv` says
that every task that does not execute is frozen at its saved stack pointer, the
task being switched is frozen at the one in `tcb`, and the one that executes has
its registers and its words. `InitialFrozen` shows it of the frame that
`initialiseStack` writes, `SavedFrozen` of what PendSV pushes, and `Resumed` is
the other half: popping a frozen stack gives back the registers. The frames are
compared word by word (`FrameWords`), with and without the floating-point part.

`PortProofs`. For every set of tasks and every width of the counter critical
sections are not interrupted and exclude each other. Nothing about the counter
is needed: the only step of a thread that lowers the mask is its last.

Only model-checked: the properties of liveness (`SleepersWake`, `MostUrgentRuns`,
`ReleasedWaiterReturns` of the semaphore and of the event group), because fairness is
beyond the prover.

## 5. Plan

Left: `Kernel` with alarms that make tasks ready from SysTick, and what of
`NoSpinnerLost` such alarms leave; a theorem that joins `Port` and `Kernel`,
instead of the argument of section 2 that a critical section is one step.

## 6. Not modelled

Deadlines of blocked tasks. No code ends a wait of a semaphore, an event group
or a mutex whose time is over while the task is blocked. `MCSemaphoreTimeout` shows it
of the semaphore; the event group and the mutex have no run of their own.
`AbstractSemaphore`, `AbstractEvents` and `AbstractMutex` allow a timeout then, as the
headers say, but require none, so refining them says nothing of deadlines.

What the port does to interrupts outside its sections is not stated as a
property: the counter is incremented before the mask is raised
(`Port.cpp:94`), so a switch in between, like the second `enterCritical` of
`Mutex::acquire`, leaves the counter above zero and the mask up after `exitCritical`.
`SectionMasked` and `SectionsExclusive` hold all the same, and would hold of a port that
never lowered the mask. For the same reason nothing is claimed of the progress of
mutexes and message queues.

Return of a task from `run`: `callFirstTime` would return into `taskExitError`,
which masks interrupts and never returns; the frame gets its address from a
pointer to a virtual member function, which is not a code address. Tasks in this
project do not return, and a SysTick between `cpsie` and `svc` in
`startInitialTask`, before there is a process stack, does not come.

Mutex: what happens to a waiting task of a destroyed mutex, which would use
freed memory (`OneReadyBit` names these tasks as the only ones lost); a new
owner is not raised to the level of the remaining waiters, and no property says
so. Message queue: `send` keeps the mutex once it has found room after waiting,
so every sender that finds the queue full later waits for good; no progress of
senders is claimed. The spin lock is used only inside critical sections.

Timers, counters and alarms: registering the same object twice; registering
in a callback, which would race the walk of `addTimer` in a task for a free slot; an
alarm time at or above the maximum of its counter; an alarm's activation of a task,
which sets its state without a ready bit and yields inside SysTick
(`Alarm.cpp:63`), is part of `TickServices` as an event and not carried into `Kernel`.
A one-shot timer started again in its own callback, or ticked between the two
stores of a `start`, is stopped although it was just started: the module has
that, but `Countdown` leaves open what a call of the user sets a clock to, so that
no property tells this outcome from the intended one. Nor is it said to what time
an alarm that rang is set.

The 64-bit tick count read in two halves (`Port.hpp:193`), which disagree for an
instant once in fifty days; the kernel factory, whose `create` is called once
before start and whose `destroy` is not called; the unit tests' port (it raises no
exceptions), the target application and the vendored ST drivers. Adding tasks is
one step and one caller at a time: the code numbers a task before its critical
section, and two tasks that add others at once are left out. The priority bitmap
is kept as state but read by nothing in the code, and `addTask` does not maintain it.

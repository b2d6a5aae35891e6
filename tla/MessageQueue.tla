----------------------------- MODULE MessageQueue ---------------------------
(***************************************************************************)
(* The message queue (Include/MessageQueue.hpp): tasks and interrupt       *)
(* handlers send, tasks receive.  send and receive look at the queue before*)
(* they enter the critical section in which they change it.  A task that   *)
(* finds the queue full waits with a mutex, of which this module knows what*)
(* AbstractMutex says (Mutex.tla implements it).                           *)
(*                                                                         *)
(* Tasks are threads whose steps interleave freely: a tick may come after  *)
(* any instruction and hand the processor to any ready task, also while a  *)
(* task has the mutex (on a port that counts nested sections and masks     *)
(* nothing comes then, see Mutex.tla, and fewer interleavings remain).     *)
(* Which of them the scheduler gives is left open, so nothing is said of a *)
(* receiver that polls ever getting the processor again.  The messages     *)
(* are only counted (that a Fifo keeps their order is shown in Fifo.tla),  *)
(* and there is no clock: a call with a finite time may find it over       *)
(* whenever it looks.  The spin lock is taken and released inside a        *)
(* critical section, where it is always free.                              *)
(***************************************************************************)
EXTENDS Naturals, Sequences

CONSTANTS
    MAX_MESSAGES,       \* the capacity of the queue
    Sender, Receiver,   \* the tasks that call send, those that call receive
    NoOwner             \* the null owner of the mutex

ASSUME QueueAssumption ==
    /\ MAX_MESSAGES \in Nat \ {0}
    /\ Sender \cap Receiver = {} /\ NoOwner \notin Sender

Task    == Sender \cup Receiver
Timeout == {"NoWait", "finite", "WAIT_FOREVER"}

VARIABLES
    queued,     \* the number of messages in MessageQueue::queue
    holder, line, trying,   \* MessageQueue::mtx, see AbstractMutex
    at,         \* where each task is inside send or receive
    timeout,    \* the argument of its call
    overtaken   \* history: tasks whose last look at the queue no longer holds

mtx  == <<holder, line, trying>>
msgVars == <<queued, mtx, at, timeout, overtaken>>

Mutex == INSTANCE AbstractMutex WITH Caller <- Sender, Nobody <- NoOwner

\* "acquire": inside acquire of the mutex; "check": holding it, about to test
\* the loop condition; "release": found the queue full; "again": released, before
\* the yield and the next acquire; "store", "fetch": past the last test, before
\* the critical section; "look": at the loop condition of receive.
SendPoint    == {"out", "acquire", "check", "release", "again", "store"}
ReceivePoint == {"out", "look", "fetch"}

Full  == queued = MAX_MESSAGES
Empty == queued = 0

MsgInit ==
    /\ queued = 0
    /\ Mutex!Init
    /\ at = [t \in Task |-> "out"]
    /\ timeout = [t \in Task |-> "NoWait"]
    /\ overtaken = {}

Goto(t, p) == at' = [at EXCEPT ![t] = p] /\ UNCHANGED timeout

Leave(t) ==
    /\ at' = [at EXCEPT ![t] = "out"]
    /\ timeout' = [timeout EXCEPT ![t] = "NoWait"]

-----------------------------------------------------------------------------
(***************************************************************************)
(* send.                                                                   *)
(***************************************************************************)

\* The first test.  A full queue and no time to wait is refused at once; a
\* task that has the mutex already is told Timeout.
BeginSend(t, n) ==
    /\ at[t] = "out"
    /\ timeout' = [timeout EXCEPT ![t] = n]
    /\ \/ ~Full /\ UNCHANGED mtx /\ at' = [at EXCEPT ![t] = "store"]
       \/ Full /\ n # "NoWait" /\ Mutex!Call(t) /\ at' = [at EXCEPT ![t] = "acquire"]
    /\ overtaken' = overtaken \ {t}
    /\ UNCHANGED queued

WaitForMutex(t) ==
    /\ at[t] = "acquire"
    /\ Mutex!Wait(t)
    /\ UNCHANGED <<queued, at, timeout, overtaken>>

\* Returns Timeout.
MutexTimeout(t) ==
    /\ at[t] = "acquire" /\ timeout[t] = "finite"
    /\ Mutex!Quit(t)
    /\ Leave(t)
    /\ UNCHANGED <<queued, overtaken>>

MutexAcquired(t) ==
    /\ at[t] = "acquire"
    /\ Mutex!Take(t)
    /\ Goto(t, "check")
    /\ UNCHANGED <<queued, overtaken>>

\* Fault: the loop is left after one turn.
PassCheckOnce(t) ==
    /\ at[t] = "check"
    /\ Goto(t, "store")
    /\ overtaken' = overtaken \ {t}
    /\ UNCHANGED <<queued, mtx>>

\* The loop is left with the mutex held, and nothing ever releases it.
PassCheck(t) ==
    /\ at[t] = "check" /\ ~Full
    /\ Goto(t, "store")
    /\ overtaken' = overtaken \ {t}
    /\ UNCHANGED <<queued, mtx>>

FailCheck(t) ==
    /\ at[t] = "check" /\ Full
    /\ Goto(t, "release")
    /\ UNCHANGED <<queued, mtx, overtaken>>

\* With a finite time the call may return Timeout here.
ReleaseMutex(t) ==
    /\ at[t] = "release"
    /\ Mutex!Release(t)
    /\ \/ Goto(t, "again")
       \/ timeout[t] = "finite" /\ Leave(t)
    /\ UNCHANGED <<queued, overtaken>>

AcquireAgain(t) ==
    /\ at[t] = "again"
    /\ Mutex!Call(t)
    /\ Goto(t, "acquire")
    /\ UNCHANGED <<queued, overtaken>>

\* Fault: the queue grows beyond its slots.
EnqueueBeyond == queued' = queued + 1

\* Fifo::enqueue drops what does not fit, and nobody is told.
Enqueue == queued' = IF Full THEN queued ELSE queued + 1

\* Returns Success.  Other senders past their test have been overtaken.
Store(t) ==
    /\ at[t] = "store"
    /\ Enqueue
    /\ Leave(t)
    /\ overtaken' = (overtaken \ {t}) \cup {s \in Sender \ {t} : at[s] = "store"}
    /\ UNCHANGED mtx

\* An interrupt handler tests and stores without a task in between.
SendFromISR ==
    /\ ~Full
    /\ Enqueue
    /\ overtaken' = overtaken \cup {s \in Sender : at[s] = "store"}
    /\ UNCHANGED <<mtx, at, timeout>>

-----------------------------------------------------------------------------
(***************************************************************************)
(* receive.                                                                *)
(***************************************************************************)
BeginReceive(t, n) ==
    /\ at[t] = "out"
    /\ timeout' = [timeout EXCEPT ![t] = n]
    /\ \/ ~Empty /\ at' = [at EXCEPT ![t] = "fetch"]
       \/ Empty /\ n # "NoWait" /\ at' = [at EXCEPT ![t] = "look"]
    /\ overtaken' = overtaken \ {t}
    /\ UNCHANGED <<queued, mtx>>

\* Fault: the loop ends at its first turn.
LookOnce(t) ==
    /\ at[t] = "look"
    /\ Goto(t, "fetch")
    /\ overtaken' = overtaken \ {t}
    /\ UNCHANGED <<queued, mtx>>

\* The loop polls: empty, it yields and looks again.
Look(t) ==
    /\ at[t] = "look" /\ ~Empty
    /\ Goto(t, "fetch")
    /\ overtaken' = overtaken \ {t}
    /\ UNCHANGED <<queued, mtx>>

\* Returns Timeout.
ReceiveTimeout(t) ==
    /\ at[t] = "look" /\ Empty /\ timeout[t] = "finite"
    /\ Leave(t)
    /\ UNCHANGED <<queued, mtx, overtaken>>

\* Fifo::dequeue of an empty queue returns a default message: Success as well.
Fetch(t) ==
    /\ at[t] = "fetch"
    /\ queued' = IF Empty THEN 0 ELSE queued - 1
    /\ Leave(t)
    /\ overtaken' = (overtaken \ {t}) \cup {r \in Receiver \ {t} : at[r] = "fetch"}
    /\ UNCHANGED mtx

-----------------------------------------------------------------------------

SendStep(t) ==
    \/ \E n \in Timeout : BeginSend(t, n)
    \/ WaitForMutex(t) \/ MutexTimeout(t) \/ MutexAcquired(t)
    \/ PassCheck(t) \/ FailCheck(t) \/ ReleaseMutex(t) \/ AcquireAgain(t)
    \/ Store(t)

ReceiveStep(t) ==
    \/ \E n \in Timeout : BeginReceive(t, n)
    \/ Look(t) \/ ReceiveTimeout(t) \/ Fetch(t)

MsgNext ==
    \/ \E t \in Sender : SendStep(t)
    \/ \E t \in Receiver : ReceiveStep(t)
    \/ SendFromISR

MsgSpec == MsgInit /\ [][MsgNext]_msgVars

-----------------------------------------------------------------------------
(***************************************************************************)
(* Properties.                                                             *)
(***************************************************************************)

\* The type invariant; a task waits in the line of the mutex only inside send,
\* and a task that is about to test the queue again or to release the mutex
\* holds it.
MsgTypeOK ==
    /\ queued \in 0 .. MAX_MESSAGES
    /\ holder \in Sender \cup {NoOwner}
    /\ line \in Seq(Sender) /\ trying \subseteq Sender
    /\ at \in [Task -> SendPoint \cup ReceivePoint]
    /\ timeout \in [Task -> Timeout]
    /\ overtaken \subseteq Task
    /\ \A t \in Sender : t \in trying <=> at[t] = "acquire"
    /\ \A t \in Sender : at[t] \in {"check", "release"} => holder = t

\* send tells Success and loses the message (MessageQueue.hpp:153, Fifo.hpp:43)
\* only if another sender stored a message after this one had found room.
LossNeedsRace ==
    [][\A t \in Sender : Store(t) /\ t \notin overtaken => queued' = queued + 1]_msgVars

\* receive tells Success and delivers no message (MessageQueue.hpp:201,
\* Fifo.hpp:60) only if another receiver took one after this one had seen it.
NothingNeedsRace ==
    [][\A t \in Receiver : Fetch(t) /\ t \notin overtaken => queued' = queued - 1]_msgVars

=============================================================================

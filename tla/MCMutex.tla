------------------------------- MODULE MCMutex ------------------------------
(***************************************************************************)
(* Model checking of Mutex.tla, of the buffer it queues tasks in (Fifo.tla)*)
(* and of the message queue made of both (MessageQueue.tla).  One of the   *)
(* three moves while the other two stay where they start: a run of each,   *)
(* side by side.                                                           *)
(***************************************************************************)
EXTENDS Mutex, Fifo, MessageQueue

OneSpinner == {1}
NoTicks    == {}
Finite     == {0}

CONSTANTS a, b, c, s1, s2, r1, r2

Items     == {a, b, c}
Senders   == {s1, s2}
Receivers == {r1, r2}

PartsInit == MutexInit /\ FifoInit /\ MsgInit

PartsNext ==
    \/ MutexNext /\ FifoInit /\ MsgInit /\ UNCHANGED <<fifoVars, msgVars>>
    \/ FifoNext /\ MutexInit /\ MsgInit /\ UNCHANGED <<allVars, msgVars>>
    \/ MsgNext /\ MutexInit /\ FifoInit /\ UNCHANGED <<allVars, fifoVars>>

PartsSpec == PartsInit /\ [][PartsNext]_<<allVars, fifoVars, msgVars>>

=============================================================================

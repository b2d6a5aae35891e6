-------------------------------- MODULE Fifo --------------------------------
(***************************************************************************)
(* The circular buffer (Include/Fifo.hpp) that holds the waiting tasks of  *)
(* semaphores, mutexes and event groups and the messages of a queue.       *)
(* Its callers serialise the calls; each is one step.                      *)
(*                                                                         *)
(* removeAt takes a slot of the buffer, and its callers (EventGroup.cpp)   *)
(* pass one that holds a queued item; that is what FifoNext enumerates.    *)
(***************************************************************************)
EXTENDS Integers

CONSTANTS
    Item,        \* the values of the template parameter T that callers pass
    Default,     \* T(), the value of a default-constructed T
    MAX_ITEMS    \* the other template parameter

ASSUME FifoAssumption ==
    /\ MAX_ITEMS \in Nat \ {0}
    /\ Default \notin Item

VARIABLES
    buffer, head, tail, size,
    result       \* what the last dequeue returned

fifoVars == <<buffer, head, tail, size, result>>

Slot    == 0 .. MAX_ITEMS - 1
Succ(i) == (i + 1) % MAX_ITEMS
Pred(i) == (i - 1 + MAX_ITEMS) % MAX_ITEMS

FifoInit ==
    /\ buffer = [i \in Slot |-> Default]
    /\ head = 0 /\ tail = 0 /\ size = 0
    /\ result = Default

\* Fault: a full buffer takes one more item.
enqueueBeyond(item) ==
    /\ size <= MAX_ITEMS
    /\ buffer' = [buffer EXCEPT ![tail] = item]
    /\ tail' = Succ(tail)
    /\ size' = size + 1
    /\ UNCHANGED <<head, result>>

enqueue(item) ==
    /\ IF size < MAX_ITEMS
       THEN /\ buffer' = [buffer EXCEPT ![tail] = item]
            /\ tail' = Succ(tail)
            /\ size' = size + 1
       ELSE UNCHANGED <<buffer, tail, size>>
    /\ UNCHANGED <<head, result>>

dequeue ==
    /\ IF size > 0
       THEN /\ result' = buffer[head]
            /\ head' = Succ(head)
            /\ size' = size - 1
       ELSE result' = Default /\ UNCHANGED <<head, size>>
    /\ UNCHANGED <<buffer, tail>>

getAt(index) == IF index < MAX_ITEMS THEN buffer[index] ELSE Default

\* Steps from slot i forward to slot j.
Distance(i, j) == (j - i + MAX_ITEMS) % MAX_ITEMS

\* Faults: the last item takes the place of the removed one; size is kept.
removeAtSwap(pos) ==
    /\ buffer' = [buffer EXCEPT ![pos] = buffer[Pred(tail)]]
    /\ tail' = Pred(tail)
    /\ size' = size - 1
    /\ UNCHANGED <<head, result>>

removeAtSizeKept(pos) ==
    /\ buffer' = [i \in Slot |->
                    IF Distance(pos, i) < Distance(pos, Pred(tail))
                    THEN buffer[Succ(i)] ELSE buffer[i]]
    /\ tail' = Pred(tail)
    /\ UNCHANGED <<head, size, result>>

\* The loop moves every item after pos, up to the last one, one slot back.
removeAt(pos) ==
    /\ buffer' = [i \in Slot |->
                    IF Distance(pos, i) < Distance(pos, Pred(tail))
                    THEN buffer[Succ(i)] ELSE buffer[i]]
    /\ tail' = Pred(tail)
    /\ size' = size - 1
    /\ UNCHANGED <<head, result>>

\* The slots that hold the queued items.
Occupied == {i \in Slot : Distance(head, i) < size}

FifoNext ==
    \/ \E x \in Item : enqueue(x)
    \/ dequeue
    \/ \E pos \in Occupied : removeAt(pos)

FifoSpec == FifoInit /\ [][FifoNext]_fifoVars

-----------------------------------------------------------------------------

\* The type invariant, with the relation of the three indices: tail is size
\* slots after head.
FifoTypeOK ==
    /\ buffer \in [Slot -> Item \cup {Default}]
    /\ head \in Slot /\ tail \in Slot
    /\ size \in 0 .. MAX_ITEMS
    /\ tail = (head + size) % MAX_ITEMS
    /\ result \in Item \cup {Default}

\* getAt, called with an index below getSize as Mutex::isAnyTaskBlocking and
\* EventGroup do, never returns a slot that was never written: the pointer
\* they dereference is not null, wherever head and tail have wrapped to.
GetAtReadsWritten == \A i \in 0 .. size - 1 : getAt(i) # Default

\* The buffer implements BoundedQueue: what dequeue returns is what was put
\* in first, and removeAt takes out one item and keeps the order of the rest.
Queue == INSTANCE BoundedQueue WITH
    Capacity <- MAX_ITEMS, Nothing <- Default, taken <- result,
    queue <- [k \in 1 .. size |-> buffer[(head + k - 1) % MAX_ITEMS]]

ImplementsQueue == Queue!Spec

=============================================================================

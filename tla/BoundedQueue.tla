---------------------------- MODULE BoundedQueue ----------------------------
(***************************************************************************)
(* What Fifo promises: a queue of at most Capacity items, whose front can  *)
(* be taken and any of whose items can be removed.                         *)
(***************************************************************************)
EXTENDS Naturals, Sequences, SequencesExt

CONSTANTS Item, Capacity, Nothing

VARIABLES
    queue,      \* the items, front first
    taken       \* what the last call that takes an item returned

vars == <<queue, taken>>

Init == queue = <<>> /\ taken = Nothing

\* An item offered to a full queue is lost.
Put(x) ==
    /\ queue' = IF Len(queue) < Capacity THEN Append(queue, x) ELSE queue
    /\ UNCHANGED taken

Take ==
    IF queue = <<>>
    THEN taken' = Nothing /\ UNCHANGED queue
    ELSE taken' = Head(queue) /\ queue' = Tail(queue)

Drop(k) ==
    /\ queue' = RemoveAt(queue, k)
    /\ UNCHANGED taken

Next ==
    \/ \E x \in Item : Put(x)
    \/ Take
    \/ \E k \in 1 .. Len(queue) : Drop(k)

Spec == Init /\ [][Next]_vars

=============================================================================

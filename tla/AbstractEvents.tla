--------------------------- MODULE AbstractEvents ---------------------------
(***************************************************************************)
(* What an event group promises its callers (EventGroup.h): a caller that  *)
(* finds none of its flags set sleeps until one of them is set or its time *)
(* is over, and setting a flag wakes everybody who came for it.  Who was   *)
(* woken leaves the call whatever becomes of the flags; when, is left open.*)
(***************************************************************************)
EXTENDS Naturals

CONSTANTS Caller, Flag, Wishes, Patience

VARIABLES
    flags,     \* the flags that are set
    asleep,    \* callers that wait for an event
    inside,    \* callers that did not leave the call at once
    wish,      \* the flags each of them came for
    due,       \* the time from which it may leave unwoken
    now

vars == <<flags, asleep, inside, wish, due, now>>

Init ==
    /\ flags = {} /\ asleep = {} /\ inside = {}
    /\ wish = [t \in Caller |-> {}]
    /\ due = [t \in Caller |-> 0]
    /\ now = 0

Satisfied(t, F) == wish[t] \cap F # {}

FallAsleep(t, F, n) ==
    /\ t \notin inside /\ F \cap flags = {} /\ n > 0
    /\ asleep' = asleep \cup {t}
    /\ inside' = inside \cup {t}
    /\ wish' = [wish EXCEPT ![t] = F]
    /\ due' = [due EXCEPT ![t] = now + n]
    /\ UNCHANGED <<flags, now>>

\* Everybody who came for one of the flags wakes, and nobody else.
Set(F) ==
    /\ flags' = flags \cup F
    /\ asleep' = {t \in asleep : ~Satisfied(t, flags')}
    /\ UNCHANGED <<inside, wish, due, now>>

Clear(F) ==
    /\ flags' = flags \ F
    /\ UNCHANGED <<asleep, inside, wish, due, now>>

Return(t) ==
    /\ inside' = inside \ {t}
    /\ wish' = [wish EXCEPT ![t] = {}]
    /\ due' = [due EXCEPT ![t] = 0]
    /\ UNCHANGED <<flags, now>>

Leave(t) ==
    /\ t \in inside \ asleep
    /\ Return(t)
    /\ UNCHANGED asleep

TimeOut(t) ==
    /\ t \in asleep /\ now >= due[t]
    /\ Return(t)
    /\ asleep' = asleep \ {t}

Advance ==
    /\ now' = now + 1
    /\ UNCHANGED <<flags, asleep, inside, wish, due>>

Next ==
    \/ Advance
    \/ \E F \in Wishes : Set(F) \/ Clear(F)
    \/ \E t \in Caller : \/ \E F \in Wishes, n \in Patience : FallAsleep(t, F, n)
                         \/ Leave(t) \/ TimeOut(t)

Spec == Init /\ [][Next]_vars

=============================================================================

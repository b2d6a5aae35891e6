------------------------------ MODULE Countdown -----------------------------
(***************************************************************************)
(* What a software timer or an alarm promises.  Every tick takes one from  *)
(* all countdowns in progress; a countdown that has come to zero rings     *)
(* before the next tick, once, and nothing else rings.  The user changes   *)
(* countdowns between ticks and whenever something has rung, but not while *)
(* the tick is being served.                                               *)
(***************************************************************************)
EXTENDS Naturals

CONSTANTS
    Clock,  \* the timers, or the alarms
    Off     \* of a countdown that is not in progress: no number, no clock

VARIABLES
    left,       \* ticks until each clock rings, or Off
    ringing,    \* the clock that rings, or Off
    free        \* the user has the processor

vars == <<left, ringing, free>>

Init ==
    /\ left = [c \in Clock |-> Off]
    /\ ringing = Off
    /\ free = TRUE

\* Nothing may be left to ring.
Pass ==
    /\ ringing = Off /\ \A c \in Clock : left[c] # 0
    /\ left' = [c \in Clock |-> IF left[c] = Off THEN Off ELSE left[c] - 1]
    /\ free' = FALSE
    /\ UNCHANGED ringing

\* The clock begins anew or stops, and nobody else is disturbed.
Ring(c) ==
    /\ ~free /\ ringing = Off /\ left[c] = 0
    /\ left'[c] \in (Nat \ {0}) \cup {Off}
    /\ left' = [left EXCEPT ![c] = left'[c]]
    /\ ringing' = c
    /\ free' \in BOOLEAN

\* The user touches any clocks, directly or through what they share.
Set ==
    /\ free
    /\ \A c \in Clock : left'[c] \in Nat \cup {Off}
    /\ left' = [c \in Clock |-> left'[c]]
    /\ UNCHANGED <<ringing, free>>

Silence == ringing' = Off /\ free' \in BOOLEAN /\ UNCHANGED left

Turn == free' = ~free /\ UNCHANGED <<left, ringing>>

Next == Pass \/ Set \/ Silence \/ Turn \/ \E c \in Clock : Ring(c)

Spec == Init /\ [][Next]_vars

=============================================================================

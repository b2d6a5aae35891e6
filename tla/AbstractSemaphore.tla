------------------------- MODULE AbstractSemaphore --------------------------
(***************************************************************************)
(* What a counting semaphore promises its callers: a caller of wait that   *)
(* finds no permit stays inside the call until a signal hands it one, in   *)
(* the order of arrival, or a flush lets everybody go, or until the limit  *)
(* it gave has passed.  How long a limit is, is left open: that a wait with*)
(* a limit ends at all is not part of this promise (see FiniteWaitEnds in  *)
(* Semaphore.tla).                                                         *)
(***************************************************************************)
EXTENDS Naturals, Sequences, SequencesExt

CONSTANTS Caller, MaxPermits, InitialPermits

VARIABLES
    permits,    \* permits nobody holds
    line,       \* the callers waiting, first come first
    inside,     \* callers inside a call that did not succeed at once
    limited     \* those of them that will not wait forever

vars == <<permits, line, inside, limited>>

Init ==
    /\ permits = InitialPermits
    /\ line = <<>>
    /\ inside = {} /\ limited = {}

Take ==
    /\ permits > 0
    /\ permits' = permits - 1
    /\ UNCHANGED <<line, inside, limited>>

Queue(t) ==
    /\ permits = 0 /\ t \notin inside
    /\ line' = Append(line, t)
    /\ inside' = inside \cup {t}
    /\ limited' \in {limited, limited \cup {t}}
    /\ UNCHANGED permits

\* A permit goes to the first in line, or is kept; above the maximum it is lost.
Signal ==
    /\ IF line # <<>>
       THEN line' = Tail(line) /\ UNCHANGED permits
       ELSE /\ permits' = IF permits < MaxPermits THEN permits + 1 ELSE permits
            /\ UNCHANGED line
    /\ UNCHANGED <<inside, limited>>

Flush ==
    /\ line' = <<>>
    /\ UNCHANGED <<permits, inside, limited>>

Return(t) ==
    /\ inside' = inside \ {t} /\ limited' = limited \ {t}
    /\ UNCHANGED permits

\* A caller that is no longer in line leaves the call.
Leave(t) == t \in inside /\ t \notin ToSet(line) /\ Return(t) /\ UNCHANGED line

\* Its time is over: it leaves the line and the call at once.
TimeOut(t) ==
    /\ t \in limited
    /\ \E i \in DOMAIN line : line[i] = t /\ line' = RemoveAt(line, i)
    /\ Return(t)

Next ==
    \/ Take
    \/ Signal
    \/ Flush
    \/ \E t \in Caller : Queue(t) \/ Leave(t) \/ TimeOut(t)

Spec == Init /\ [][Next]_vars

=============================================================================

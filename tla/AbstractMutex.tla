---------------------------- MODULE AbstractMutex ---------------------------
(***************************************************************************)
(* What a mutex promises its callers: one holder, who alone releases it; a *)
(* caller that finds it held waits in line until a release lets the first  *)
(* in line try again, or until its time is over.  A caller that was let go *)
(* has no claim: another may take the mutex first, and then it waits at the*)
(* end of the line.  When a call ends for its time is left open.           *)
(***************************************************************************)
EXTENDS Naturals, Sequences, SequencesExt

CONSTANTS Caller, Nobody

VARIABLES
    holder,     \* who has the mutex, or Nobody
    line,       \* the callers asleep, first come first
    trying      \* the callers inside acquire

vars == <<holder, line, trying>>

Init ==
    /\ holder = Nobody
    /\ line = <<>>
    /\ trying = {}

Awake(t) == t \in trying /\ \A i \in DOMAIN line : line[i] # t

Call(t) ==
    /\ t \notin trying /\ holder # t
    /\ trying' = trying \cup {t}
    /\ UNCHANGED <<holder, line>>

Take(t) ==
    /\ Awake(t) /\ holder = Nobody
    /\ holder' = t
    /\ trying' = trying \ {t}
    /\ UNCHANGED line

Wait(t) ==
    /\ Awake(t) /\ holder # Nobody
    /\ line' = Append(line, t)
    /\ UNCHANGED <<holder, trying>>

\* The time of a call is over: its caller returns without the mutex.
TimeOut(t) ==
    /\ trying' = trying \ {t}
    /\ \E i \in DOMAIN line : line[i] = t /\ line' = RemoveAt(line, i)
    /\ UNCHANGED holder

Quit(t) ==
    /\ Awake(t) /\ holder # Nobody
    /\ trying' = trying \ {t}
    /\ UNCHANGED <<holder, line>>

Release(t) ==
    /\ holder = t
    /\ holder' = Nobody
    /\ line' = IF line = <<>> THEN <<>> ELSE Tail(line)
    /\ UNCHANGED trying

\* The mutex ceases to exist, and with it the line.
Abandon ==
    /\ line' = <<>>
    /\ UNCHANGED <<holder, trying>>

Next ==
    \/ Abandon
    \/ \E t \in Caller : Call(t) \/ Take(t) \/ Wait(t) \/ Quit(t) \/ TimeOut(t)
                          \/ Release(t)

Spec == Init /\ [][Next]_vars

=============================================================================

------------------------- MODULE AbstractScheduler --------------------------
(***************************************************************************)
(* What the scheduler promises its tasks, without ready bits, sleeping     *)
(* bits or a pending context switch: who may run, who may give up the      *)
(* processor, who is woken and when.  Kernel.tla is shown to implement it. *)
(***************************************************************************)
EXTENDS Naturals

CONSTANTS
    Task,       \* the application tasks
    Rank,       \* the priority levels, 0 the most urgent
    IdleRank,   \* tasks at this level are never chosen
    Delay       \* the durations tasks ask to sleep for

VARIABLES
    phase,      \* "absent", "runnable", "running", "asleep" or "waiting"
    rank,       \* the level a task was created with
    due,        \* when a sleeping task has to be woken
    now         \* the clock

vars == <<phase, rank, due, now>>

Phase == {"absent", "runnable", "running", "asleep", "waiting"}

Init ==
    /\ phase = [t \in Task |-> "absent"]
    /\ rank = [t \in Task |-> IdleRank]
    /\ due = [t \in Task |-> 0]
    /\ now = 0

Create(t, r) ==
    /\ phase[t] = "absent"
    /\ phase' = [phase EXCEPT ![t] = "runnable"]
    /\ rank' = [rank EXCEPT ![t] = r]
    /\ UNCHANGED <<due, now>>

\* Time passes: every sleeper that is due is woken by this very tick, and no
\* other task is.
Elapse ==
    /\ now' \in {now, now + 1}
    /\ phase' = [t \in Task |->
                   IF phase[t] = "asleep" /\ due[t] <= now' THEN "runnable"
                                                            ELSE phase[t]]
    /\ UNCHANGED <<rank, due>>

Eligible(t) == phase[t] = "runnable" /\ rank[t] < IdleRank

\* One of the most urgent runnable tasks takes the processor; the task that
\* had it, if it still wanted it, stays runnable.
Dispatch(t) ==
    /\ Eligible(t)
    /\ \A u \in Task : Eligible(u) => rank[t] <= rank[u]
    /\ phase' = [u \in Task |-> IF u = t THEN "running"
                                ELSE IF phase[u] = "running" THEN "runnable"
                                ELSE phase[u]]
    /\ UNCHANGED <<rank, due, now>>

\* Only the running task goes to sleep or starts to wait.
Doze(t, ticks) ==
    /\ phase[t] = "running"
    /\ phase' = [phase EXCEPT ![t] = "asleep"]
    /\ due' = [due EXCEPT ![t] = now + ticks]
    /\ UNCHANGED <<rank, now>>

Await(t) ==
    /\ phase[t] = "running"
    /\ phase' = [phase EXCEPT ![t] = "waiting"]
    /\ UNCHANGED <<rank, due, now>>

Release(t) ==
    /\ phase[t] = "waiting"
    /\ phase' = [phase EXCEPT ![t] = "runnable"]
    /\ UNCHANGED <<rank, due, now>>

Next ==
    \/ Elapse
    \/ \E t \in Task : \/ \E r \in Rank : Create(t, r)
                       \/ Dispatch(t)
                       \/ \E n \in Delay : Doze(t, n)
                       \/ Await(t)
                       \/ Release(t)

Spec == Init /\ [][Next]_vars

=============================================================================

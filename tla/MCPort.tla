------------------------------- MODULE MCPort -------------------------------
(***************************************************************************)
(* Model checking of the two models of the port, Context.tla and Port.tla. *)
(* One of the two moves while the other stays where it starts (Context, at *)
(* the first of the three starts of Port): a run of each, side by side.    *)
(***************************************************************************)
EXTENDS Context, Port

CONSTANTS t1, t2, t3

\* Two tasks to switch between, besides the one that is current at start.
Tasks == {"idle", "a", "b"}

\* An empty stack and one with a word of the task's own.
Depths == {0, 1}

\* The tasks that enter critical sections.
ThreeTasks == {t1, t2, t3}
OneUser    == {t1}

BothInit == Init /\ PortInit

BothNext ==
    \/ Next /\ PortInit /\ running = t1 /\ UNCHANGED portVars
    \/ PortNext /\ Init /\ UNCHANGED vars

BothSpec == BothInit /\ [][BothNext]_<<vars, portVars>>

=============================================================================

----------------------------- MODULE MCSemaphore ----------------------------
(***************************************************************************)
(* Constants for model checking Semaphore.tla.                             *)
(***************************************************************************)
EXTENDS Semaphore

OneSpinner == {1}

\* One of the tasks that wait also signals.
OneSignaller == {2}

\* No task sleeps: MCKernel has every sleep.
Ticks  == {}
\* No wait, and one that may end: tasks run from tick 1 on.
Finite == {0, 1}

=============================================================================

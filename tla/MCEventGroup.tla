---------------------------- MODULE MCEventGroup ----------------------------
(***************************************************************************)
(* Constants for model checking EventGroup.tla.                            *)
(***************************************************************************)
EXTENDS EventGroup

OneSpinner == {1}

Ticks == {}

\* One flag, and both; the second flag alone is only ever waited for together
\* with the first.
Subsets == {{"f"}, {"f", "g"}}
Flags   == {"f", "g"}

\* No wait, and one that ends within the model if it begins at tick 1, the
\* first at which a task runs, and outlives the clock if it begins at tick 2.
Waits == {0, 1}

\* WAIT_FOREVER: a time that the clock of the model, which stops at 2, never
\* reaches.
Endless == {3}

=============================================================================

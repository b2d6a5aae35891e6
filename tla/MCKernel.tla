------------------------------ MODULE MCKernel ------------------------------
(***************************************************************************)
(* Constants for model checking Kernel.tla.                                *)
(***************************************************************************)
EXTENDS Kernel

\* Task 1 never sleeps nor blocks, so somebody is always ready.
OneSpinner == {1}

\* Every task may sleep or block, as with the tasks of the test application.
NoSpinner == {}

Ticks == 0 .. 2

=============================================================================

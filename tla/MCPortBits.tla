----------------------------- MODULE MCPortBits -----------------------------
(***************************************************************************)
(* Constants for model checking Port.tla on a part that implements the     *)
(* upper four bits of a priority.                                          *)
(***************************************************************************)
EXTENDS Port

CONSTANTS t1, t2, t3

ThreeTasks == {t1, t2, t3}
NoUser     == {}

=============================================================================

---------------------------- MODULE MCExecution ----------------------------
(* Execution alone, on the few statements that the cfg files choose. *)
EXTENDS Execution, Samples
=============================================================================

------------------------ MODULE MCExecutionRuntime ------------------------
(* Small instances of ExecutionRuntime for TLC. *)
EXTENDS ExecutionRuntime

CONSTANT e1
=============================================================================

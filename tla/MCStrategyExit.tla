--------------------------- MODULE MCStrategyExit ---------------------------
(* Small instances of StrategyExit for TLC. *)
EXTENDS StrategyExit
=============================================================================

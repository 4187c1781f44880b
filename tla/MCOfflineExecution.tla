------------------------- MODULE MCOfflineExecution -------------------------
(* A small instance of OfflineExecution for TLC. *)
EXTENDS OfflineExecution, TLC

IdSymmetry == Permutations(EventIds)
=============================================================================

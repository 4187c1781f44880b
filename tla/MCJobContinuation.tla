------------------------- MODULE MCJobContinuation -------------------------
(* Instances of the job service for model checking. *)
EXTENDS JobContinuation
CONSTANTS eod, repair, radar, w1, w2, c1, c2, control
=============================================================================

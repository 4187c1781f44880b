--------------------------- MODULE MCMailDispatch ---------------------------
(* Small instances of MailDispatch for TLC. *)
EXTENDS MailDispatch
=============================================================================

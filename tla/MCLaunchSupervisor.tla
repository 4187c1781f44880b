------------------------- MODULE MCLaunchSupervisor -------------------------
(* Small instances of LaunchSupervisor for TLC. *)
EXTENDS LaunchSupervisor
=============================================================================

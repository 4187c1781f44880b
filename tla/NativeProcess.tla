---------------------------- MODULE NativeProcess ----------------------------
(***************************************************************************)
(* What one native process of the execution runtime promises to whoever    *)
(* supervises it: the order in which its lease, its broker session and its *)
(* startup receipt change (execution_runtime/__main__.py and service.py).  *)
(* SessionLifecycle is the process itself and implements this promise;     *)
(* LaunchSupervisor only relies on it.                                     *)
(***************************************************************************)
EXTENDS Naturals

VARIABLES
  process,  \* "running"; "exited": code 0, 1 or 2; "crashed": any other code
  lease,    \* native-session.owner: "none" yet, "held", or "released"
  session,  \* it has a session with the broker that it knows of
  receipt   \* startup-<id>.json: durable

native == <<process, lease, session, receipt>>

Statuses == {"NONE", "STARTING", "READY", "BLOCKED", "STOPPING", "STOPPED"}

\* operator: the reason is OPERATOR_STOP
Receipt == [status : Statuses, operator : BOOLEAN]
Says(status, operator) == [status |-> status, operator |-> operator]

NativeTypeOK ==
  /\ process \in {"running", "exited", "crashed"}
  /\ lease \in {"none", "held", "released"} /\ session \in BOOLEAN
  /\ receipt \in Receipt

Fresh ==
  /\ process = "running" /\ lease = "none" /\ session = FALSE
  /\ receipt = Says("NONE", FALSE)

-----------------------------------------------------------------------------
Acquire ==
  /\ receipt.status = "NONE" /\ lease = "none" /\ lease' = "held"
  /\ UNCHANGED <<process, session, receipt>>

(* Sessions come and go, but only under the lease. *)
Logs ==
  /\ lease = "held" /\ session' = ~session
  /\ UNCHANGED <<process, lease, receipt>>

Start ==
  /\ lease = "held" /\ receipt.status = "NONE" /\ receipt' = Says("STARTING", FALSE)
  /\ UNCHANGED <<process, lease, session>>

Announce ==
  /\ receipt.status = "STARTING"
  /\ receipt' \in {Says("READY", FALSE), Says("BLOCKED", FALSE)}
  /\ UNCHANGED <<process, lease, session>>

(* A stop is acknowledged whenever it comes, and the receipt says so first. *)
Acknowledge ==
  /\ receipt.status # "NONE" /\ receipt' = Says("STOPPING", TRUE)
  /\ UNCHANGED <<process, lease, session>>

Release ==
  /\ lease = "held" /\ ~session /\ lease' = "released"
  /\ UNCHANGED <<process, session, receipt>>

Leave ==
  /\ lease = "released"
  /\ \E operator \in BOOLEAN : (receipt.operator => operator) /\ receipt' = Says("STOPPED", operator)
  /\ UNCHANGED <<process, lease, session>>

Fail ==
  /\ receipt' = Says("BLOCKED", FALSE)
  /\ UNCHANGED <<process, lease, session>>

(* The operating system takes the lease and the connections back. *)
Ends(how) ==
  /\ process' = how /\ lease' = "released" /\ session' = FALSE
  /\ UNCHANGED receipt

Exit == receipt.status \in {"BLOCKED", "STOPPING", "STOPPED"} /\ Ends("exited")

Crash == Ends("crashed")

Native ==
  /\ process = "running"
  /\ \/ Acquire \/ Logs \/ Start \/ Announce \/ Acknowledge
     \/ Release \/ Leave \/ Fail \/ Exit \/ Crash

NativeSpec == Fresh /\ [][Native]_native
=============================================================================

--------------------------- MODULE LaunchSupervisor ---------------------------
(***************************************************************************)
(* The launch supervisor (execution_runtime/launch.py): it keeps one native *)
(* process running, restarts it when it crashes, and never when a stop was *)
(* accepted or the owner of the broker session is not known to be gone.    *)
(*                                                                         *)
(* What it knows of the process is a startup receipt, the exit code of a   *)
(* launcher that is not the process itself, and the lease.  The process is *)
(* the promise NativeProcess; a native process that no supervisor watches, *)
(* started by hand or orphaned, is only somebody who may hold the lease.   *)
(*                                                                         *)
(* An operator commented "Faulty" is a plausible mistake in the definition *)
(* that follows it, which some property must catch; no action uses it.     *)
(***************************************************************************)
EXTENDS NativeProcess

CONSTANTS
  MaxCrashes,   \* bound: deaths of the process, its launcher or the supervisor
  MaxLaunches   \* bound: times the operator launches

ASSUME LaunchAssumption == MaxCrashes \in Nat /\ MaxLaunches \in Nat

VARIABLES
  sup,       \* where the supervisor stands; "off": there is none
  knows,     \* stop_request is not None
  seen,      \* child_receipt
  stopSent,
  handle,    \* poll() of the child: "none", "alive", or how it ended
  status,    \* supervisor-status.json: status, and
  acked,     \* whether it names the stop request
  request,   \* supervisor-stop-<id>.json
  ownerAlive,  \* the desktop launcher that started the supervisor
  outside,   \* another native process holds native-session.owner
  final,     \* since the launch, a process accepted a stop or said BLOCKED
             \* before its launcher ended
  launches, crashes

supervisor == <<sup, knows, seen, stopSent, status, acked>>
world == <<request, ownerAlive, outside, launches, crashes>>
vars == <<native, supervisor, handle, world, final>>

NoReceipt == Says("NONE", FALSE)

TypeOK ==
  /\ NativeTypeOK
  /\ sup \in {"off", "proof", "decide", "spawn", "watch", "poll", "ask", "send",
              "reread", "judge", "prove", "backoff"}
  /\ knows \in BOOLEAN /\ stopSent \in BOOLEAN /\ acked \in BOOLEAN /\ request \in BOOLEAN
  /\ ownerAlive \in BOOLEAN /\ outside \in BOOLEAN /\ final \in BOOLEAN
  /\ seen \in Receipt
  /\ handle \in {"none", "alive", "exited", "crashed"}
  /\ status \in Statuses \cup {"RECOVERING"}
  /\ launches \in 0 .. MaxLaunches /\ crashes \in 0 .. MaxCrashes

Init ==
  /\ process = "exited" /\ lease = "released" /\ session = FALSE /\ receipt = NoReceipt
  /\ sup = "off" /\ knows = FALSE /\ seen = NoReceipt /\ stopSent = FALSE
  /\ handle = "none" /\ status = "NONE" /\ acked = FALSE
  /\ request = FALSE /\ ownerAlive = TRUE /\ outside = FALSE /\ final = FALSE
  /\ launches = 0 /\ crashes = 0

-----------------------------------------------------------------------------
(* The steps of the supervisor (supervise). *)

Goes(next) == sup' = next
(* publish: the status names the stop request as soon as one is known. *)
Publish(value) == status' = value /\ acked' = (acked \/ knows')
Quiet == UNCHANGED <<status, acked>>
Alone == UNCHANGED <<native, handle, world, final>>

(* Faulty: the file of the stop is looked at only until the child runs. *)
SeesOwnerOnly == ~ownerAlive

StopRequested == knows \/ request \/ ~ownerAlive

Unowned == lease # "held" /\ ~outside

(* Faulty: the exit of the launcher counts as the end of the process. *)
TrustsExit ==
  /\ sup = "proof" /\ Goes("decide") /\ Quiet
  /\ Alone /\ UNCHANGED <<knows, seen, stopSent>>

(* "A previous redirector exit alone does not prove native ownership ended." *)
Proof ==
  /\ sup = "proof" /\ UNCHANGED knows
  /\ IF Unowned THEN Goes("decide") /\ Quiet ELSE Goes("off") /\ Publish("BLOCKED")
  /\ Alone /\ UNCHANGED <<seen, stopSent>>

Decide ==
  /\ sup = "decide" /\ knows' = StopRequested
  /\ IF knows' THEN Goes("off") /\ Publish("STOPPED") ELSE Goes("spawn") /\ Quiet
  /\ Alone /\ UNCHANGED <<seen, stopSent>>

(* A process of before that has not ended yet is an outsider from now on. *)
Spawn ==
  /\ sup = "spawn" /\ Goes("watch")
  /\ process' = "running" /\ session' = FALSE /\ lease' = "none" /\ receipt' = NoReceipt
  /\ outside' = (outside \/ lease = "held")
  /\ handle' = "alive" /\ seen' = NoReceipt /\ stopSent' = FALSE
  /\ Quiet /\ UNCHANGED <<knows, request, ownerAlive, launches, crashes, final>>

WatchReads ==
  /\ sup = "watch" /\ UNCHANGED knows /\ Goes("poll") /\ seen' = receipt
  /\ IF receipt \in {seen, NoReceipt} THEN Quiet ELSE Publish(receipt.status)
  /\ Alone /\ UNCHANGED stopSent

(* Faulty: what was read before the exit is what the child said. *)
PollTrusts ==
  /\ sup = "poll" /\ Goes(IF handle = "alive" THEN "ask" ELSE "judge")
  /\ Quiet /\ Alone /\ UNCHANGED <<knows, seen, stopSent>>

Poll ==
  /\ sup = "poll" /\ Goes(IF handle = "alive" THEN "ask" ELSE "reread")
  /\ Quiet /\ Alone /\ UNCHANGED <<knows, seen, stopSent>>

(* A stop is sent only to the process that has shown its receipt.          *)
Ask ==
  /\ sup = "ask" /\ knows' = StopRequested
  /\ IF knows' THEN Publish("STOPPING") ELSE Quiet
  /\ Goes(IF knows' /\ ~stopSent /\ seen # NoReceipt THEN "send" ELSE "watch")
  /\ Alone /\ UNCHANGED <<seen, stopSent>>

(* The answer ok comes after the durable receipt. *)
SendOk ==
  /\ sup = "send" /\ process = "running" /\ receipt.operator
  /\ stopSent' = TRUE /\ Goes("watch")
  /\ Quiet /\ Alone /\ UNCHANGED <<knows, seen>>

SendRefused ==
  /\ sup = "send" /\ UNCHANGED knows /\ process = "running" /\ Goes("off") /\ Publish("BLOCKED")
  /\ Alone /\ UNCHANGED <<seen, stopSent>>

(* No pipe any more, or no answer in time: the exception ends it.          *)
SendRaises ==
  /\ sup = "send" /\ Goes("off")
  /\ Quiet /\ Alone /\ UNCHANGED <<knows, seen, stopSent>>

(* "Re-read AFTER proven exit so a just-acknowledged stop wins." *)
Reread ==
  /\ sup = "reread" /\ UNCHANGED knows /\ Goes("judge")
  /\ IF receipt = NoReceipt THEN Quiet /\ UNCHANGED seen
     ELSE seen' = receipt /\ Publish(receipt.status)
  /\ Alone /\ UNCHANGED stopSent

Recovering == "RECOVERING"

(* Faulty: whatever was running is started again. *)
AnyCrash == seen.status \in {"READY", "STARTING", "BLOCKED"} /\ handle # "alive"

Restartable == handle = "crashed" /\ seen.status = "READY"

Judge ==
  /\ sup = "judge" /\ knows' = StopRequested
  /\ IF knows' THEN Goes("proof") /\ Quiet
     ELSE IF seen.operator THEN Goes("prove") /\ Quiet
     ELSE IF Restartable THEN Goes("backoff") /\ Publish(Recovering)
     ELSE Goes("off") /\ Publish("BLOCKED")
  /\ Alone /\ UNCHANGED <<seen, stopSent>>

(* "An acknowledged OFFLINE remains offline even after a crash." *)
Prove ==
  /\ sup = "prove" /\ UNCHANGED knows /\ Goes("off") /\ Publish(IF Unowned THEN "STOPPED" ELSE "BLOCKED")
  /\ Alone /\ UNCHANGED <<seen, stopSent>>

(* The time is up, or a stop was requested; it looks at both. *)
Backoff ==
  /\ sup = "backoff" /\ Goes("proof") /\ knows' \in {knows, StopRequested}
  /\ Quiet /\ Alone /\ UNCHANGED <<seen, stopSent>>

Supervise ==
  \/ Proof \/ Decide \/ Spawn \/ WatchReads \/ Poll \/ Ask \/ Reread \/ Judge \/ Prove \/ Backoff
  \/ SendOk \/ SendRefused \/ SendRaises

-----------------------------------------------------------------------------
(* What happens around it. *)

(* The lease of the operating system has one holder. *)
ProcessSteps ==
  /\ Native
  /\ lease' = "held" => lease = "held" \/ ~outside
  /\ process' = "crashed" => crashes < MaxCrashes
  /\ crashes' = IF process' = "crashed" THEN crashes + 1 ELSE crashes
  /\ final' = (final \/ (handle = "alive" /\ (receipt'.operator \/ receipt'.status = "BLOCKED")))
  /\ UNCHANGED <<supervisor, handle, request, ownerAlive, outside, launches>>

HandleExits ==
  /\ handle = "alive" /\ process # "running" /\ handle' = process
  /\ UNCHANGED <<native, supervisor, world, final>>

(* The launcher ends and the process runs on, which may have the lease, may *)
(* have given it back, or may still have to ask for it.                    *)
RedirectorDies ==
  /\ handle = "alive" /\ crashes < MaxCrashes
  /\ handle' = "crashed" /\ crashes' = crashes + 1
  /\ UNCHANGED <<native, supervisor, request, ownerAlive, outside, launches, final>>

Orphaned ==
  /\ process' = "exited" /\ lease' = "released" /\ session' = FALSE /\ receipt' = NoReceipt
  /\ outside' = (outside \/ lease = "held")

SupervisorDies ==
  /\ sup # "off" /\ crashes < MaxCrashes
  /\ sup' = "off" /\ crashes' = crashes + 1
  /\ UNCHANGED <<native, handle, knows, seen, stopSent, status, acked,
                 request, ownerAlive, outside, launches, final>>

(* A new supervisor has a new startup id; an old process is an outsider.    *)
Launch ==
  /\ sup = "off" /\ launches < MaxLaunches
  /\ Orphaned
  /\ sup' = "proof" /\ knows' = FALSE /\ seen' = NoReceipt /\ stopSent' = FALSE
  /\ handle' = "none" /\ status' = "STARTING" /\ acked' = FALSE
  /\ request' = FALSE /\ ownerAlive' = TRUE /\ final' = FALSE
  /\ launches' = launches + 1 /\ UNCHANGED crashes

RequestStop ==
  /\ sup # "off" /\ ~request /\ request' = TRUE
  /\ UNCHANGED <<native, supervisor, handle, ownerAlive, outside, launches, crashes, final>>

OwnerLost ==
  /\ sup # "off" /\ ownerAlive /\ ownerAlive' = FALSE
  /\ UNCHANGED <<native, supervisor, handle, request, outside, launches, crashes, final>>

Outsider ==
  /\ outside' = ~outside /\ (outside' => lease # "held")
  /\ UNCHANGED <<native, supervisor, handle, request, ownerAlive, launches, crashes, final>>

Next ==
  \/ Supervise \/ ProcessSteps \/ HandleExits \/ RedirectorDies
  \/ SupervisorDies \/ Launch \/ RequestStop \/ OwnerLost \/ Outsider

Spec == Init /\ [][Next]_vars

(* The supervisor runs, and the system tells it of an exit.  That a process *)
(* ends or answers is nothing it can rely on.                              *)
FairSpec == Spec /\ WF_vars(Supervise) /\ WF_vars(HandleExits)

-----------------------------------------------------------------------------
(* Safety. *)

Spawned == sup = "spawn" /\ sup' = "watch"

(* A stop that was acknowledged by the supervisor is final, and so is one   *)
(* that the process accepted, or its failure: no process is started after   *)
(* it before the operator launches again, whoever crashes in between        *)
(* (supervise, request_supervisor_stop).  A process that has lost its       *)
(* launcher is not heard any more.                                          *)
EndIsFinal == [][Spawned => ~acked /\ ~final]_vars

(* No process is started while the one before holds the lease, also when    *)
(* its launcher is gone and only the launcher was seen to end.             *)
SpawnsAlone == [][Spawned => lease # "held" /\ ~session]_vars

(* The launcher has ended, and of its process the supervisor never read    *)
(* anything: it may have to ask for the lease yet, or it has ended too.    *)
Unheard == handle = "crashed" /\ seen = NoReceipt

(* "STOPPED", owner_released, is published of a process that does not have *)
(* the lease, nor a session, and does not get them later; except when its  *)
(* launcher ended before it was heard of: the lease may then be free only  *)
(* because the process has not asked for it yet (supervise).               *)
StoppedMeansReleased == status = "STOPPED" => (lease # "held" /\ ~session) \/ Unheard

-----------------------------------------------------------------------------
(* Liveness. *)

(* If the process shows a receipt, and ends when it has accepted a stop, a  *)
(* stop request ends the supervisor.                                       *)
StopEndsSupervision ==
  /\ (process = "running") ~> (process # "running" \/ receipt.status # "NONE")
  /\ (process = "running" /\ receipt.operator) ~> process # "running"
  => (request ~> sup = "off")
=============================================================================

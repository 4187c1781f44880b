--------------------------- MODULE SessionLifecycle ---------------------------
(***************************************************************************)
(* One native process of the execution runtime, from its lease to its exit *)
(* (execution_runtime/__main__.py, service.py, runtime.py, kgi.py and      *)
(* native.py): how it logs in to the broker, keeps the session, and lets   *)
(* it go.                                                                  *)
(*                                                                         *)
(* Its threads: the main thread, that serves the pipe and closes at the    *)
(* end; the connection worker, that logs in, reads and logs out; responders*)
(* of the pipe, that stop or reconnect; and commands or passes of the      *)
(* effect pump, that use the session.  Whoever uses the session holds the  *)
(* lane (the operation lock), except a stop, which waits for nobody, and   *)
(* the close of the main thread.  An action is what a thread does between  *)
(* two points where another one may step in: an SDK call, a lock, or, in   *)
(* request_offline, a read and a write of the same variable.               *)
(*                                                                         *)
(* An operator commented "Faulty" is a plausible mistake in the definition *)
(* that follows it, which some property must catch; no action uses it.     *)
(***************************************************************************)
EXTENDS Naturals, FiniteSets

CONSTANTS
  Stoppers,     \* responders of the pipe, each with one request to stop
  MaxLogins,    \* bound: attempts to log in
  MaxFailures   \* bound: failures of files, and a crash

ASSUME SessionAssumption == MaxLogins \in Nat /\ MaxFailures \in Nat

VARIABLES
  process, lease, receipt,  \* as in NativeProcess
  \* the main thread
  main,      \* where it stands
  news,      \* what it is about to announce
  announced,
  raised,    \* it left serve_runtime by an exception
  stopping,  \* Event of serve_runtime: a stop is durable
  \* ExecutionRuntime
  asked,     \* _desired is OFFLINE, _lifecycle_stop is set
  reason,    \* stop_reason is OPERATOR_STOP
  actual, started,
  lane,      \* who holds the operation lock
  life,      \* the connection worker: where it stands
  reconnect, \* the responder of operator reconnects: where it stands
  stopper,   \* each responder of a stop: where it stands
  \* KgiSessionOwner and the factory
  bound,     \* the login of _binding, or 0
  lost,      \* disconnected, or the trading day is over
  closeUnverified,
  factoryFailed,
  \* the broker, as far as nobody in the process needs to know
  live,        \* logins that may be alive
  unconfirmed, \* of these, those whose logout raised
  logins,      \* attempts
  late,        \* logins since a stop was asked for
  failures

owner == <<bound, lost, closeUnverified, factoryFailed, live, unconfirmed, logins, late>>
mainVars == <<main, news, announced, raised>>
intent == <<asked, reason, stopping, stopper>>
vars == <<process, lease, receipt, mainVars, intent, actual, started, lane, life,
                 reconnect, owner, failures>>

Promise == INSTANCE NativeProcess WITH session <- bound # 0
Says(status, operator) == Promise!Says(status, operator)

TypeOK ==
  /\ Promise!NativeTypeOK
  /\ main \in {"starting", "listening", "serving", "announcing", "closing", "joining",
               "dropping", "releasing", "leaving", "failing", "ended"}
  /\ news \in Promise!Receipt
  /\ announced \in BOOLEAN /\ raised \in BOOLEAN /\ stopping \in BOOLEAN
  /\ asked \in BOOLEAN /\ reason \in BOOLEAN /\ started \in BOOLEAN
  /\ actual \in {"STARTING", "CONNECTING", "RECOVERING", "ONLINE", "BACKOFF", "BLOCKED",
                 "STOPPING", "OFFLINE"}
  /\ lane \in {"free", "worker", "reconnect", "command"}
  /\ life \in {"none", "top", "heartbeat", "recover", "logout", "login", "read", "set", "watch", "ending",
               "lane", "close", "offline", "done"}
  /\ reconnect \in {"idle", "admitted", "login", "read"}
  /\ stopper \in [Stoppers -> {"idle", "asked", "looked", "answering", "done"}]
  /\ logins \in 0 .. MaxLogins /\ late \in 0 .. MaxLogins
  /\ bound \in 0 .. logins
  /\ lost \in BOOLEAN /\ closeUnverified \in BOOLEAN /\ factoryFailed \in BOOLEAN
  /\ live \subseteq 1 .. logins /\ unconfirmed \subseteq live
  /\ failures \in 0 .. MaxFailures

Init ==
  /\ process = "running" /\ lease = "none" /\ receipt = Says("NONE", FALSE)
  /\ main = "starting" /\ news = Says("NONE", FALSE) /\ announced = FALSE /\ raised = FALSE
  /\ asked = FALSE /\ reason = FALSE /\ stopping = FALSE
  /\ stopper = [r \in Stoppers |-> "idle"]
  /\ actual = "OFFLINE" /\ started = FALSE /\ lane = "free"
  /\ life = "none" /\ reconnect = "idle"
  /\ bound = 0 /\ lost = FALSE /\ closeUnverified = FALSE /\ factoryFailed = FALSE
  /\ live = {} /\ unconfirmed = {} /\ logins = 0 /\ late = 0
  /\ failures = 0

(* Faulty: a session that was lost looks like one that is there. *)
NeedsBinding == bound = 0 \/ closeUnverified

NeedsReconnect == bound = 0 \/ lost \/ closeUnverified

-----------------------------------------------------------------------------
(* The session owner: what a logout and a login come to. *)

(* A logout that raises keeps the binding: it must succeed before anything  *)
(* else.  Without a binding there is nothing to log out.                   *)
LogsOut ==
  /\ bound' = 0 /\ closeUnverified' = FALSE
  /\ live' = live \ {bound} /\ unconfirmed' = unconfirmed \ {bound}
  /\ UNCHANGED <<lost, factoryFailed, logins, late>>

LogoutRaises ==
  /\ bound # 0
  /\ closeUnverified' = TRUE /\ unconfirmed' = unconfirmed \cup {bound}
  /\ UNCHANGED <<bound, lost, factoryFailed, live, logins, late>>

CloseOk == IF bound = 0 THEN UNCHANGED owner ELSE LogsOut

(* Faulty: the factory forgets that a login may have left something alive. *)
AlwaysTries == {"bound", "transport", "error", "rejected", "unknown", "uncleaned", "unclosed"}

(* The factory refuses to log in without the lease, and for ever once it    *)
(* does not know what became of a login.                                   *)
LoginResults ==
  IF factoryFailed \/ lease # "held" THEN {"refused"}
  ELSE {"bound",
        "transport",  \* a transport error, and everything cleaned up
        "error",      \* the binding was refused, and logged out
        "rejected",   \* account or interface refused, and logged out
        "unknown",    \* login itself raised: no handle to close
        "uncleaned",  \* as "rejected" or "transport", but the logout raised
        "unclosed"}   \* as "error", but the logout raised

Login(result) ==
  /\ result \in LoginResults
  /\ logins' = logins + 1
  /\ late' = IF asked /\ result # "refused" THEN late + 1 ELSE late
  /\ bound' = IF result \in {"bound", "unclosed"} THEN logins' ELSE bound
  /\ lost' = (lost /\ result \notin {"bound", "unclosed"})
  /\ closeUnverified' = (closeUnverified \/ result = "unclosed")
  /\ factoryFailed' = (factoryFailed \/ result \in {"rejected", "unknown", "uncleaned"})
  /\ live' = IF result \in {"bound", "unknown", "uncleaned", "unclosed"}
             THEN live \cup {logins'} ELSE live
  /\ unconfirmed' = IF result \in {"uncleaned", "unclosed"}
                    THEN unconfirmed \cup {logins'} ELSE unconfirmed

(* The disconnect callback of the current session, a failed read, or        *)
(* midnight.                                                               *)
Lost ==
  /\ bound # 0 /\ ~lost /\ lost' = TRUE
  /\ UNCHANGED <<process, lease, receipt, mainVars, intent, actual, started, lane, life,
                 reconnect, bound, closeUnverified, factoryFailed, live,
                 unconfirmed, logins, late, failures>>

-----------------------------------------------------------------------------
(* The connection worker (_connection_loop). *)

Worker(next) == life' = next
(* What a step of the worker that does not touch the session leaves alone. *)
Elsewhere == UNCHANGED <<process, lease, receipt, mainVars, intent, reconnect, failures>>

(* Not BLOCKED, and nothing is due before its time: it waits otherwise.     *)
Look ==
  /\ life = "top" /\ ~asked /\ actual # "BLOCKED"
  /\ Worker(IF NeedsReconnect THEN "recover" ELSE "heartbeat")
  /\ Elsewhere /\ UNCHANGED <<actual, started, lane, owner>>

(* Faulty: a worker that is BLOCKED waits without looking for a stop. *)
SeesStopUnlessBlocked ==
  /\ life \in {"top", "watch"} /\ asked /\ actual # "BLOCKED" /\ Worker("ending")
  /\ Elsewhere /\ UNCHANGED <<actual, started, lane, owner>>

SeesStop ==
  /\ life \in {"top", "watch"} /\ asked /\ Worker("ending")
  /\ Elsewhere /\ UNCHANGED <<actual, started, lane, owner>>

(* EXECUTOR_BUSY: later again. *)
LaneBusy ==
  /\ life \in {"heartbeat", "recover"} /\ lane # "free" /\ Worker("top")
  /\ Elsewhere /\ UNCHANGED <<actual, started, lane, owner>>

StopsInLane ==
  /\ life \in {"heartbeat", "recover"} /\ lane = "free" /\ asked /\ Worker("ending")
  /\ Elsewhere /\ UNCHANGED <<actual, started, lane, owner>>

Heartbeat ==
  /\ life = "heartbeat" /\ lane = "free" /\ ~asked
  /\ lane' = "worker" /\ Worker("read")
  /\ Elsewhere /\ UNCHANGED <<actual, started, owner>>

(* Faulty: an unclosed session is simply replaced. *)
LogsInAnew ==
  /\ life = "recover" /\ lane = "free" /\ ~asked /\ logins < MaxLogins
  /\ lane' = "worker" /\ actual' = IF started THEN "RECOVERING" ELSE "CONNECTING"
  /\ Worker("login")
  /\ Elsewhere /\ UNCHANGED <<started, owner>>

(* "Must finish before a second login." *)
Recover ==
  /\ life = "recover" /\ lane = "free" /\ ~asked /\ logins < MaxLogins
  /\ lane' = "worker" /\ actual' = IF started THEN "RECOVERING" ELSE "CONNECTING"
  /\ Worker(IF bound # 0 THEN "logout" ELSE "login")
  /\ Elsewhere /\ UNCHANGED <<started, owner>>

(* The lane is given back, and the next round waits for its time. *)
Rounds(state) == actual' = state /\ lane' = "free" /\ Worker("top")

RecoverLogsOut ==
  /\ life = "logout"
  /\ \/ CloseOk /\ Worker("login") /\ UNCHANGED <<actual, lane>>
     \/ LogoutRaises /\ Rounds("BLOCKED")
  /\ Elsewhere /\ UNCHANGED started

(* Only an explicit transport error may be retried. *)
RecoverLogsIn ==
  /\ life = "login"
  /\ \E result \in LoginResults :
       /\ Login(result)
       /\ CASE result = "bound" -> Worker("read") /\ UNCHANGED <<actual, lane>>
            [] result = "transport" -> Rounds("BACKOFF")
            [] OTHER -> Rounds("BLOCKED")
  /\ Elsewhere /\ UNCHANGED started

(* The journal is opened and verified once; then the broker is read. Only   *)
(* the broker fails in a way that may be retried.                          *)
ReadFails ==
  \/ Rounds("BLOCKED") /\ started' \in {started, TRUE}
  \/ Rounds("BACKOFF") /\ started' = TRUE

ReadOk ==
  /\ started' = TRUE
  /\ IF asked THEN lane' = "free" /\ Worker("ending") /\ UNCHANGED actual
     ELSE IF NeedsReconnect THEN Rounds("BACKOFF")
     ELSE Worker("set") /\ UNCHANGED <<actual, lane>>

Read ==
  /\ life = "read"
  /\ ReadFails \/ ReadOk
  /\ Elsewhere /\ UNCHANGED owner

(* A stop may have come since it looked: the state is overwritten. *)
SetOnline ==
  /\ life = "set" /\ actual' = "ONLINE" /\ lane' = "free" /\ Worker("watch")
  /\ Elsewhere /\ UNCHANGED <<started, owner>>

WatchEnds ==
  /\ life = "watch" /\ Worker("top")
  /\ Elsewhere /\ UNCHANGED <<actual, started, lane, owner>>

WatchSeesLoss ==
  /\ life = "watch" /\ NeedsReconnect /\ actual' = "RECOVERING" /\ Worker("top")
  /\ Elsewhere /\ UNCHANGED <<started, lane, owner>>

Ending ==
  /\ life = "ending" /\ actual' = "STOPPING" /\ Worker("lane")
  /\ Elsewhere /\ UNCHANGED <<started, lane, owner>>

(* The logout waits for the lane. *)
TakesLane ==
  /\ life = "lane" /\ lane = "free" /\ lane' = "worker" /\ Worker("close")
  /\ Elsewhere /\ UNCHANGED <<actual, started, owner>>

LastLogout ==
  /\ life = "close" /\ lane' = "free"
  /\ \/ CloseOk /\ Worker("offline") /\ UNCHANGED actual
     \/ LogoutRaises /\ Worker("done") /\ actual' = "BLOCKED"
  /\ Elsewhere /\ UNCHANGED started

SetOffline ==
  /\ life = "offline" /\ actual' = "OFFLINE" /\ Worker("done")
  /\ Elsewhere /\ UNCHANGED <<started, lane, owner>>

ConnectionLoop ==
  \/ Look \/ SeesStop \/ LaneBusy \/ StopsInLane \/ Heartbeat \/ Recover
  \/ RecoverLogsOut \/ RecoverLogsIn \/ Read \/ SetOnline \/ WatchEnds \/ WatchSeesLoss
  \/ Ending \/ TakesLane \/ LastLogout \/ SetOffline

-----------------------------------------------------------------------------
(* Responders of the pipe, and other users of the lane. *)

Served == main \in {"serving", "announcing"}

(* request_offline: intent first, then a look at _actual, then a write. *)
StopAsk(r) ==
  /\ stopper[r] = "idle" /\ Served
  /\ asked' = TRUE /\ reason' = TRUE
  /\ stopper' = [stopper EXCEPT ![r] = "asked"]
  /\ UNCHANGED <<process, lease, receipt, mainVars, stopping, actual, started, lane, life,
                 reconnect, owner, failures>>

StopLook(r) ==
  /\ stopper[r] = "asked"
  /\ stopper' = [stopper EXCEPT ![r] = IF actual = "OFFLINE" THEN "answering" ELSE "looked"]
  /\ UNCHANGED <<process, lease, receipt, mainVars, asked, reason, stopping, actual, started,
                 lane, life, reconnect, owner, failures>>

StopWrite(r) ==
  /\ stopper[r] = "looked" /\ actual' = "STOPPING"
  /\ stopper' = [stopper EXCEPT ![r] = "answering"]
  /\ UNCHANGED <<process, lease, receipt, mainVars, asked, reason, stopping, started, lane,
                 life, reconnect, owner, failures>>

(* The receipt first, then the event, then the answer. *)
StopPublish(r) ==
  /\ stopper[r] = "answering"
  /\ receipt' = Says("STOPPING", TRUE) /\ stopping' = TRUE
  /\ stopper' = [stopper EXCEPT ![r] = "done"]
  /\ UNCHANGED <<process, lease, mainVars, asked, reason, actual, started, lane, life,
                 reconnect, owner, failures>>

(* The receipt cannot be written: the answer is not ok. *)
StopUnpublished(r) ==
  /\ stopper[r] = "answering" /\ failures < MaxFailures
  /\ failures' = failures + 1
  /\ stopper' = [stopper EXCEPT ![r] = "done"]
  /\ UNCHANGED <<process, lease, receipt, mainVars, asked, reason, stopping, actual, started,
                 lane, life, reconnect, owner>>

(* Faulty: a reconnect is admitted although a stop was. *)
ReconnectAnyway ==
  /\ reconnect = "idle" /\ lane = "free" /\ Served /\ started /\ logins < MaxLogins
  /\ lane' = "reconnect" /\ reconnect' = "admitted"
  /\ UNCHANGED <<process, lease, receipt, mainVars, intent, actual, started, life,
                 owner, failures>>

(* The operator reconnects: admitted under the lane, if it is free. *)
ReconnectAdmitted ==
  /\ reconnect = "idle" /\ lane = "free" /\ Served /\ ~asked /\ started /\ logins < MaxLogins
  /\ lane' = "reconnect" /\ reconnect' = "admitted"
  /\ UNCHANGED <<process, lease, receipt, mainVars, intent, actual, started, life,
                 owner, failures>>

ReconnectMoves(next) ==
  /\ reconnect' = next
  /\ lane' = IF next = "idle" THEN "free" ELSE lane
  /\ UNCHANGED <<process, lease, receipt, mainVars, intent, actual, started, life,
                 failures>>

(* It answers with the error, if there is one; _actual is not its to set.   *)
ReconnectLogsOut ==
  /\ reconnect = "admitted"
  /\ \/ CloseOk /\ ReconnectMoves("login")
     \/ LogoutRaises /\ ReconnectMoves("idle")

ReconnectLogsIn ==
  /\ reconnect = "login"
  /\ \E result \in LoginResults :
       Login(result) /\ ReconnectMoves(IF result = "bound" THEN "read" ELSE "idle")

ReconnectReads == reconnect = "read" /\ ReconnectMoves("idle") /\ UNCHANGED owner

(* Commands of the pipe and passes of the effect pump. *)
CommandTakes ==
  /\ lane = "free" /\ started /\ ~asked /\ lane' = "command"
  /\ UNCHANGED <<process, lease, receipt, mainVars, intent, actual, started, life,
                 reconnect, owner, failures>>

CommandEnds ==
  /\ lane = "command" /\ lane' = "free"
  /\ UNCHANGED <<process, lease, receipt, mainVars, intent, actual, started, life,
                 reconnect, owner, failures>>

-----------------------------------------------------------------------------
(* The main thread (native_run, serve_runtime). *)

Main(next) ==
  /\ main' = next
  /\ UNCHANGED <<process, asked, reason, stopping, stopper, started, lane, reconnect>>

TakeLease ==
  /\ main = "starting" /\ Main("listening")
  /\ lease' = "held" /\ actual' = "STARTING" /\ life' = "top"
  /\ UNCHANGED <<receipt, news, announced, raised, owner, failures>>

Listen ==
  /\ main = "listening" /\ Main("serving") /\ receipt' = Says("STARTING", FALSE)
  /\ UNCHANGED <<lease, actual, life, news, announced, raised, owner, failures>>

Ready == actual = "ONLINE" /\ ~asked /\ ~NeedsReconnect /\ lane = "free"

(* Once; a state that was not ready then is BLOCKED for good. *)
Announces ==
  /\ main = "serving" /\ ~announced /\ actual \in {"ONLINE", "BLOCKED"} /\ lane = "free"
  /\ news' = Says(IF Ready THEN "READY" ELSE "BLOCKED", FALSE)
  /\ Main("announcing")
  /\ UNCHANGED <<lease, receipt, actual, life, announced, raised, owner, failures>>

(* Faulty: what was read before the stop is written after it. *)
PublishesAnyway ==
  /\ main = "announcing" /\ Main("serving") /\ announced' = TRUE /\ news' = Says("NONE", FALSE)
  /\ receipt' = news
  /\ UNCHANGED <<lease, actual, life, raised, owner, failures>>

(* "READY can never overwrite an accepted stop." *)
PublishNews ==
  /\ main = "announcing" /\ Main("serving") /\ announced' = TRUE /\ news' = Says("NONE", FALSE)
  /\ receipt' = IF stopping THEN receipt ELSE news
  /\ UNCHANGED <<lease, actual, life, raised, owner, failures>>

(* "Leave the pipe observable while an uncancellable SDK call finishes." *)
ServeEnds ==
  /\ main = "serving" /\ stopping /\ lane = "free" /\ actual = "OFFLINE" /\ Main("closing")
  /\ UNCHANGED <<lease, receipt, actual, life, news, announced, raised, owner, failures>>

(* The listener or a receipt fails. *)
ServeRaises ==
  /\ main \in {"listening", "serving"} /\ failures < MaxFailures /\ Main("closing")
  /\ raised' = TRUE /\ failures' = failures + 1
  /\ UNCHANGED <<lease, receipt, actual, life, news, announced, owner>>

Closing ==
  /\ main = "closing" /\ main' = "joining"
  /\ asked' = TRUE /\ actual' = IF actual = "OFFLINE" THEN actual ELSE "STOPPING"
  /\ UNCHANGED <<process, lease, receipt, news, announced, raised, reason, stopping, stopper,
                 started, lane, life, reconnect, owner, failures>>

Joined ==
  /\ main = "joining" /\ life = "done" /\ Main("dropping")
  /\ UNCHANGED <<lease, receipt, actual, life, news, announced, raised, owner, failures>>

(* LIFECYCLE_BUSY_CLOSE_UNVERIFIED, or the pump has not stopped. *)
JoinTimesOut ==
  /\ main = "joining" /\ (life # "done" \/ lane = "command")
  /\ Main("failing")
  /\ UNCHANGED <<lease, receipt, actual, life, news, announced, raised, owner, failures>>

(* Faulty: the close is tried, and the lease released whatever came of it. *)
DropsAnyway ==
  /\ main = "dropping" /\ reconnect # "login" /\ Main("releasing")
  /\ CloseOk \/ LogoutRaises
  /\ UNCHANGED <<lease, receipt, actual, life, news, announced, raised, failures>>

(* The last close waits for the lock of the session, not for the lane.      *)
(* "An unconfirmed logout must not release ownership."                     *)
Drop ==
  /\ main = "dropping" /\ reconnect # "login"
  /\ \/ CloseOk /\ Main("releasing")
     \/ LogoutRaises /\ Main("failing")
  /\ UNCHANGED <<lease, receipt, actual, life, news, announced, raised, failures>>

Releases ==
  /\ main = "releasing" /\ Main("leaving")
  /\ lease' = "released" /\ actual' = "OFFLINE"
  /\ UNCHANGED <<receipt, life, news, announced, raised, owner, failures>>

Leaves ==
  /\ main = "leaving" /\ Main(IF raised THEN "failing" ELSE "ended")
  /\ receipt' = Says("STOPPED", reason)
  /\ UNCHANGED <<lease, actual, life, news, announced, raised, owner, failures>>

Fails ==
  /\ main = "failing" /\ Main("ended") /\ receipt' = Says("BLOCKED", FALSE)
  /\ UNCHANGED <<lease, actual, life, news, announced, raised, owner, failures>>

(* The process is gone with everything in it. *)
Gone(how) ==
  /\ process' = how /\ lease' = "released"
  /\ bound' = 0 /\ live' = {} /\ unconfirmed' = {}
  /\ UNCHANGED <<receipt, mainVars, intent, actual, started, lane, life,
                 reconnect, lost, closeUnverified, factoryFailed, logins, late>>

Exits == main = "ended" /\ Gone("exited") /\ UNCHANGED failures

Crashes == failures < MaxFailures /\ failures' = failures + 1 /\ Gone("crashed")

MainThread ==
  \/ TakeLease \/ Listen \/ Announces \/ PublishNews \/ ServeEnds
  \/ Closing \/ Joined \/ JoinTimesOut \/ Drop \/ Releases \/ Leaves \/ Fails \/ Exits

-----------------------------------------------------------------------------
Answers(r) == StopLook(r) \/ StopWrite(r) \/ StopPublish(r)
Reconnecting == ReconnectLogsOut \/ ReconnectLogsIn \/ ReconnectReads

Next ==
  /\ process = "running"
  /\ \/ ConnectionLoop \/ MainThread
     \/ \E r \in Stoppers : StopAsk(r) \/ Answers(r) \/ StopUnpublished(r)
     \/ ReconnectAdmitted \/ Reconnecting \/ CommandTakes \/ CommandEnds
     \/ Lost \/ ServeRaises \/ Crashes

Spec == Init /\ [][Next]_vars

(* Every thread runs, every SDK call returns or raises, every holder gives  *)
(* the lane back.  Nobody has to stop, reconnect, lose a session or crash. *)
Running(A) == process = "running" /\ A

FairSpec ==
  /\ Spec
  /\ WF_vars(Running(ConnectionLoop))
  /\ WF_vars(Running(MainThread))
  /\ WF_vars(Running(Reconnecting))
  /\ WF_vars(Running(CommandEnds))
  /\ \A r \in Stoppers : WF_vars(Running(Answers(r)))

-----------------------------------------------------------------------------
(* Safety. *)

(* There is never a second session: whatever failed half way, a login is    *)
(* tried only when none of the earlier ones can be alive (the account is   *)
(* not to be logged in twice: _connect, close, _connection_loop).          *)
OneSession == Cardinality(live) <= 1

(* A stop does not wait for the login in progress, and so one login may     *)
(* still begin after it; a second one never does.                          *)
OneLateLogin == late <= 1

-----------------------------------------------------------------------------
(* Refinement and liveness. *)

(* The process keeps the promise that its supervisor relies on. *)
KeepsPromise == Promise!NativeSpec

(* A stop ends the connection worker, and with it the session, unless its   *)
(* logout could not be confirmed (_connection_loop).                       *)
StopLetsGo ==
  asked ~> \/ process # "running"
           \/ life = "done" /\ (bound = 0 \/ closeUnverified)

(* If others leave the lane alone for once, a lost session is replaced, or  *)
(* the runtime says BLOCKED, stops, or has no attempts left.               *)
LossIsRepaired ==
  <>[](lane \in {"free", "worker"}) =>
    (lost ~> ~lost \/ asked \/ actual = "BLOCKED" \/ logins = MaxLogins \/ process # "running")

(* What the comment in serve_runtime means the wait to be for: once a stop  *)
(* is accepted and no SDK call is in progress any more, the process ends,  *)
(* unless a logout could not be confirmed.                                 *)
StopCompletes == stopping ~> process # "running" \/ closeUnverified
=============================================================================

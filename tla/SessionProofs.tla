---------------------------- MODULE SessionProofs ----------------------------
(***************************************************************************)
(* What holds of SessionLifecycle for any number of responders, logins and *)
(* failures, and that it implements NativeProcess.                         *)
(***************************************************************************)
EXTENDS SessionLifecycle, FiniteSetTheorems, TLAPS

(* Who is in the lane; and a worker that has seen the stop and taken the   *)
(* lane finds no reconnect, and none is admitted after the stop.           *)
Holding == {"logout", "login", "read", "set", "close"}
Closed == {"close", "offline", "done"}

LaneOrder ==
  /\ lane = "worker" <=> life \in Holding
  /\ lane = "reconnect" <=> reconnect # "idle"
  /\ life \in Closed \cup {"ending", "lane"} => asked
  /\ life \in Closed => reconnect = "idle"
  /\ life \in {"logout", "login"} \/ reconnect \in {"admitted", "login"} => logins < MaxLogins
  /\ life = "login" \/ reconnect = "login" => bound = 0

(* Before the factory has failed, what may be alive is the binding; after  *)
(* it, nothing is bound, and what may be alive is what it failed with.     *)
OwnerOrder ==
  /\ bound # 0 => lease = "held" /\ bound \in live
  /\ factoryFailed => bound = 0
  /\ ~factoryFailed => live \subseteq {bound}
  /\ \E login \in 0 .. logins : live \subseteq {login}

(* A login after the stop was on its way before it, and nobody else was.   *)
LateOrder ==
  /\ late <= 1 /\ late <= logins
  /\ late = 1 => asked /\ life \notin {"logout", "login"} /\ reconnect \notin {"admitted", "login"}

(* How far the main thread is tells who holds the lease.                   *)
MainOrder ==
  process = "running" =>
    /\ main = "starting" => lease = "none" /\ life = "none"
    /\ main \in {"listening", "serving", "announcing", "closing", "joining", "dropping", "releasing"}
         => lease = "held"
    /\ main \in {"dropping", "releasing", "leaving"} => life = "done"
    /\ main \in {"releasing", "leaving"} => bound = 0
    /\ main = "leaving" => lease = "released"

ReceiptOrder ==
  /\ main \in {"starting", "listening"} => receipt.status = "NONE"
  /\ main \in {"serving", "announcing"} =>
       /\ receipt.status # "NONE"
       /\ ~announced /\ ~stopping => receipt.status = "STARTING"
  /\ main = "announcing" => ~announced /\ news \in {Says("READY", FALSE), Says("BLOCKED", FALSE)}
  /\ \A r \in Stoppers : stopper[r] # "idle" => receipt.status # "NONE" /\ reason
  /\ receipt.operator => reason
  /\ main = "ended" => receipt.status \in {"BLOCKED", "STOPPING", "STOPPED"}

SInv == TypeOK /\ LaneOrder /\ OwnerOrder /\ LateOrder /\ MainOrder /\ ReceiptOrder

OwnerType ==
  /\ logins \in 0 .. MaxLogins /\ late \in 0 .. MaxLogins /\ bound \in 0 .. logins
  /\ lost \in BOOLEAN /\ closeUnverified \in BOOLEAN /\ factoryFailed \in BOOLEAN
  /\ live \subseteq 1 .. logins /\ unconfirmed \subseteq live

-----------------------------------------------------------------------------
LEMMA SaysIsReceipt ==
  ASSUME NEW status \in {"NONE", "STARTING", "READY", "BLOCKED", "STOPPING", "STOPPED"}, NEW operator \in BOOLEAN
  PROVE  /\ Says(status, operator) \in Promise!Receipt
         /\ Says(status, operator).status = status /\ Says(status, operator).operator = operator
BY DEF Says, Promise!Says, Promise!Receipt, Promise!Statuses

LEMMA SessionInit == Init => SInv
<1> SUFFICES ASSUME Init PROVE SInv
  OBVIOUS
<1>1. Says("NONE", FALSE) \in Promise!Receipt /\ Says("NONE", FALSE).status = "NONE"
      /\ Says("NONE", FALSE).operator = FALSE
  BY SaysIsReceipt
<1>2. OwnerType
  <2>1. logins \in 0 .. MaxLogins /\ late \in 0 .. MaxLogins /\ bound \in 0 .. logins
    BY SessionAssumption DEF Init
  <2>2. live \subseteq 1 .. logins /\ unconfirmed \subseteq live
    BY DEF Init
  <2>3. lost \in BOOLEAN /\ closeUnverified \in BOOLEAN /\ factoryFailed \in BOOLEAN
    BY DEF Init
  <2> QED
    BY <2>1, <2>2, <2>3 DEF OwnerType
<1>3. TypeOK
  <2>1. Promise!NativeTypeOK
    BY <1>1 DEF Init, Promise!NativeTypeOK
  <2>2. failures \in 0 .. MaxFailures
    BY SessionAssumption DEF Init
  <2> QED
    BY <1>1, <1>2, <2>1, <2>2 DEF Init, TypeOK, OwnerType
<1>4. LaneOrder /\ OwnerOrder /\ LateOrder
  BY DEF Init, LaneOrder, OwnerOrder, LateOrder, Holding, Closed
<1>5. MainOrder /\ ReceiptOrder
  BY <1>1 DEF Init, MainOrder, ReceiptOrder
<1> QED
  BY <1>3, <1>4, <1>5 DEF SInv

-----------------------------------------------------------------------------
(* What a logout and a login do to the owner of the session. *)

LEMMA LogoutType == TypeOK /\ OwnerOrder /\ (CloseOk \/ LogoutRaises) => OwnerType'
<1> SUFFICES ASSUME TypeOK, OwnerOrder, CloseOk \/ LogoutRaises PROVE OwnerType'
  OBVIOUS
<1>0. OwnerType
  BY DEF TypeOK, OwnerType
<1>1. CASE UNCHANGED owner
  BY <1>0, <1>1 DEF OwnerType, owner
<1>2. CASE LogsOut
  <2>1. live' \subseteq 1 .. logins' /\ unconfirmed' \subseteq live'
    BY <1>0, <1>2 DEF OwnerType, LogsOut
  <2>2. bound' \in 0 .. logins'
    BY <1>0, <1>2 DEF OwnerType, LogsOut
  <2> QED
    BY <1>0, <1>2, <2>1, <2>2 DEF OwnerType, LogsOut
<1>3. CASE LogoutRaises
  BY <1>0, <1>3 DEF OwnerType, OwnerOrder, LogoutRaises
<1> QED
  BY <1>1, <1>2, <1>3 DEF CloseOk

LEMMA LoginType ==
  ASSUME TypeOK, LateOrder, NEW result, Login(result), logins < MaxLogins
  PROVE  OwnerType'
<1>0. OwnerType
  BY DEF TypeOK, OwnerType
<1>1. logins' = logins + 1 /\ logins' \in 0 .. MaxLogins /\ logins \in Nat
  BY <1>0, SessionAssumption DEF OwnerType, Login
<1>2. late' \in 0 .. MaxLogins
  BY <1>0, <1>1, SessionAssumption DEF OwnerType, LateOrder, Login
<1>3. bound' \in 0 .. logins'
  BY <1>0, <1>1 DEF OwnerType, Login
<1>4. live' \subseteq 1 .. logins' /\ unconfirmed' \subseteq live'
  BY <1>0, <1>1 DEF OwnerType, Login
<1>5. lost' \in BOOLEAN /\ closeUnverified' \in BOOLEAN /\ factoryFailed' \in BOOLEAN
  BY <1>0 DEF OwnerType, Login
<1> QED
  BY <1>1, <1>2, <1>3, <1>4, <1>5 DEF OwnerType

LEMMA LogoutOrder ==
  TypeOK /\ OwnerOrder /\ (CloseOk \/ LogoutRaises) /\ UNCHANGED lease => OwnerOrder'
<1> SUFFICES ASSUME TypeOK, OwnerOrder, CloseOk \/ LogoutRaises, UNCHANGED lease PROVE OwnerOrder'
  OBVIOUS
<1>1. UNCHANGED <<factoryFailed, logins>> /\ live' \subseteq live /\ bound' \in {0, bound}
  BY DEF CloseOk, LogsOut, LogoutRaises, owner
<1>2. bound' # 0 => bound' \in live'
  BY DEF OwnerOrder, CloseOk, LogsOut, LogoutRaises, owner
<1>3. ~factoryFailed => live' \subseteq {bound'}
  BY DEF OwnerOrder, CloseOk, LogsOut, LogoutRaises, owner
<1>4. \E login \in 0 .. logins' : live' \subseteq {login}
  BY <1>1 DEF OwnerOrder
<1> QED
  BY <1>1, <1>2, <1>3, <1>4 DEF OwnerOrder

(* Only one login of those without a binding can leave anything alive.     *)
LEMMA LoginOrder ==
  ASSUME TypeOK, OwnerOrder, bound = 0, NEW result, Login(result), UNCHANGED lease
  PROVE  OwnerOrder'
<1>0. logins \in Nat /\ logins' = logins + 1 /\ logins' # 0 /\ live \subseteq 1 .. logins
  BY SessionAssumption DEF TypeOK, Login
<1>1. CASE factoryFailed \/ lease # "held"
  <2>1. result = "refused"
    BY <1>1 DEF Login, LoginResults
  <2>2. UNCHANGED <<bound, factoryFailed, live>>
    BY <2>1 DEF Login, TypeOK
  <2>3. \E login \in 0 .. logins' : live' \subseteq {login}
    BY <1>0, <2>2 DEF OwnerOrder
  <2> QED
    BY <1>0, <2>2, <2>3 DEF OwnerOrder
<1>2. CASE ~factoryFailed /\ lease = "held"
  <2>1. live = {}
    BY <1>0, <1>2 DEF OwnerOrder
  <2>2. live' \subseteq {logins'} /\ (bound' # 0 => bound' = logins' /\ logins' \in live')
    BY <1>0, <2>1 DEF Login
  <2>3. factoryFailed' => bound' = 0
    BY <1>2 DEF Login
  <2>4. ~factoryFailed' => live' \subseteq {bound'}
    BY <1>0, <1>2, <2>1 DEF Login, LoginResults
  <2>5. \E login \in 0 .. logins' : live' \subseteq {login}
    BY <1>0, <2>2
  <2> QED
    BY <1>0, <1>2, <2>2, <2>3, <2>4, <2>5 DEF OwnerOrder
<1> QED
  BY <1>1, <1>2

LEMMA SameOwner == TypeOK /\ UNCHANGED owner => OwnerType'
BY DEF TypeOK, OwnerType, owner

-----------------------------------------------------------------------------
(* The connection worker. *)

Lives == {"none", "top", "heartbeat", "recover", "logout", "login", "read", "set", "watch", "ending",
          "lane", "close", "offline", "done"}
Actuals == {"STARTING", "CONNECTING", "RECOVERING", "ONLINE", "BACKOFF", "BLOCKED", "STOPPING", "OFFLINE"}

(* What the worker leaves to others: the main thread has not got past it.  *)
LEMMA WorkerRest ==
  ASSUME SInv, UNCHANGED <<process, lease, receipt, mainVars, intent, reconnect, failures>>, OwnerType',
         life \notin {"none", "done"}, life' \in Lives,
         actual' \in Actuals, started' \in BOOLEAN, lane' \in {"free", "worker", "reconnect", "command"}
  PROVE  TypeOK' /\ MainOrder' /\ ReceiptOrder'
<1>1. TypeOK'
  BY DEF SInv, TypeOK, OwnerType, Promise!NativeTypeOK, mainVars, intent, Lives, Actuals
<1>2. MainOrder'
  BY DEF SInv, MainOrder, mainVars
<1>3. ReceiptOrder'
  BY DEF SInv, ReceiptOrder, mainVars, intent
<1> QED
  BY <1>1, <1>2, <1>3

LEMMA WorkerKeeps == SInv /\ ConnectionLoop => SInv'
<1> SUFFICES ASSUME SInv, ConnectionLoop PROVE SInv'
  OBVIOUS
<1>0. /\ TypeOK /\ LaneOrder /\ OwnerOrder /\ LateOrder
      /\ UNCHANGED <<process, lease, receipt, mainVars, intent, reconnect, failures>>
  BY DEF SInv, ConnectionLoop, Look, SeesStop, LaneBusy, StopsInLane, Heartbeat, Recover, RecoverLogsOut,
     RecoverLogsIn, Read, SetOnline, WatchEnds, WatchSeesLoss, Ending, TakesLane, LastLogout, SetOffline, Elsewhere
<1>a. UNCHANGED asked
  BY <1>0 DEF intent
<1>1. CASE RecoverLogsOut
  <2>1. OwnerType' /\ OwnerOrder'
    BY <1>0, <1>1, LogoutType, LogoutOrder DEF RecoverLogsOut
  <2>2. UNCHANGED <<logins, late, started>> /\ life = "logout"
        /\ \/ life' = "login" /\ bound' = 0 /\ UNCHANGED <<actual, lane>>
           \/ life' = "top" /\ lane' = "free" /\ actual' = "BLOCKED"
    BY <1>1 DEF RecoverLogsOut, CloseOk, LogsOut, LogoutRaises, owner, Worker, Rounds
  <2>3. TypeOK' /\ MainOrder' /\ ReceiptOrder'
    BY <1>0, <2>1, <2>2, WorkerRest DEF TypeOK, Lives, Actuals
  <2>4. LaneOrder' /\ LateOrder'
    BY <1>0, <1>a, <2>2 DEF LaneOrder, LateOrder, Holding, Closed
  <2> QED
    BY <2>1, <2>3, <2>4 DEF SInv
<1>2. CASE RecoverLogsIn
  <2>0. life = "login" /\ bound = 0 /\ logins < MaxLogins
    BY <1>0, <1>2 DEF RecoverLogsIn, LaneOrder
  <2>1. PICK result \in LoginResults :
          /\ Login(result)
          /\ CASE result = "bound" -> Worker("read") /\ UNCHANGED <<actual, lane>>
               [] result = "transport" -> Rounds("BACKOFF")
               [] OTHER -> Rounds("BLOCKED")
    BY <1>2 DEF RecoverLogsIn
  <2>a. \/ life' = "read" /\ UNCHANGED <<actual, lane>>
        \/ life' = "top" /\ lane' = "free" /\ actual' \in {"BACKOFF", "BLOCKED"}
    <3>1. CASE result = "bound"
      BY <2>1, <3>1 DEF Worker
    <3>2. CASE result = "transport"
      BY <2>1, <3>2 DEF Worker, Rounds
    <3>3. CASE result \notin {"bound", "transport"}
      BY <2>1, <3>3 DEF Worker, Rounds
    <3> QED
      BY <3>1, <3>2, <3>3
  <2>2. OwnerType' /\ OwnerOrder'
    BY <1>0, <2>0, <2>1, LoginType, LoginOrder
  <2>3. TypeOK' /\ MainOrder' /\ ReceiptOrder'
    BY <1>0, <1>2, <2>0, <2>1, <2>a, <2>2, WorkerRest DEF TypeOK, Lives, Actuals, RecoverLogsIn
  <2>4. late' = late \/ (late' = late + 1 /\ asked)
    BY <2>1 DEF Login
  <2>5. late = 0 /\ logins' = logins + 1 /\ logins \in Nat
    BY <1>0, <2>0, <2>1, <2>a, SessionAssumption DEF LateOrder, TypeOK, Login
  <2>6. LaneOrder'
    BY <1>0, <1>a, <2>0, <2>1, <2>a DEF LaneOrder, Holding, Closed
  <2>7. LateOrder'
    BY <1>0, <1>a, <2>0, <2>1, <2>a, <2>4, <2>5 DEF LateOrder, LaneOrder, Holding
  <2> QED
    BY <2>2, <2>3, <2>6, <2>7 DEF SInv
<1>3. CASE LastLogout
  <2>1. OwnerType' /\ OwnerOrder'
    BY <1>0, <1>3, LogoutType, LogoutOrder DEF LastLogout
  <2>2. UNCHANGED <<logins, late, started>> /\ life = "close" /\ lane' = "free"
        /\ \/ life' = "offline" /\ UNCHANGED actual
           \/ life' = "done" /\ actual' = "BLOCKED"
    BY <1>3 DEF LastLogout, CloseOk, LogsOut, LogoutRaises, owner, Worker
  <2>3. TypeOK' /\ MainOrder' /\ ReceiptOrder'
    BY <1>0, <2>1, <2>2, WorkerRest DEF TypeOK, Lives, Actuals
  <2>4. LaneOrder' /\ LateOrder'
    BY <1>0, <1>a, <2>2 DEF LaneOrder, LateOrder, Holding, Closed
  <2> QED
    BY <2>1, <2>3, <2>4 DEF SInv
<1>4. CASE \/ Look \/ SeesStop \/ LaneBusy \/ StopsInLane \/ Heartbeat \/ Recover \/ Read \/ SetOnline
           \/ WatchEnds \/ WatchSeesLoss \/ Ending \/ TakesLane \/ SetOffline
  <2> USE DEF Look, SeesStop, LaneBusy, StopsInLane, Heartbeat, Recover, Read, ReadFails, ReadOk, SetOnline,
              WatchEnds, WatchSeesLoss, Ending, TakesLane, SetOffline, Worker, Rounds
  <2>1. UNCHANGED owner /\ life \notin {"none", "done", "close", "login", "logout"} /\ life' \in Lives
    BY <1>4 DEF Lives
  <2>2. OwnerType' /\ UNCHANGED <<bound, live, logins, late, factoryFailed>>
    BY <1>0, <2>1, SameOwner DEF owner
  <2>3. actual' \in Actuals /\ started' \in BOOLEAN /\ lane' \in {"free", "worker", "reconnect", "command"}
    BY <1>0, <1>4 DEF Actuals, TypeOK
  <2>4. TypeOK' /\ MainOrder' /\ ReceiptOrder'
    BY <1>0, <2>1, <2>2, <2>3, WorkerRest
  <2>5. LaneOrder'
    BY <1>0, <1>a, <1>4, <2>2 DEF LaneOrder, Holding, Closed
  <2>6. LateOrder'
    BY <1>0, <1>a, <1>4, <2>2 DEF LateOrder
  <2>7. OwnerOrder'
    BY <1>0, <2>2 DEF OwnerOrder
  <2> QED
    BY <2>4, <2>5, <2>6, <2>7 DEF SInv
<1> QED
  BY <1>1, <1>2, <1>3, <1>4 DEF ConnectionLoop

-----------------------------------------------------------------------------
(* Those who only read or wait, and those who stop. *)

LEMMA StopKeeps ==
  ASSUME SInv, NEW r \in Stoppers,
         StopAsk(r) \/ StopLook(r) \/ StopWrite(r) \/ StopPublish(r) \/ StopUnpublished(r)
  PROVE  SInv'
<1> USE DEF StopAsk, StopLook, StopWrite, StopPublish, StopUnpublished
<1>0. /\ TypeOK /\ LaneOrder /\ OwnerOrder /\ LateOrder /\ MainOrder /\ ReceiptOrder
      /\ UNCHANGED <<process, lease, mainVars, started, lane, life, reconnect, owner>>
  BY DEF SInv
<1>1. UNCHANGED <<main, news, announced, raised, bound, lost, closeUnverified, factoryFailed, live, unconfirmed,
                  logins, late>>
  BY <1>0 DEF mainVars, owner
<1>2. /\ Says("STOPPING", TRUE) \in Promise!Receipt
      /\ Says("STOPPING", TRUE).status = "STOPPING" /\ Says("STOPPING", TRUE).operator = TRUE
  BY SaysIsReceipt
<1>3. TypeOK'
  <2>1. receipt' \in Promise!Receipt
    BY <1>0, <1>2 DEF TypeOK, Promise!NativeTypeOK
  <2>2. Promise!NativeTypeOK'
    BY <1>0, <1>1, <2>1 DEF TypeOK, Promise!NativeTypeOK
  <2>3. actual' \in Actuals /\ asked' \in BOOLEAN /\ reason' \in BOOLEAN /\ stopping' \in BOOLEAN
    BY <1>0 DEF TypeOK, Actuals
  <2>4. failures' \in 0 .. MaxFailures
    <3>1. failures' = failures \/ (failures < MaxFailures /\ failures' = failures + 1)
      OBVIOUS
    <3> QED
      BY <1>0, <3>1, SessionAssumption DEF TypeOK
  <2>5. stopper' \in [Stoppers -> {"idle", "asked", "looked", "answering", "done"}]
    BY <1>0 DEF TypeOK
  <2> QED
    BY <1>0, <1>1, <2>2, <2>3, <2>4, <2>5 DEF TypeOK, Actuals
<1>4. LaneOrder' /\ OwnerOrder' /\ LateOrder' /\ MainOrder'
  <2>1. LaneOrder'
    BY <1>0, <1>1 DEF LaneOrder
  <2>2. OwnerOrder'
    BY <1>0, <1>1 DEF OwnerOrder
  <2>3. LateOrder'
    BY <1>0, <1>1 DEF LateOrder
  <2>4. MainOrder'
    BY <1>0, <1>1 DEF MainOrder
  <2> QED
    BY <2>1, <2>2, <2>3, <2>4
<1>5. ReceiptOrder'
  <2>1. \A s \in Stoppers : stopper'[s] # "idle" => receipt'.status # "NONE" /\ reason'
    BY <1>0, <1>2 DEF ReceiptOrder, TypeOK, Served
  <2>2. \/ UNCHANGED <<receipt, stopping>>
        \/ receipt' = Says("STOPPING", TRUE) /\ stopping' /\ receipt.status # "NONE" /\ reason /\ reason'
    BY <1>0 DEF ReceiptOrder, TypeOK
  <2>3. reason => reason'
    BY <1>0 DEF TypeOK
  <2> QED
    BY <1>0, <1>1, <1>2, <2>1, <2>2, <2>3 DEF ReceiptOrder
<1> QED
  BY <1>3, <1>4, <1>5 DEF SInv

(* A reconnect: what it does to the session, and when it gives up the lane.*)
LEMMA ReconnectKeeps == SInv /\ (ReconnectAdmitted \/ Reconnecting) => SInv'
<1> SUFFICES ASSUME SInv, ReconnectAdmitted \/ Reconnecting PROVE SInv'
  OBVIOUS
<1>0. /\ TypeOK /\ LaneOrder /\ OwnerOrder /\ LateOrder /\ MainOrder /\ ReceiptOrder
      /\ UNCHANGED <<process, lease, receipt, mainVars, intent, actual, started, life, failures>>
  BY DEF SInv, ReconnectAdmitted, Reconnecting, ReconnectLogsOut, ReconnectLogsIn, ReconnectReads, ReconnectMoves
<1>1. ASSUME OwnerType', bound' = bound \/ reconnect # "idle", reconnect' \in {"idle", "admitted", "login", "read"},
             lane' \in {"free", "reconnect"}
      PROVE  TypeOK' /\ MainOrder' /\ ReceiptOrder'
  <2>1. TypeOK'
    BY <1>0, <1>1 DEF TypeOK, OwnerType, Promise!NativeTypeOK, mainVars, intent
  <2>2. MainOrder'
    BY <1>0, <1>1 DEF MainOrder, mainVars, LaneOrder, Closed
  <2>3. ReceiptOrder'
    BY <1>0 DEF ReceiptOrder, mainVars, intent
  <2> QED
    BY <2>1, <2>2, <2>3
<1>a. UNCHANGED asked
  BY <1>0 DEF intent
<1>2. CASE ReconnectAdmitted \/ ReconnectReads
  <2> USE DEF ReconnectAdmitted, ReconnectReads, ReconnectMoves
  <2>1. OwnerType' /\ UNCHANGED <<bound, live, logins, late, factoryFailed>>
    BY <1>0, <1>2, SameOwner DEF owner
  <2>2. LaneOrder'
    BY <1>0, <1>2, <1>a, <2>1 DEF LaneOrder, Holding, Closed
  <2>3. OwnerOrder' /\ LateOrder'
    BY <1>0, <1>2, <1>a, <2>1 DEF OwnerOrder, LateOrder
  <2>4. TypeOK' /\ MainOrder' /\ ReceiptOrder'
    BY <1>0, <1>1, <1>2, <2>1 DEF LaneOrder
  <2> QED
    BY <2>2, <2>3, <2>4 DEF SInv
<1>3. CASE ReconnectLogsOut
  <2>1. OwnerType' /\ OwnerOrder'
    BY <1>0, <1>3, LogoutType, LogoutOrder DEF ReconnectLogsOut
  <2>2. UNCHANGED <<logins, late>> /\ reconnect = "admitted"
        /\ \/ reconnect' = "login" /\ bound' = 0 /\ UNCHANGED lane
           \/ reconnect' = "idle" /\ lane' = "free"
    BY <1>3 DEF ReconnectLogsOut, CloseOk, LogsOut, LogoutRaises, owner, ReconnectMoves
  <2>3. LaneOrder' /\ LateOrder'
    BY <1>0, <1>a, <2>2 DEF LaneOrder, LateOrder, Holding, Closed
  <2>4. TypeOK' /\ MainOrder' /\ ReceiptOrder'
    BY <1>0, <1>1, <2>1, <2>2 DEF LaneOrder
  <2> QED
    BY <2>1, <2>3, <2>4 DEF SInv
<1>4. CASE ReconnectLogsIn
  <2>1. PICK result : Login(result) /\ ReconnectMoves(IF result = "bound" THEN "read" ELSE "idle")
    BY <1>4 DEF ReconnectLogsIn
  <2>a. reconnect = "login" /\ bound = 0 /\ logins < MaxLogins /\ lane = "reconnect"
    BY <1>0, <1>4 DEF ReconnectLogsIn, LaneOrder
  <2>b. \/ reconnect' = "read" /\ UNCHANGED lane
        \/ reconnect' = "idle" /\ lane' = "free"
    <3>1. CASE result = "bound"
      BY <2>1, <3>1 DEF ReconnectMoves
    <3>2. CASE result # "bound"
      BY <2>1, <3>2 DEF ReconnectMoves
    <3> QED
      BY <3>1, <3>2
  <2>2. /\ reconnect = "login" /\ bound = 0 /\ logins < MaxLogins /\ lane = "reconnect"
        /\ \/ reconnect' = "read" /\ UNCHANGED lane
           \/ reconnect' = "idle" /\ lane' = "free"
    BY <2>a, <2>b
  <2>3. OwnerType' /\ OwnerOrder'
    BY <1>0, <2>1, <2>2, LoginType, LoginOrder
  <2>4. late' = late \/ (late' = late + 1 /\ asked)
    BY <2>1 DEF Login
  <2>5. late = 0 /\ logins' = logins + 1 /\ logins \in Nat
    BY <1>0, <2>1, <2>2, SessionAssumption DEF LateOrder, TypeOK, Login
  <2>6. LaneOrder'
    BY <1>0, <1>a, <2>2 DEF LaneOrder, Holding, Closed
  <2>7. LateOrder'
    BY <1>0, <1>a, <2>2, <2>4, <2>5 DEF LateOrder, LaneOrder, Holding
  <2>8. TypeOK' /\ MainOrder' /\ ReceiptOrder'
    BY <1>0, <1>1, <2>2, <2>3
  <2> QED
    BY <2>3, <2>6, <2>7, <2>8 DEF SInv
<1> QED
  BY <1>2, <1>3, <1>4 DEF Reconnecting

LEMMA OthersKeep == SInv /\ (CommandTakes \/ CommandEnds \/ Lost) => SInv'
<1> SUFFICES ASSUME SInv, CommandTakes \/ CommandEnds \/ Lost PROVE SInv'
  OBVIOUS
<1> USE DEF CommandTakes, CommandEnds, Lost
<1>0. /\ TypeOK /\ LaneOrder /\ OwnerOrder /\ LateOrder /\ MainOrder /\ ReceiptOrder
      /\ UNCHANGED <<process, lease, receipt, mainVars, intent, actual, started, life, reconnect, failures,
                     bound, closeUnverified, factoryFailed, live, unconfirmed, logins, late>>
  BY DEF SInv, owner
<1>1. lost' \in BOOLEAN /\ lane' \in {"free", "worker", "reconnect", "command"}
  BY <1>0 DEF TypeOK, owner
<1>2. TypeOK'
  BY <1>0, <1>1 DEF TypeOK, Promise!NativeTypeOK, mainVars, intent
<1>3. LaneOrder' /\ OwnerOrder' /\ LateOrder'
  BY <1>0 DEF LaneOrder, OwnerOrder, LateOrder, Holding, Closed, intent
<1>4. MainOrder' /\ ReceiptOrder'
  BY <1>0 DEF MainOrder, ReceiptOrder, mainVars, intent
<1> QED
  BY <1>2, <1>3, <1>4 DEF SInv

-----------------------------------------------------------------------------
(* The main thread. *)

Mains == {"starting", "listening", "serving", "announcing", "closing", "joining",
          "dropping", "releasing", "leaving", "failing", "ended"}

(* The main thread before the session has to go: where it is and what it   *)
(* has to say.                                                             *)
LEMMA MainKeepsOwner ==
  SInv /\ (TakeLease \/ Listen \/ Announces \/ PublishNews \/ ServeEnds \/ ServeRaises \/ Closing \/ Joined
           \/ JoinTimesOut \/ Releases \/ Leaves \/ Fails) /\ process = "running" => SInv'
<1> SUFFICES ASSUME SInv, process = "running",
                    TakeLease \/ Listen \/ Announces \/ PublishNews \/ ServeEnds \/ ServeRaises \/ Closing
                    \/ Joined \/ JoinTimesOut \/ Releases \/ Leaves \/ Fails
             PROVE  SInv'
  OBVIOUS
<1> USE DEF TakeLease, Listen, Announces, PublishNews, ServeEnds, ServeRaises, Closing, Joined,
            JoinTimesOut, Releases, Leaves, Fails, Main
<1>0. /\ TypeOK /\ LaneOrder /\ OwnerOrder /\ LateOrder /\ MainOrder /\ ReceiptOrder
      /\ UNCHANGED <<process, reason, stopping, stopper, started, lane, reconnect, bound, lost, closeUnverified,
                     factoryFailed, live, unconfirmed, logins, late>>
  BY DEF SInv, owner
<1>a. /\ asked \in BOOLEAN /\ reason \in BOOLEAN /\ news \in Promise!Receipt /\ receipt \in Promise!Receipt
      /\ lease \in {"none", "held", "released"} /\ actual \in Actuals /\ life \in Lives /\ main \in Mains
      /\ failures \in 0 .. MaxFailures /\ announced \in BOOLEAN /\ raised \in BOOLEAN
  BY <1>0 DEF TypeOK, Promise!NativeTypeOK, Actuals, Lives, Mains
<1>1. /\ asked' \in BOOLEAN
      /\ asked => asked'
      /\ life' = life \/ (life = "none" /\ life' = "top")
  BY <1>0, <1>a DEF MainOrder
<1>2. \A status \in {"NONE", "STARTING", "READY", "BLOCKED", "STOPPING", "STOPPED"}, operator \in BOOLEAN :
        /\ Says(status, operator) \in Promise!Receipt
        /\ Says(status, operator).status = status /\ Says(status, operator).operator = operator
  BY SaysIsReceipt
<1>b. \/ receipt' = receipt
      \/ receipt' = Says("STARTING", FALSE) \/ receipt' = Says("BLOCKED", FALSE)
      \/ receipt' = Says("STOPPED", reason)
      \/ main = "announcing" /\ receipt' = news
  OBVIOUS
<1>c. news' = news \/ news' = Says("READY", FALSE) \/ news' = Says("BLOCKED", FALSE) \/ news' = Says("NONE", FALSE)
  OBVIOUS
<1>3. news' \in Promise!Receipt /\ receipt' \in Promise!Receipt
  <2> HIDE DEF TakeLease, Listen, Announces, PublishNews, ServeEnds, ServeRaises, Closing, Joined,
               JoinTimesOut, Releases, Leaves, Fails, Main
  <2>1. news' \in Promise!Receipt
    BY <1>2, <1>a, <1>c
  <2>2. receipt' \in Promise!Receipt
    BY <1>2, <1>a, <1>b
  <2> QED
    BY <2>1, <2>2
<1>4. failures' \in 0 .. MaxFailures
  <2>1. failures' = failures \/ (failures < MaxFailures /\ failures' = failures + 1)
    OBVIOUS
  <2> QED
    BY <1>a, <2>1, SessionAssumption
<1>5. TypeOK'
  <2>1. lease' \in {"none", "held", "released"} /\ actual' \in Actuals /\ life' \in Lives
    BY <1>a DEF Actuals, Lives
  <2>2. main' \in Mains
    BY <1>a DEF Mains
  <2>3. announced' \in BOOLEAN /\ raised' \in BOOLEAN
    BY <1>a
  <2>4. Promise!NativeTypeOK'
    BY <1>0, <1>3, <2>1 DEF TypeOK, Promise!NativeTypeOK
  <2>5. OwnerType'
    BY <1>0, SameOwner DEF owner
  <2>6. /\ reason' \in BOOLEAN /\ stopping' \in BOOLEAN /\ started' \in BOOLEAN
        /\ lane' \in {"free", "worker", "reconnect", "command"}
        /\ reconnect' \in {"idle", "admitted", "login", "read"}
        /\ stopper' \in [Stoppers -> {"idle", "asked", "looked", "answering", "done"}]
    BY <1>0 DEF TypeOK
  <2> HIDE DEF TakeLease, Listen, Announces, PublishNews, ServeEnds, ServeRaises, Closing, Joined,
               JoinTimesOut, Releases, Leaves, Fails, Main
  <2> QED
    BY <1>1, <1>3, <1>4, <2>1, <2>2, <2>3, <2>4, <2>5, <2>6 DEF TypeOK, OwnerType, Actuals, Lives, Mains
<1>6. LaneOrder' /\ LateOrder'
  BY <1>0, <1>1 DEF LaneOrder, LateOrder, Holding, Closed, TypeOK
<1>7. OwnerOrder'
  <2>1. bound # 0 => lease' = "held"
    BY <1>0 DEF OwnerOrder, MainOrder
  <2> QED
    BY <1>0, <2>1 DEF OwnerOrder
<1>8. MainOrder'
  BY <1>0, <1>1 DEF MainOrder
<1>9. ReceiptOrder'
  <2>0. main = "announcing" => news = Says("READY", FALSE) \/ news = Says("BLOCKED", FALSE)
    BY <1>0 DEF ReceiptOrder
  <2>1. receipt'.status = "NONE" => receipt.status = "NONE"
    <3> HIDE DEF TakeLease, Listen, Announces, PublishNews, ServeEnds, ServeRaises, Closing, Joined,
                 JoinTimesOut, Releases, Leaves, Fails, Main
    <3>1. /\ Says("READY", FALSE).status = "READY" /\ Says("BLOCKED", FALSE).status = "BLOCKED"
          /\ Says("STARTING", FALSE).status = "STARTING" /\ Says("STOPPED", reason).status = "STOPPED"
      BY <1>2, <1>a
    <3> QED
      BY <1>b, <2>0, <3>1
  <2>2. receipt'.operator => reason
    <3>3. ~Says("READY", FALSE).operator /\ ~Says("BLOCKED", FALSE).operator /\ ~Says("STARTING", FALSE).operator
          /\ (Says("STOPPED", reason).operator => reason)
      BY <1>2, <1>a
    <3>4. receipt.operator => reason
      BY <1>0 DEF ReceiptOrder
    <3> HIDE DEF TakeLease, Listen, Announces, PublishNews, ServeEnds, ServeRaises, Closing, Joined,
                 JoinTimesOut, Releases, Leaves, Fails, Main
    <3> QED
      BY <1>b, <2>0, <3>3, <3>4
  <2>3. /\ main' \in {"starting", "listening"} => receipt'.status = "NONE"
        /\ main' = "ended" => receipt'.status \in {"BLOCKED", "STOPPING", "STOPPED"}
    <3>1. main' \in {"starting", "listening"} => main \in {"starting", "listening"} /\ receipt' = receipt
      OBVIOUS
    <3>2. main' = "ended" =>
            \/ receipt' = receipt /\ main = "ended"
            \/ receipt' = Says("STOPPED", reason) \/ receipt' = Says("BLOCKED", FALSE)
      OBVIOUS
    <3>3. Says("STOPPED", reason).status = "STOPPED" /\ Says("BLOCKED", FALSE).status = "BLOCKED"
      BY <1>2, <1>a
    <3>4. /\ main \in {"starting", "listening"} => receipt.status = "NONE"
          /\ main = "ended" => receipt.status \in {"BLOCKED", "STOPPING", "STOPPED"}
      BY <1>0 DEF ReceiptOrder
    <3> HIDE DEF TakeLease, Listen, Announces, PublishNews, ServeEnds, ServeRaises, Closing, Joined,
                 JoinTimesOut, Releases, Leaves, Fails, Main
    <3> QED
      BY <3>1, <3>2, <3>3, <3>4
  <2>4. main' \in {"serving", "announcing"} =>
          receipt'.status # "NONE" /\ (~announced' /\ ~stopping => receipt'.status = "STARTING")
    <3>1. main' \in {"serving", "announcing"} =>
            \/ receipt' = Says("STARTING", FALSE)
            \/ main \in {"serving", "announcing"} /\ receipt' = receipt /\ (~announced' => ~announced)
            \/ main = "announcing" /\ receipt' = news /\ announced'
      OBVIOUS
    <3>2. main = "announcing" => news.status # "NONE"
      BY <1>0, <1>2 DEF ReceiptOrder
    <3>3. Says("STARTING", FALSE).status = "STARTING"
      BY <1>2
    <3>4. main \in {"serving", "announcing"} =>
            receipt.status # "NONE" /\ (~announced /\ ~stopping => receipt.status = "STARTING")
      BY <1>0 DEF ReceiptOrder
    <3> HIDE DEF TakeLease, Listen, Announces, PublishNews, ServeEnds, ServeRaises, Closing, Joined,
                 JoinTimesOut, Releases, Leaves, Fails, Main
    <3> HAVE main' \in {"serving", "announcing"}
    <3>a. CASE receipt' = Says("STARTING", FALSE)
      BY <3>a, <3>3
    <3>b. CASE main \in {"serving", "announcing"} /\ receipt' = receipt /\ (~announced' => ~announced)
      BY <3>b, <3>4
    <3>c. CASE main = "announcing" /\ receipt' = news /\ announced'
      BY <3>c, <3>2
    <3> QED
      BY <3>1, <3>a, <3>b, <3>c
  <2>5. main' = "announcing" => ~announced' /\ news' \in {Says("READY", FALSE), Says("BLOCKED", FALSE)}
    BY <1>0 DEF ReceiptOrder
  <2> QED
    BY <1>0, <2>1, <2>2, <2>3, <2>4, <2>5 DEF ReceiptOrder
<1> QED
  BY <1>5, <1>6, <1>7, <1>8, <1>9 DEF SInv

(* The last close, and the end of the process. *)
LEMMA DropKeeps == SInv /\ Drop => SInv'
<1> SUFFICES ASSUME SInv, Drop PROVE SInv'
  OBVIOUS
<1>0. /\ TypeOK /\ LaneOrder /\ OwnerOrder /\ LateOrder /\ MainOrder /\ ReceiptOrder
      /\ main = "dropping"
      /\ UNCHANGED <<process, asked, reason, stopping, stopper, started, lane, reconnect, lease, receipt,
                     actual, life, news, announced, raised, failures>>
  BY DEF SInv, Drop, Main
<1>1. OwnerType' /\ OwnerOrder'
  BY <1>0, LogoutType, LogoutOrder DEF Drop
<1>2. /\ UNCHANGED <<logins, late>> /\ bound' \in {0, bound}
      /\ main' \in {"releasing", "failing"} /\ (main' = "releasing" => bound' = 0)
  BY DEF Drop, Main, CloseOk, LogsOut, LogoutRaises, owner
<1>3. TypeOK'
  BY <1>0, <1>1, <1>2 DEF TypeOK, OwnerType, Promise!NativeTypeOK
<1>4. LaneOrder' /\ LateOrder'
  BY <1>0, <1>2 DEF LaneOrder, LateOrder, TypeOK
<1>5. MainOrder' /\ ReceiptOrder'
  BY <1>0, <1>2 DEF MainOrder, ReceiptOrder
<1> QED
  BY <1>1, <1>3, <1>4, <1>5 DEF SInv

LEMMA EndKeeps == SInv /\ process = "running" /\ (Exits \/ Crashes) => SInv'
<1> SUFFICES ASSUME SInv, process = "running", Exits \/ Crashes PROVE SInv'
  OBVIOUS
<1>0. /\ TypeOK /\ LaneOrder /\ OwnerOrder /\ LateOrder /\ ReceiptOrder
      /\ process' \in {"exited", "crashed"} /\ lease' = "released" /\ bound' = 0 /\ live' = {} /\ unconfirmed' = {}
      /\ UNCHANGED <<receipt, mainVars, intent, actual, started, lane, life, reconnect, lost, closeUnverified,
                     factoryFailed, logins, late>>
  BY DEF SInv, Exits, Crashes, Gone
<1>1. failures' \in 0 .. MaxFailures
  <2>1. failures' = failures \/ (failures < MaxFailures /\ failures' = failures + 1)
    BY DEF Exits, Crashes
  <2> QED
    BY <1>0, <2>1, SessionAssumption DEF TypeOK
<1>2. TypeOK'
  <2>1. bound' \in 0 .. logins' /\ logins \in Nat
    BY <1>0, SessionAssumption DEF TypeOK
  <2>2. live' \subseteq 1 .. logins' /\ unconfirmed' \subseteq live'
    BY <1>0
  <2> QED
    BY <1>0, <1>1, <2>1, <2>2 DEF TypeOK, Promise!NativeTypeOK, mainVars, intent
<1>3. LaneOrder' /\ LateOrder'
  BY <1>0 DEF LaneOrder, LateOrder, intent
<1>4. OwnerOrder'
  BY <1>0 DEF OwnerOrder
<1>5. MainOrder' /\ ReceiptOrder'
  BY <1>0 DEF MainOrder, ReceiptOrder, mainVars, intent
<1> QED
  BY <1>2, <1>3, <1>4, <1>5 DEF SInv

LEMMA SessionStep == SInv /\ [Next]_vars => SInv'
<1> SUFFICES ASSUME SInv, [Next]_vars PROVE SInv'
  OBVIOUS
<1>1. CASE ConnectionLoop
  BY <1>1, WorkerKeeps
<1>2. CASE process = "running" /\ MainThread
  BY <1>2, MainKeepsOwner, DropKeeps, EndKeeps DEF MainThread
<1>3. CASE \E r \in Stoppers : StopAsk(r) \/ Answers(r) \/ StopUnpublished(r)
  BY <1>3, StopKeeps DEF Answers
<1>4. CASE ReconnectAdmitted \/ Reconnecting
  BY <1>4, ReconnectKeeps
<1>5. CASE CommandTakes \/ CommandEnds \/ Lost
  BY <1>5, OthersKeep
<1>6. CASE process = "running" /\ (ServeRaises \/ Crashes)
  BY <1>6, MainKeepsOwner, EndKeeps
<1>7. CASE UNCHANGED vars
  <2> USE <1>7 DEF vars, mainVars, intent, owner
  <2>1. TypeOK'
    BY DEF SInv, TypeOK, Promise!NativeTypeOK
  <2>2. LaneOrder' /\ OwnerOrder' /\ LateOrder'
    BY DEF SInv, LaneOrder, OwnerOrder, LateOrder
  <2>3. MainOrder'
    BY DEF SInv, MainOrder
  <2>4. ReceiptOrder'
    BY DEF SInv, ReceiptOrder
  <2> QED
    BY <2>1, <2>2, <2>3, <2>4 DEF SInv
<1> QED
  BY <1>1, <1>2, <1>3, <1>4, <1>5, <1>6, <1>7 DEF Next

LEMMA SessionInvariant == Spec => []SInv
BY SessionInit, SessionStep, PTL DEF Spec

-----------------------------------------------------------------------------
(* Whatever the threads of one native process do, every variable of it     *)
(* keeps its type; there are never more sessions than logins that were     *)
(* tried (runtime.py, kgi.py, service.py).                                 *)
THEOREM SessionTypeCorrect == Spec => []TypeOK
<1>1. SInv => TypeOK
  BY DEF SInv
<1> QED
  BY <1>1, SessionInvariant, PTL

(* No two logins to the broker are ever alive at once, however many logins *)
(* fail half way, reconnects and stops overlap, and logouts raise.         *)
THEOREM NeverTwoSessions == Spec => []OneSession
<1>1. SInv => OneSession
  <2> SUFFICES ASSUME SInv PROVE OneSession
    OBVIOUS
  <2>1. PICK login \in 0 .. logins : live \subseteq {login}
    BY DEF SInv, OwnerOrder
  <2>2. IsFiniteSet({login}) /\ Cardinality({login}) = 1
    BY FS_Singleton
  <2>3. Cardinality(live) <= Cardinality({login})
    BY <2>1, <2>2, FS_Subset
  <2> QED
    BY <2>2, <2>3 DEF OneSession
<1> QED
  BY <1>1, SessionInvariant, PTL

(* Once a stop is asked for, only the login that was already on its way is *)
(* still tried, however many responders and reconnects there are.          *)
THEOREM StopAllowsOneLogin == Spec => []OneLateLogin
<1>1. SInv => OneLateLogin
  BY DEF SInv, LateOrder, OneLateLogin
<1> QED
  BY <1>1, SessionInvariant, PTL

-----------------------------------------------------------------------------
(* Each step of the process is one of the promise, or none. *)

Kept == Promise!Native \/ UNCHANGED Promise!native

LEMMA SameSession ==
  ASSUME UNCHANGED <<process, lease, receipt>>, (bound # 0) <=> (bound' # 0)
  PROVE  Kept
<1>1. UNCHANGED (bound # 0)
  OBVIOUS
<1> QED
  BY <1>1 DEF Kept, Promise!native

LEMMA LogsKept ==
  ASSUME UNCHANGED <<process, lease, receipt>>, process = "running", lease = "held"
  PROVE  Kept
<1>1. CASE (bound # 0) <=> (bound' # 0)
  BY <1>1, SameSession
<1>2. CASE ~((bound # 0) <=> (bound' # 0))
  <2>1. (bound # 0)' = ~(bound # 0)
    BY <1>2
  <2> QED
    BY <2>1 DEF Kept, Promise!Native, Promise!Logs
<1> QED
  BY <1>1, <1>2

LEMMA LogoutKept ==
  ASSUME SInv, process = "running", UNCHANGED <<process, lease, receipt>>, CloseOk \/ LogoutRaises
  PROVE  Kept
<1>1. CASE lease = "held"
  BY <1>1, LogsKept
<1>2. CASE lease # "held"
  <2>1. bound = 0 /\ bound' = 0
    BY <1>2 DEF SInv, OwnerOrder, CloseOk, LogsOut, LogoutRaises, owner
  <2> QED
    BY <2>1, SameSession
<1> QED
  BY <1>1, <1>2

LEMMA LoginKept ==
  ASSUME SInv, process = "running", UNCHANGED <<process, lease, receipt>>, NEW result, Login(result)
  PROVE  Kept
<1>1. CASE lease = "held"
  BY <1>1, LogsKept
<1>2. CASE lease # "held"
  <2>1. bound' = bound
    BY <1>2 DEF Login, LoginResults
  <2> QED
    BY <2>1, SameSession
<1> QED
  BY <1>1, <1>2

LEMMA WorkerKept == SInv /\ process = "running" /\ (ConnectionLoop \/ Reconnecting) => Kept
<1> SUFFICES ASSUME SInv, process = "running", ConnectionLoop \/ Reconnecting PROVE Kept
  OBVIOUS
<1>0. UNCHANGED <<process, lease, receipt>>
  BY DEF ConnectionLoop, Look, SeesStop, LaneBusy, StopsInLane, Heartbeat, Recover, RecoverLogsOut, RecoverLogsIn,
     Read, SetOnline, WatchEnds, WatchSeesLoss, Ending, TakesLane, LastLogout, SetOffline, Elsewhere,
     Reconnecting, ReconnectLogsOut, ReconnectLogsIn, ReconnectReads, ReconnectMoves
<1>1. CASE RecoverLogsOut \/ LastLogout \/ ReconnectLogsOut
  BY <1>0, <1>1, LogoutKept DEF RecoverLogsOut, LastLogout, ReconnectLogsOut
<1>2. CASE RecoverLogsIn \/ ReconnectLogsIn
  BY <1>0, <1>2, LoginKept DEF RecoverLogsIn, ReconnectLogsIn
<1>3. CASE UNCHANGED bound
  BY <1>0, <1>3, SameSession
<1>4. RecoverLogsOut \/ LastLogout \/ ReconnectLogsOut \/ RecoverLogsIn \/ ReconnectLogsIn \/ UNCHANGED bound
  BY DEF ConnectionLoop, Look, SeesStop, LaneBusy, StopsInLane, Heartbeat, Recover, Read, SetOnline, WatchEnds,
     WatchSeesLoss, Ending, TakesLane, SetOffline, Reconnecting, ReconnectReads, owner
<1> QED
  BY <1>1, <1>2, <1>3, <1>4

LEMMA StopKept ==
  ASSUME SInv, process = "running", NEW r \in Stoppers,
         StopAsk(r) \/ StopLook(r) \/ StopWrite(r) \/ StopPublish(r) \/ StopUnpublished(r)
  PROVE  Kept
<1>1. CASE StopPublish(r)
  <2>1. receipt.status # "NONE"
    BY <1>1 DEF SInv, ReceiptOrder, StopPublish
  <2>2. UNCHANGED <<process, lease, bound>> /\ receipt' = Promise!Says("STOPPING", TRUE)
    BY <1>1 DEF StopPublish, owner, Says
  <2>3. UNCHANGED (bound # 0)
    BY <2>2
  <2> QED
    BY <2>1, <2>2, <2>3 DEF Kept, Promise!Native, Promise!Acknowledge
<1>2. CASE StopAsk(r) \/ StopLook(r) \/ StopWrite(r) \/ StopUnpublished(r)
  <2>1. UNCHANGED <<process, lease, receipt, bound>>
    BY <1>2 DEF StopAsk, StopLook, StopWrite, StopUnpublished, owner
  <2> QED
    BY <2>1, SameSession
<1> QED
  BY <1>1, <1>2

LEMMA MainKept == SInv /\ process = "running" /\ (MainThread \/ ServeRaises \/ Crashes) => Kept
<1> SUFFICES ASSUME SInv, process = "running", MainThread \/ ServeRaises \/ Crashes PROVE Kept
  OBVIOUS
<1>0. MainOrder /\ ReceiptOrder /\ TypeOK
  BY DEF SInv
<1>1. CASE TakeLease
  <2>1. UNCHANGED <<process, receipt, bound>> /\ lease = "none" /\ lease' = "held" /\ receipt.status = "NONE"
    BY <1>0, <1>1 DEF TakeLease, Main, owner, MainOrder, ReceiptOrder
  <2>2. UNCHANGED (bound # 0)
    BY <2>1
  <2> QED
    BY <2>1, <2>2 DEF Kept, Promise!Native, Promise!Acquire
<1>2. CASE Listen
  <2>1. /\ UNCHANGED <<process, lease, bound>> /\ lease = "held" /\ receipt.status = "NONE"
        /\ receipt' = Promise!Says("STARTING", FALSE)
    BY <1>0, <1>2 DEF Listen, Main, owner, MainOrder, ReceiptOrder, Says
  <2>2. UNCHANGED (bound # 0)
    BY <2>1
  <2> QED
    BY <2>1, <2>2 DEF Kept, Promise!Native, Promise!Start
<1>3. CASE PublishNews
  <2>1. UNCHANGED <<process, lease, bound>> /\ (stopping => receipt' = receipt)
    BY <1>3 DEF PublishNews, Main, owner
  <2>2. CASE stopping
    BY <2>1, <2>2, SameSession
  <2>3. CASE ~stopping
    <3>1. receipt.status = "STARTING"
      BY <1>0, <1>3, <2>3 DEF PublishNews, ReceiptOrder
    <3>2. receipt' \in {Promise!Says("READY", FALSE), Promise!Says("BLOCKED", FALSE)}
      BY <1>0, <1>3, <2>3 DEF PublishNews, ReceiptOrder, Says
    <3>3. UNCHANGED (bound # 0)
      BY <2>1
    <3> QED
      BY <2>1, <3>1, <3>2, <3>3 DEF Kept, Promise!Native, Promise!Announce
  <2> QED
    BY <2>2, <2>3
<1>4. CASE Drop
  <2>1. UNCHANGED <<process, lease, receipt>> /\ (CloseOk \/ LogoutRaises)
    BY <1>4 DEF Drop, Main
  <2> QED
    BY <2>1, LogoutKept
<1>5. CASE Releases
  <2>1. UNCHANGED <<process, receipt, bound>> /\ bound = 0 /\ lease = "held" /\ lease' = "released"
    BY <1>0, <1>5 DEF Releases, Main, owner, MainOrder
  <2>2. UNCHANGED (bound # 0) /\ ~(bound # 0)
    BY <2>1
  <2> QED
    BY <2>1, <2>2 DEF Kept, Promise!Native, Promise!Release
<1>6. CASE Leaves
  <2>1. UNCHANGED <<process, lease, bound>> /\ lease = "released" /\ receipt' = Promise!Says("STOPPED", reason)
    BY <1>0, <1>6 DEF Leaves, Main, owner, MainOrder, Says
  <2>2. reason \in BOOLEAN /\ (receipt.operator => reason)
    BY <1>0 DEF TypeOK, ReceiptOrder
  <2>3. UNCHANGED (bound # 0)
    BY <2>1
  <2> QED
    BY <2>1, <2>2, <2>3 DEF Kept, Promise!Native, Promise!Leave
<1>7. CASE Fails
  <2>1. UNCHANGED <<process, lease, bound>> /\ receipt' = Promise!Says("BLOCKED", FALSE)
    BY <1>7 DEF Fails, Main, owner, Says
  <2>2. UNCHANGED (bound # 0)
    BY <2>1
  <2> QED
    BY <2>1, <2>2 DEF Kept, Promise!Native, Promise!Fail
<1>8. CASE Exits \/ Crashes
  <2>1. UNCHANGED receipt /\ lease' = "released" /\ bound' = 0
    BY <1>8 DEF Exits, Crashes, Gone
  <2>2. process' = "crashed" \/ (process' = "exited" /\ receipt.status \in {"BLOCKED", "STOPPING", "STOPPED"})
    BY <1>0, <1>8 DEF Exits, Crashes, Gone, ReceiptOrder
  <2>3. (bound # 0)' = FALSE
    BY <2>1
  <2> QED
    BY <2>1, <2>2, <2>3 DEF Kept, Promise!Native, Promise!Exit, Promise!Crash, Promise!Ends
<1>9. CASE Announces \/ ServeEnds \/ ServeRaises \/ Closing \/ Joined \/ JoinTimesOut
  <2>1. UNCHANGED <<process, lease, receipt, bound>>
    BY <1>9 DEF Announces, ServeEnds, ServeRaises, Closing, Joined, JoinTimesOut, Main, owner
  <2> QED
    BY <2>1, SameSession
<1> QED
  BY <1>1, <1>2, <1>3, <1>4, <1>5, <1>6, <1>7, <1>8, <1>9 DEF MainThread

LEMMA StepKept == SInv /\ [Next]_vars => [Promise!Native]_Promise!native
<1> SUFFICES ASSUME SInv, [Next]_vars PROVE Kept
  BY DEF Kept
<1>1. CASE process = "running" /\ (ConnectionLoop \/ Reconnecting)
  BY <1>1, WorkerKept
<1>2. CASE process = "running" /\ \E r \in Stoppers : StopAsk(r) \/ Answers(r) \/ StopUnpublished(r)
  BY <1>2, StopKept DEF Answers
<1>3. CASE process = "running" /\ (MainThread \/ ServeRaises \/ Crashes)
  BY <1>3, MainKept
<1>4. CASE ReconnectAdmitted \/ CommandTakes \/ CommandEnds \/ Lost \/ UNCHANGED vars
  <2>1. UNCHANGED <<process, lease, receipt, bound>>
    BY <1>4 DEF ReconnectAdmitted, CommandTakes, CommandEnds, Lost, vars, owner
  <2> QED
    BY <2>1, SameSession
<1> QED
  BY <1>1, <1>2, <1>3, <1>4 DEF Next

(* The threads of SessionLifecycle implement NativeProcess: in particular   *)
(* the lease outlives every session, an announcement never overwrites a    *)
(* stop, and an exit leaves a receipt that says BLOCKED or stopped         *)
(* (native.py: "An unconfirmed logout must not release ownership";         *)
(* service.py: "READY can never overwrite an accepted stop").              *)
THEOREM SessionImplementsNative == Spec => KeepsPromise
<1>1. Init => Promise!Fresh
  <2> SUFFICES ASSUME Init PROVE Promise!Fresh
    OBVIOUS
  <2>1. (bound # 0) = FALSE
    BY DEF Init
  <2> QED
    BY <2>1 DEF Init, Says, Promise!Fresh
<1> QED
  BY <1>1, StepKept, SessionInvariant, PTL DEF Spec, KeepsPromise, Promise!NativeSpec
=============================================================================

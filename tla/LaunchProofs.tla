---------------------------- MODULE LaunchProofs ----------------------------
(***************************************************************************)
(* What holds of LaunchSupervisor for any number of launches and crashes.  *)
(* The safety properties are not inductive: they rest on what a supervisor *)
(* that stands at a given point has established and nobody else can undo.  *)
(***************************************************************************)
EXTENDS LaunchSupervisor, TLAPS

(* The process does not have the lease and does not get it: it gave it     *)
(* back, or it has failed, and said so, before it asked for it.            *)
LetGo == lease = "released" \/ (lease = "none" /\ receipt.status # "NONE")

(* A lease that was given back is not taken again, and sessions and the    *)
(* last word of a process come under it and after it.  A launcher whose    *)
(* process runs on has crashed, as far as anybody can tell.                *)
LeaseOrder ==
  /\ session => lease = "held"
  /\ process # "running" => lease = "released"
  /\ receipt.status = "STOPPED" => lease = "released"
  /\ handle # "alive" /\ process = "running" => handle = "crashed"
  /\ seen # NoReceipt => receipt.status # "NONE"
  /\ status = "STOPPED" => LetGo \/ Unheard

(* A receipt that ends the process; only those name the operator.          *)
FinalReceipt(r) == r.operator \/ r.status \in {"BLOCKED", "STOPPED"}

ReceiptOrder ==
  /\ receipt.status = "NONE" => receipt = NoReceipt
  /\ receipt.operator => receipt.status \in {"STOPPING", "STOPPED"}
  /\ final => FinalReceipt(receipt)

(* Between the end of one process and the start of the next there is no    *)
(* live launcher, so what it has seen last stays the last word.            *)
Between == {"proof", "decide", "spawn", "reread", "judge", "prove", "backoff"}

(* A supervisor that will start a process, unless it hears of a stop.      *)
Starting == sup \in {"backoff", "spawn"} \/ (sup \in {"proof", "decide"} /\ ~knows)

SupervisorOrder ==
  /\ sup \in Between => handle # "alive"
  /\ sup \in {"decide", "spawn"} => LetGo \/ Unheard
  /\ sup = "spawn" => ~knows
  /\ Starting => ~final /\ status # "STOPPED" /\ (handle # "none" => seen.status = "READY")
  /\ sup = "prove" => seen.operator
  /\ sup = "judge" /\ final => FinalReceipt(seen)
  /\ acked => knows

LInv == TypeOK /\ LeaseOrder /\ ReceiptOrder /\ SupervisorOrder

-----------------------------------------------------------------------------
LEMMA LaunchInit == Init => LInv
<1> SUFFICES ASSUME Init PROVE LInv
  OBVIOUS
<1>1. NoReceipt \in Receipt
  BY DEF NoReceipt, Says, Receipt, Statuses
<1>2. TypeOK
  <2>1. NativeTypeOK /\ seen \in Receipt
    BY <1>1 DEF Init, NativeTypeOK
  <2>2. launches \in 0 .. MaxLaunches /\ crashes \in 0 .. MaxCrashes
    BY LaunchAssumption DEF Init
  <2> QED
    BY <2>1, <2>2 DEF Init, TypeOK, Statuses
<1>3. LeaseOrder /\ ReceiptOrder /\ SupervisorOrder
  BY DEF Init, LeaseOrder, ReceiptOrder, SupervisorOrder, Starting, Between, FinalReceipt, NoReceipt, Says
<1> QED
  BY <1>2, <1>3 DEF LInv

(* A step of the process keeps the promise, and is heard of by nobody yet. *)
LEMMA ProcessKeeps == LInv /\ ProcessSteps => LInv'
<1> SUFFICES ASSUME LInv, ProcessSteps PROVE LInv'
  OBVIOUS
<1> USE DEF LInv, TypeOK, NativeTypeOK, ProcessSteps, supervisor
<1>1. Native
  OBVIOUS
<1>2. NativeTypeOK'
  <2>1. /\ process' \in {"running", "exited", "crashed"}
        /\ lease' \in {"none", "held", "released"} /\ session' \in BOOLEAN
    BY <1>1 DEF Native, Acquire, Logs, Start, Announce, Acknowledge, Release, Leave, Fail, Exit, Crash, Ends
  <2>2. /\ \A o \in BOOLEAN : \A st \in Statuses : Says(st, o) \in Receipt
    BY DEF Says, Receipt
  <2>3. \/ UNCHANGED receipt
        \/ \E o \in BOOLEAN : \E st \in Statuses : receipt' = Says(st, o)
    BY <1>1 DEF Native, Acquire, Logs, Start, Announce, Acknowledge, Release, Leave, Fail, Exit, Crash,
       Ends, Statuses
  <2> QED
    BY <2>1, <2>2, <2>3
<1>3. LeaseOrder'
  <2>1. /\ session' => lease' = "held"
        /\ process' # "running" => lease' = "released"
        /\ receipt'.status = "STOPPED" => lease' = "released"
    BY <1>1 DEF LeaseOrder, Native, Acquire, Logs, Start, Announce, Acknowledge, Release, Leave, Fail, Exit,
       Crash, Ends, Says
  <2>2. process = "running" /\ UNCHANGED <<handle, seen, status>>
    BY <1>1 DEF Native
  <2>3. receipt.status # "NONE" => receipt'.status # "NONE"
    BY <1>1 DEF Native, Acquire, Logs, Start, Announce, Acknowledge, Release, Leave, Fail, Exit, Crash, Ends, Says
  <2>4. LetGo => LetGo'
    BY <1>1 DEF LetGo, Native, Acquire, Logs, Start, Announce, Acknowledge, Release, Leave, Fail, Exit,
       Crash, Ends, Says
  <2> QED
    BY <2>1, <2>2, <2>3, <2>4 DEF LeaseOrder, Unheard, NoReceipt
<1>4. ReceiptOrder'
  BY <1>1 DEF ReceiptOrder, NoReceipt, FinalReceipt, Native, Acquire, Logs, Start, Announce, Acknowledge, Release,
     Leave, Fail, Exit, Crash, Ends, Says, Receipt
<1>5. SupervisorOrder'
  <2>1. LetGo => LetGo'
    BY <1>1 DEF LetGo, Native, Acquire, Logs, Start, Announce, Acknowledge, Release, Leave, Fail, Exit,
       Crash, Ends, Says
  <2>2. handle # "alive" => UNCHANGED final
    OBVIOUS
  <2> QED
    BY <2>1, <2>2 DEF SupervisorOrder, Starting, Between, Unheard, FinalReceipt, NoReceipt
<1>6. crashes' \in 0 .. MaxCrashes
  BY LaunchAssumption
<1>7. final' \in BOOLEAN
  OBVIOUS
<1>8. TypeOK'
  BY <1>2, <1>6, <1>7
<1> QED
  BY <1>3, <1>4, <1>5, <1>8

(* A supervisor starts a process only from where it has shown that the one *)
(* before let go, and goes there only if nothing final was said.           *)
LEMMA SupervisorKeeps == LInv /\ Supervise => LInv'
<1> SUFFICES ASSUME LInv, Supervise PROVE LInv'
  OBVIOUS
<1> USE DEF LInv, TypeOK, NativeTypeOK
<1>0. NoReceipt \in Receipt
  BY DEF NoReceipt, Says, Receipt, Statuses
<1>1. ASSUME Spawn PROVE LInv'
  BY <1>0, <1>1 DEF Spawn, Goes, Quiet, LeaseOrder, ReceiptOrder, SupervisorOrder, FinalReceipt, Between,
     Starting, NoReceipt, Says
<1>2. ASSUME \/ Proof \/ Decide \/ Ask \/ Judge \/ Prove \/ Backoff
             \/ SendOk \/ SendRefused \/ SendRaises \/ Poll
      PROVE  LInv'
  <2> USE DEF Alone, native, world, Goes, Quiet, Publish
  <2>1. UNCHANGED <<process, lease, session, receipt, handle, request, ownerAlive, outside, launches,
                    crashes, final, seen>>
    BY <1>2 DEF Proof, Decide, Ask, Judge, Prove, Backoff, SendOk, SendRefused, SendRaises, Poll
  <2>2. knows' \in BOOLEAN /\ (knows => knows')
    BY <1>2 DEF Proof, Decide, Ask, Judge, Prove, Backoff, SendOk, SendRefused, SendRaises, Poll, StopRequested
  <2>3. TypeOK'
    <3>1. sup' \in {"off", "proof", "decide", "spawn", "watch", "ask", "send", "reread", "prove", "backoff", "judge"}
      BY <1>2 DEF Proof, Decide, Ask, Judge, Prove, Backoff, SendOk, SendRefused, SendRaises, Poll
    <3>2. stopSent' \in BOOLEAN /\ acked' \in BOOLEAN
      BY <1>2, <2>2 DEF Proof, Decide, Ask, Judge, Prove, Backoff, SendOk, SendRefused, SendRaises, Poll
    <3>3. status' \in Statuses \cup {"RECOVERING"}
      BY <1>2 DEF Proof, Decide, Ask, Judge, Prove, Backoff, SendOk, SendRefused, SendRaises, Poll,
         Statuses, Recovering
    <3> QED
      BY <2>1, <2>2, <3>1, <3>2, <3>3
  <2>4. LeaseOrder' /\ ReceiptOrder'
    BY <1>2, <2>1 DEF LeaseOrder, ReceiptOrder, SupervisorOrder, Between, Unowned, LetGo, Unheard, NoReceipt, Says,
       Proof, Decide, Ask, Judge, Prove, Backoff, SendOk, SendRefused, SendRaises, Poll, Recovering, FinalReceipt
  <2>5. SupervisorOrder'
    BY <1>2, <2>1, <2>2 DEF SupervisorOrder, LeaseOrder, ReceiptOrder, LetGo, Unheard, Between, Starting, Unowned,
       StopRequested, Restartable,
       Proof, Decide, Ask, Judge, Prove, Backoff, SendOk, SendRefused, SendRaises, Poll, Recovering, FinalReceipt
  <2> QED
    BY <2>3, <2>4, <2>5
<1>3. ASSUME WatchReads \/ Reread PROVE LInv'
  <2> USE DEF Alone, native, world, Goes, Quiet, Publish
  <2>1. TypeOK'
    BY <1>3 DEF WatchReads, Reread, Receipt
  <2>2. LeaseOrder' /\ ReceiptOrder'
    BY <1>3 DEF WatchReads, Reread, LeaseOrder, ReceiptOrder, FinalReceipt, LetGo, Unheard, NoReceipt, Says
  <2>3. SupervisorOrder'
    BY <1>3 DEF WatchReads, Reread, SupervisorOrder, ReceiptOrder, FinalReceipt, Between, Starting, NoReceipt, Says
  <2> QED
    BY <2>1, <2>2, <2>3
<1> QED
  BY <1>1, <1>2, <1>3 DEF Supervise

(* Nobody else moves a supervisor, except by ending or replacing it.       *)
LEMMA WorldKeeps ==
  LInv /\ (HandleExits \/ RedirectorDies \/ SupervisorDies \/ RequestStop \/ OwnerLost \/ Outsider) => LInv'
<1> SUFFICES ASSUME LInv,
                    HandleExits \/ RedirectorDies \/ SupervisorDies \/ RequestStop \/ OwnerLost \/ Outsider
             PROVE  LInv'
  OBVIOUS
<1> USE DEF LInv, TypeOK, NativeTypeOK, native, supervisor, world,
            HandleExits, RedirectorDies, SupervisorDies, RequestStop, OwnerLost, Outsider
<1>1. TypeOK'
  <2>1. crashes' \in 0 .. MaxCrashes
    BY LaunchAssumption
  <2>2. NativeTypeOK' /\ handle' \in {"none", "alive", "exited", "crashed"}
    OBVIOUS
  <2>3. sup' \in {"off", "proof", "decide", "spawn", "watch", "poll", "ask", "send", "reread", "judge",
                  "prove", "backoff"}
    OBVIOUS
  <2>4. UNCHANGED <<knows, stopSent, acked, seen, status, launches, final>>
    OBVIOUS
  <2>5. request' \in BOOLEAN /\ ownerAlive' \in BOOLEAN /\ outside' \in BOOLEAN
    OBVIOUS
  <2> QED
    BY <2>1, <2>2, <2>3, <2>4, <2>5
<1>2. LeaseOrder' /\ ReceiptOrder'
  BY DEF LeaseOrder, ReceiptOrder, FinalReceipt, LetGo, Unheard, NoReceipt, Says
<1>3. SupervisorOrder'
  BY DEF SupervisorOrder, Between, Starting, FinalReceipt, LetGo, Unheard, NoReceipt, Says
<1> QED
  BY <1>1, <1>2, <1>3

LEMMA LaunchKeeps == LInv /\ Launch => LInv'
<1> SUFFICES ASSUME LInv, Launch PROVE LInv'
  OBVIOUS
<1> USE DEF LInv, TypeOK, NativeTypeOK, Launch, Orphaned
<1>1. NoReceipt \in Receipt
  BY DEF NoReceipt, Says, Receipt, Statuses
<1>2. TypeOK'
  <2>1. launches' \in 0 .. MaxLaunches
    BY LaunchAssumption
  <2>2. outside' \in BOOLEAN
    OBVIOUS
  <2> QED
    BY <1>1, <2>1, <2>2 DEF Statuses
<1>3. LeaseOrder' /\ ReceiptOrder' /\ SupervisorOrder'
  BY DEF LeaseOrder, ReceiptOrder, SupervisorOrder, Between, Starting, FinalReceipt, NoReceipt, Says
<1> QED
  BY <1>2, <1>3

LEMMA LInductive == Spec => []LInv
<1>1. LInv /\ [Next]_vars => LInv'
  <2>1. ASSUME LInv, UNCHANGED vars PROVE LInv'
    BY <2>1 DEF LInv, TypeOK, NativeTypeOK, LeaseOrder, ReceiptOrder, SupervisorOrder, Between, Starting,
       FinalReceipt, LetGo, Unheard, NoReceipt, Says, vars, native, supervisor, world
  <2> QED
    BY <2>1, ProcessKeeps, SupervisorKeeps, WorldKeeps, LaunchKeeps DEF Next
<1> QED
  BY LaunchInit, <1>1, PTL DEF Spec

-----------------------------------------------------------------------------
(* The variables of the supervisor, its process and the files between them *)
(* have the values supervise and the native process give them.             *)
THEOREM LaunchTypeCorrect == Spec => []TypeOK
<1>1. LInv => TypeOK
  BY DEF LInv
<1> QED
  BY <1>1, LInductive, PTL

(* When a supervisor has published STOPPED, its process does not have the  *)
(* lease and does not get it before the next launch, unless the launcher   *)
(* ended before a receipt was read: a free lease shows nothing of a        *)
(* process that has not asked for it yet (supervise).                      *)
THEOREM StoppedLetsGo == Spec => []StoppedMeansReleased
<1>1. LInv => StoppedMeansReleased
  BY DEF LInv, LeaseOrder, LetGo, StoppedMeansReleased
<1> QED
  BY <1>1, LInductive, PTL

(* Nothing is started after an acknowledged stop or a final receipt,       *)
(* whoever crashes in between (supervise, request_supervisor_stop).        *)
THEOREM EndsStayEnds == Spec => EndIsFinal
<1>1. LInv /\ [Next]_vars => [Spawned => ~acked /\ ~final]_vars
  BY DEF LInv, SupervisorOrder, Starting, Spawned
<1> QED
  BY <1>1, LInductive, PTL DEF Spec, EndIsFinal

(* Nothing is started while the process before may hold the lease, or a    *)
(* session, also when only its launcher was seen to end (supervise).       *)
THEOREM OneAtATime == Spec => SpawnsAlone
<1>1. LInv /\ [Next]_vars => [Spawned => lease # "held" /\ ~session]_vars
  <2> SUFFICES ASSUME LInv, [Next]_vars, Spawned PROVE lease # "held" /\ ~session
    OBVIOUS
  <2>1. LetGo \/ Unheard
    BY DEF LInv, SupervisorOrder, Spawned
  <2>2. ~Unheard
    BY DEF LInv, SupervisorOrder, Starting, Spawned, Unheard, NoReceipt, Says
  <2> QED
    BY <2>1, <2>2 DEF LInv, LeaseOrder, LetGo
<1> QED
  BY <1>1, LInductive, PTL DEF Spec, SpawnsAlone
=============================================================================

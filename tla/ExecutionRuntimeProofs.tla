----------------------- MODULE ExecutionRuntimeProofs -----------------------
(***************************************************************************)
(* What holds of ExecutionRuntime for every set of orders, every quantity  *)
(* and any number of crashes and reconnects: every variable keeps its      *)
(* type, and nothing is sent twice (Dispatch).  EvidenceProofs goes on     *)
(* from here to what the runtime shows of an order.                        *)
(***************************************************************************)
EXTENDS ExecutionRuntime, FiniteSetTheorems, TLAPS

-----------------------------------------------------------------------------
(* The reducer and its callers keep the shape of an order. *)

(* A fact about an order, whatever its kind, leaves an order whose filled  *)
(* quantity is within the order's.                                         *)
LEMMA StepType ==
  ASSUME NEW o \in OrderCore(Quantity), NEW kind \in EventKind, NEW total \in 0 .. Quantity
  PROVE  Step(o, kind, total) \in OrderCore(Quantity)
<1>1. CASE kind \in CONTROLS
  BY <1>1 DEF Step, Reduce, ApplyControl, ControlState, OrderCore, Status
<1>2. CASE kind \notin CONTROLS
  <2>1. kind \in Reports
    BY <1>2 DEF EventKind
  <2>2. LiveState(o, kind, total, Quantity) \in Status
    BY <2>1 DEF LiveState, Reports, Status
  <2>3. ReportState(o, kind, total, Quantity) \in Status
    BY <2>2 DEF ReportState, Status
  <2> QED
    BY <1>2, <2>3 DEF Step, Reduce, ApplyReport, OrderCore
<1> QED
  BY <1>1, <1>2

LEMMA CallersType ==
  ASSUME NEW o \in OrderCore(Quantity)
  PROVE  /\ Reopened(o) \in OrderCore(Quantity)
         /\ Doubted(o) \in OrderCore(Quantity)
         /\ CancelAsked(o) \in OrderCore(Quantity)
         /\ AfterCancelled(o) \in OrderCore(Quantity)
         /\ AfterAccepted(o) \in OrderCore(Quantity)
         /\ AfterRejected(o) \in OrderCore(Quantity)
         /\ AfterStartup(o) \in OrderCore(Quantity)
<1>0. Quantity \in Nat
  BY RuntimeAssumption
<1>1. \A p \in OrderCore(Quantity), kind \in EventKind :
        Step(p, kind, 0) \in OrderCore(Quantity) /\ Step(p, kind, p.filled) \in OrderCore(Quantity)
  BY <1>0, StepType DEF OrderCore
<1>2. /\ Reopened(o) \in OrderCore(Quantity)
      /\ Doubted(o) \in OrderCore(Quantity)
  BY <1>1 DEF Reopened, Doubted, EventKind, CONTROLS
<1>3. \A p \in OrderCore(Quantity) : CancelAsked(p) \in OrderCore(Quantity)
  BY <1>1 DEF CancelAsked, EventKind, CONTROLS
<1>4. AfterCancelled(o) \in OrderCore(Quantity)
  BY <1>1, <1>2, <1>3 DEF AfterCancelled, EventKind, Reports
<1>5. /\ AfterAccepted(o) \in OrderCore(Quantity)
      /\ AfterRejected(o) \in OrderCore(Quantity)
      /\ AfterStartup(o) \in OrderCore(Quantity)
  BY <1>1, <1>2 DEF AfterAccepted, AfterRejected, AfterStartup, EventKind, Reports, CONTROLS
<1> QED
  BY <1>2, <1>3, <1>4, <1>5

LEMMA DealType ==
  ASSUME NEW o \in OrderCore(Quantity), NEW total \in 0 .. Quantity
  PROVE  AfterDeal(o, total) \in OrderCore(Quantity)
<1>1. FillKind(total) \in EventKind
  BY DEF FillKind, EventKind, Reports
<1> QED
  BY <1>1, CallersType, StepType DEF AfterDeal

LEMMA AnswerType ==
  ASSUME NEW o \in OrderCore(Quantity), NEW answer \in Answer, answer.kind # "NONE"
  PROVE  AfterAnswer(o, answer) \in OrderCore(Quantity)
<1>1. answer.kind \in EventKind /\ answer.filled \in 0 .. Quantity
  BY DEF Answer, EventKind, Reports
<1>2. \A p \in OrderCore(Quantity) : Step(p, answer.kind, answer.filled) \in OrderCore(Quantity)
  BY <1>1, StepType
<1>3. Reopened(o) \in OrderCore(Quantity) /\ CancelAsked(Reopened(o)) \in OrderCore(Quantity)
  BY CallersType
<1> QED
  BY <1>2, <1>3 DEF AfterAnswer

(* However many sources told of them, the deals of an order are at most    *)
(* its shares, one more included.                                          *)
LEMMA TotalType ==
  ASSUME NEW o \in Observation
  PROVE  Total(o.order) \in 0 .. Quantity /\ (o.kind = "DEAL" => TotalAfter(o) \in 0 .. Quantity)
<1> DEFINE Told == {k \in Deals : \E src \in Sources : <<o.order, k, src>> \in fills}
<1>1. Quantity \in Nat /\ IsFiniteSet(Deals) /\ Cardinality(Deals) = Quantity
  BY RuntimeAssumption, FS_Interval DEF Deals
<1>2. IsFiniteSet(Told) /\ Cardinality(Told) \in 0 .. Quantity
  BY <1>1, FS_Subset, FS_CardinalityType
<1>3. Total(o.order) = Cardinality(Told)
  BY DEF Total
<1>4. ASSUME o.kind = "DEAL" PROVE TotalAfter(o) \in 0 .. Quantity
  <2>1. CASE FillsAfter(o) = fills
    <3>1. FillsAfter(o) \ fills = {}
      BY <2>1
    <3> QED
      BY <1>1, <1>2, <1>3, <3>1, FS_EmptySet DEF TotalAfter
  <2>2. CASE FillsAfter(o) # fills
    <3> DEFINE fill == <<o.order, o.deal, o.source>>
    <3>1. /\ o.deal \in Deals \ Told
          /\ FillsAfter(o) = fills \cup {fill}
      BY <1>4, <2>2 DEF FillsAfter, Observation
    <3>2. fill \notin fills
      BY <3>1, <2>2
    <3>3. Cardinality(FillsAfter(o) \ fills) = 1
      <4>1. FillsAfter(o) \ fills = {fill}
        BY <3>1, <3>2
      <4> HIDE DEF fill
      <4> QED
        BY <4>1, FS_Singleton
    <3>4. Cardinality(Told \cup {o.deal}) = Cardinality(Told) + 1
      BY <1>2, <3>1, FS_AddElement
    <3>5. Cardinality(Told \cup {o.deal}) <= Quantity
      BY <1>1, <3>1, FS_Subset
    <3> HIDE DEF Told
    <3> QED
      BY <1>2, <1>3, <3>3, <3>4, <3>5, <1>1 DEF TotalAfter
  <2> QED
    BY <2>1, <2>2
<1> QED
  BY <1>2, <1>3, <1>4

LEMMA AfterType ==
  ASSUME NEW o \in Observation, orders[o.order] \in OrderCore(Quantity)
  PROVE  After(o) \in OrderCore(Quantity)
BY TotalType, CallersType, DealType DEF After, Observation

-----------------------------------------------------------------------------
(* Every variable keeps its type.                                          *)

LEMMA LaneType ==
  \A point \in LanePoints, e \in Orders \cup {NoOrder} :
    AtOrder(point, e) \in Lane /\ At(point) \in Lane
BY DEF AtOrder, At, Lane

LEMMA InitTypeOK == Init => TypeOK
<1> SUFFICES ASSUME Init PROVE TypeOK
  OBVIOUS
<1>1. Quantity \in Nat /\ NewOrder("PREVIEWED") \in OrderCore(Quantity)
  BY RuntimeAssumption DEF NewOrder, OrderCore, Status
<1>2. Idle \in Lane
  BY LaneType DEF Idle, LanePoints
<1> QED
  BY <1>1, <1>2, RuntimeAssumption DEF Init, TypeOK, Stages, CancelStages, BrokerStates

LEMMA NextTypeOK == TypeOK /\ [Next]_vars => TypeOK'
<1> SUFFICES ASSUME TypeOK, [Next]_vars PROVE TypeOK'
  OBVIOUS
<1> USE RuntimeAssumption
<1>L. \A point \in LanePoints, e \in Orders \cup {NoOrder} :
        AtOrder(point, e) \in Lane /\ At(point) \in Lane
  BY LaneType
<1>O. \A e \in Orders : orders[e] \in OrderCore(Quantity)
  BY DEF TypeOK
<1>Z. 0 \in 0 .. Quantity /\ "REJECTED" \in EventKind /\ "CANCEL_REQUESTED" \in EventKind
  BY DEF EventKind, Reports, CONTROLS
<1>1. ASSUME NEW e \in Orders, Claim(e) PROVE TypeOK'
  BY <1>1, <1>L DEF Claim, TypeOK, NewOrder, OrderCore, Status, Stages, LanePoints,
     evidence, drains, beyond, environment, counters
<1>2. ASSUME NEW e \in Orders, NotSent(e) PROVE TypeOK'
  <2>1. Step(orders[e], "REJECTED", 0) \in OrderCore(Quantity)
    BY <1>O, <1>Z, StepType
  <2> QED
    BY <1>2, <1>L, <2>1 DEF NotSent, TypeOK, Stages, LanePoints, Idle,
       evidence, drains, beyond, environment, counters
<1>3. ASSUME NEW e \in Orders, SendRaises(e) PROVE TypeOK'
  BY <1>3, <1>L DEF SendRaises, TypeOK, LanePoints, rows, evidence, drains, beyond,
     environment, counters
<1>4. ASSUME NEW e \in Orders, NEW outcome \in {"live", "rejected"}, Send(e, outcome) PROVE TypeOK'
  BY <1>4, <1>L DEF Send, TypeOK, LanePoints, BrokerStates, rows, evidence, drains, counters
<1>5. ASSUME NEW e \in Orders, LaneUncertain(e) PROVE TypeOK'
  BY <1>5, <1>L, <1>O, CallersType DEF LaneUncertain, Uncertain, TypeOK, LanePoints, Idle,
     evidence, drains, beyond, environment, counters
<1>6. ASSUME NEW e \in Orders, ReturnBinds(e) PROVE TypeOK'
  BY <1>6, <1>L DEF ReturnBinds, Bind, DrainNext, TypeOK, LanePoints, Threads,
     evidence, beyond, environment, counters
<1>7. ASSUME NEW e \in Orders, ReturnWithoutId(e) PROVE TypeOK'
  BY <1>7, <1>L DEF ReturnWithoutId, TypeOK, LanePoints, rows, evidence, drains, beyond,
     environment, counters
<1>8. ASSUME NEW e \in Orders, ReturnRejects(e) PROVE TypeOK'
  BY <1>8, <1>L, <1>O, CallersType DEF ReturnRejects, RejectedReturn, TypeOK, LanePoints, Idle,
     evidence, drains, beyond, environment, counters
<1>9. ASSUME NEW e \in Orders, MarkReturned(e) PROVE TypeOK'
  BY <1>9, <1>L DEF MarkReturned, TypeOK, LanePoints, Stages, evidence, drains, beyond,
     environment, counters
<1>10. CASE StartQuery
  BY <1>10, <1>L DEF StartQuery, TypeOK, LanePoints, rows, evidence, drains, beyond,
     environment, counters
<1>11. CASE QueryFails
  BY <1>11, <1>L DEF QueryFails, DoubtAll, Sent, TypeOK, LanePoints, Idle,
     evidence, drains, beyond, environment, counters
<1>12. CASE QueryReads
  BY <1>12 DEF QueryReads, At, AtOrder, Lane, TypeOK, LanePoints, rows, evidence, drains, beyond,
     environment, counters
<1>13. CASE ReturnsRaise
  BY <1>13, <1>L DEF ReturnsRaise, TypeOK, LanePoints, Idle, rows, evidence, drains, beyond,
     environment, counters
<1>14. ASSUME NEW e \in Orders, CollectBinds(e) PROVE TypeOK'
  BY <1>14 DEF CollectBinds, Bind, DrainNext, TypeOK, Lane, LanePoints, Threads, evidence,
     beyond, environment, counters
<1>15. ASSUME NEW e \in Orders, CollectWithoutId(e) PROVE TypeOK'
  BY <1>15 DEF CollectWithoutId, TypeOK, Lane, LanePoints, rows, evidence, drains, beyond,
     environment, counters
<1>16. ASSUME NEW e \in Orders, CollectRejects(e) PROVE TypeOK'
  <2>1. [lane EXCEPT !.at = "collect", !.order = NoOrder] \in Lane
    BY DEF TypeOK, Lane, LanePoints
  <2> QED
    BY <1>16, <1>L, <1>O, <2>1, CallersType DEF CollectRejects, RejectedReturn, TypeOK,
       LanePoints, Idle, evidence, drains, beyond, environment, counters
<1>17. ASSUME NEW o \in Observation, Ingest(o) PROVE TypeOK'
  <2>1. o.order \in Orders
    BY DEF Observation
  <2> QED
    BY <1>17, <2>1 DEF Ingest, IngestDrains, DrainNext, TypeOK, Threads, rows, beyond,
       environment, counters
<1>18. ASSUME NEW answers \in [Orders -> Answer], Reconcile(answers) PROVE TypeOK'
  <2>1. \A e \in Orders :
          Corroborated(e, answers[e]) => AfterAnswer(orders[e], answers[e]) \in OrderCore(Quantity)
    BY <1>O, AnswerType DEF Corroborated
  <2>2. orders' \in [Orders -> OrderCore(Quantity)]
    BY <1>18, <1>O, <2>1 DEF Reconcile
  <2>3. doubtful' \in [Orders -> BOOLEAN]
    BY <1>18 DEF Reconcile
  <2> QED
    BY <1>18, <1>L, <2>2, <2>3 DEF Reconcile, TypeOK, LanePoints, Idle, evidence, drains,
       beyond, environment, counters
<1>19. ASSUME NEW e \in Orders, ClaimCancel(e) PROVE TypeOK'
  <2>1. Step(orders[e], "CANCEL_REQUESTED", 0) \in OrderCore(Quantity)
    BY <1>O, <1>Z, StepType
  <2> QED
    BY <1>19, <1>L, <2>1 DEF ClaimCancel, TypeOK, LanePoints, CancelStages, evidence, drains,
       beyond, environment, counters
<1>20. ASSUME NEW e \in Orders, CancelRaises(e) PROVE TypeOK'
  BY <1>20, <1>L DEF CancelRaises, TypeOK, LanePoints, rows, evidence, drains, beyond,
     environment, counters
<1>21. ASSUME NEW e \in Orders, SendCancel(e) PROVE TypeOK'
  BY <1>21, <1>L DEF SendCancel, TypeOK, LanePoints, rows, evidence, drains, counters
<1>22. ASSUME NEW e \in Orders, CancelReturns(e) PROVE TypeOK'
  BY <1>22, <1>L DEF CancelReturns, TypeOK, LanePoints, CancelStages, Idle, evidence, drains,
     beyond, environment, counters
<1>23. CASE Reconnect
  <2>1. reconnects' \in 0 .. MaxReconnects /\ crashes' \in 0 .. MaxCrashes
    BY <1>23 DEF Reconnect, TypeOK
  <2>2. doubtful' \in [Orders -> BOOLEAN]
    BY <1>23 DEF Reconnect, DoubtAll, Sent, TypeOK
  <2>3. lane' \in Lane
    BY <1>23, <1>L DEF Reconnect, LanePoints
  <2> QED
    BY <1>23, <2>1, <2>2, <2>3 DEF Reconnect, TypeOK, evidence, drains, environment
<1>24. ASSUME NEW o \in Observation, CallbackRecords(o) PROVE TypeOK'
  <2>1. o.order \in Orders
    BY DEF Observation
  <2> QED
    BY <1>24, <2>1 DEF CallbackRecords, DrainNext, TypeOK, Threads, rows, beyond,
       environment, counters
<1>25. CASE CallbackUnresolved
  BY <1>25 DEF CallbackUnresolved, DoubtAll, Sent, TypeOK, evidence, drains, beyond,
     environment, counters
<1>26. ASSUME NEW t \in Threads, DrainSelects(t) PROVE TypeOK'
  BY <1>26 DEF DrainSelects, DrainNext, Unapplied, TypeOK, rows, evidence, beyond,
     environment, counters
<1>27. ASSUME NEW t \in Threads, NEW o \in Observation, Apply(t, o) PROVE TypeOK'
  <2>1. o.order \in Orders /\ o \in recorded
    BY <1>27 DEF Apply, Observation, TypeOK
  <2>2. orders' \in [Orders -> OrderCore(Quantity)]
    BY <1>27, <1>O, <2>1, AfterType DEF Apply, TypeOK
  <2>3. fills' \subseteq Orders \X Deals \X Sources
    BY <1>27 DEF Apply, FillsAfter, TypeOK, Observation, Sources
  <2> QED
    BY <1>27, <2>1, <2>2, <2>3 DEF Apply, Drained, TypeOK, beyond, environment, counters
<1>28. ASSUME NEW t \in Threads, NEW o \in Observation, AlreadyApplied(t, o) PROVE TypeOK'
  BY <1>28 DEF AlreadyApplied, Drained, TypeOK, rows, evidence, beyond, environment, counters
<1>29. ASSUME NEW t \in Threads, NEW o \in Observation, ApplyConflicts(t, o) PROVE TypeOK'
  <2>1. o.order \in Orders
    BY DEF Observation
  <2> QED
    BY <1>29, <1>O, <2>1, CallersType DEF ApplyConflicts, Uncertain, Drained, TypeOK, evidence,
       beyond, environment, counters
<1>30. CASE Crash
  <2>1. crashes' \in 0 .. MaxCrashes /\ reconnects' \in 0 .. MaxReconnects
    BY <1>30 DEF Crash, TypeOK
  <2>2. lane' \in Lane
    BY <1>30, <1>L DEF Crash, LanePoints, Idle
  <2>3. /\ drainKey' \in [Threads -> Orders \cup {NoOrder}]
        /\ draining' \in [Threads -> SUBSET recorded']
    BY <1>30 DEF Crash, TypeOK, evidence
  <2> QED
    BY <1>30, <2>1, <2>2, <2>3 DEF Crash, TypeOK, rows, evidence, environment
<1>31. CASE Restart
  BY <1>31, <1>L, <1>O, CallersType DEF Restart, DoubtAll, Sent, TypeOK, LanePoints, evidence,
     drains, environment, counters
<1>32. ASSUME NEW e \in Orders, BrokerFills(e) PROVE TypeOK'
  BY <1>32 DEF BrokerFills, TypeOK, rows, evidence, drains, counters
<1>33. ASSUME NEW e \in Orders, BrokerCancels(e) PROVE TypeOK'
  BY <1>33 DEF BrokerCancels, TypeOK, BrokerStates, rows, evidence, drains, counters
<1>34. CASE UNCHANGED vars
  BY <1>34 DEF vars, TypeOK, rows, evidence, drains, beyond, environment, counters
<1> QED
  BY <1>1, <1>2, <1>3, <1>4, <1>5, <1>6, <1>7, <1>8, <1>9, <1>10, <1>11, <1>12, <1>13, <1>14,
     <1>15, <1>16, <1>17, <1>18, <1>19, <1>20, <1>21, <1>22, <1>23, <1>24, <1>25, <1>26, <1>27,
     <1>28, <1>29, <1>30, <1>31, <1>32, <1>33, <1>34
     DEF Next, Submitting, Querying, Cancelling, Callback, Draining

(* Every variable keeps its type; for an order this bounds what it shows   *)
(* as filled by its quantity, however often its deals are told.            *)
THEOREM TypeCorrect == Spec => []TypeOK
<1>1. TypeOK /\ [Next]_vars => TypeOK'
  BY NextTypeOK
<1> QED
  BY InitTypeOK, <1>1, PTL DEF Spec

-----------------------------------------------------------------------------
(* Nothing is sent twice.                                                  *)
(*                                                                         *)
(* AtMostOneSend, AtMostOneCancel and NotSentMeansNotSent are not          *)
(* inductive: that a claimed order was not sent yet is known only from     *)
(* where the lane stands, and that a callback leaves an unsent order alone *)
(* only from what the threads hold.  Dispatch adds both.                   *)

(* What the rows of one order say of the calls made for it. *)
OrderDispatch(e) ==
  /\ sends[e] \in {0, 1} /\ cancels[e] \in {0, 1}
  /\ stage[e] = "ABSENT" => orders[e].state = "PREVIEWED"
  /\ stage[e] = "NOT_SENT" => orders[e].state = "REJECTED" /\ ~doubtful[e]
  /\ sends[e] = 1 => Sent(e)
  /\ bound[e] => sends[e] = 1
  /\ cancels[e] = 1 => bound[e] /\ cancelStage[e] # "NONE"

(* The command in progress knows which call it has yet to make. *)
LaneDispatch ==
  /\ lane.at \in {"claimed", "sent", "bound", "returned", "collected", "cancelling", "uncertain"}
       => lane.order \in Orders
  /\ lane.at = "claimed" =>
       /\ stage[lane.order] = "CLAIMED" /\ orders[lane.order].state = "PENDING"
       /\ sends[lane.order] = 0
  /\ lane.at \in {"sent", "bound", "returned", "collected"} => sends[lane.order] = 1
  /\ lane.at = "cancelling" =>
       /\ bound[lane.order] /\ cancelStage[lane.order] # "NONE"
       /\ cancels[lane.order] = 0
  /\ lane.at = "cancelled" => lane.order \in Orders /\ cancels[lane.order] = 1
  /\ lane.at = "uncertain" => Sent(lane.order)

(* Trade objects and observations in hand belong to orders that were sent. *)
HandsDispatch ==
  /\ \A e \in trades \cup lane.returns : sends[e] = 1
  /\ \A t \in Threads : \A o \in draining[t] : bound[o.order]

Dispatch ==
  /\ \A e \in Orders : OrderDispatch(e)
  /\ LaneDispatch
  /\ HandsDispatch

-----------------------------------------------------------------------------
(* Which states the callers of the reducer can make of an order. *)

(* No caller of the reducer takes an order out of an end by itself, a      *)
(* rejected return or a proven NOT_SENT shows REJECTED.                    *)
LEMMA CallersState ==
  ASSUME NEW o \in OrderCore(Quantity)
  PROVE  /\ o.state = "REJECTED" => Doubted(o) = o /\ AfterStartup(o) = o
         /\ o.state = "PREVIEWED" => AfterStartup(o) = o
         /\ o.state = "UNKNOWN" => AfterStartup(o) = o /\ Doubted(o) = o
         /\ o.state = "PENDING" => Step(o, "REJECTED", 0).state = "REJECTED"
         /\ o.state = "UNKNOWN" => AfterRejected(o).state = "REJECTED"
BY DEF Doubted, AfterStartup, AfterRejected, Reopened, Step, Reduce, ApplyReport, ApplyControl,
   ReportState, LiveState, ControlState, CONTROLS, TERMINAL, OrderCore

LEMMA DispatchInit == Init => Dispatch
BY DEF Init, Dispatch, OrderDispatch, LaneDispatch, HandsDispatch, Idle, At, AtOrder, NewOrder

-----------------------------------------------------------------------------
(* One lemma for each group of actions. *)

(* When neither the rows nor the calls change, Dispatch is about the lane, *)
(* the trade objects and the observations in hand.                         *)
LEMMA RowsKept ==
  ASSUME Dispatch, UNCHANGED <<orders, stage, bound, cancelStage, doubtful, sends, cancels>>
  PROVE  \A e \in Orders : OrderDispatch(e)'
BY DEF Dispatch, OrderDispatch, Sent

LEMMA ClaimKeeps ==
  ASSUME TypeOK, Dispatch, NEW e \in Orders, Claim(e)
  PROVE  Dispatch'
<1>1. sends[e] = 0 /\ ~bound[e]
  BY DEF Claim, Unclaimed, Dispatch, OrderDispatch, Sent
<1>2. \A f \in Orders : OrderDispatch(f)'
  BY <1>1 DEF Claim, Unclaimed, Dispatch, OrderDispatch, Sent, TypeOK, evidence, drains, beyond,
     environment, counters
<1>3. LaneDispatch'
  BY <1>1 DEF Claim, LaneDispatch, AtOrder, TypeOK, NewOrder, beyond, environment, drains
<1>4. HandsDispatch'
  BY DEF Claim, Dispatch, HandsDispatch, AtOrder, TypeOK, beyond, environment, drains
<1> QED
  BY <1>2, <1>3, <1>4 DEF Dispatch

LEMMA SubmittingKeeps ==
  ASSUME TypeOK, Dispatch, NEW e \in Orders, Submitting(e)
  PROVE  Dispatch'
<1>O. \A f \in Orders : orders[f] \in OrderCore(Quantity)
  BY DEF TypeOK
<1>1. CASE Claim(e)
  BY <1>1, ClaimKeeps
<1>2. CASE NotSent(e)
  <2>1. sends[e] = 0 /\ Step(orders[e], "REJECTED", 0).state = "REJECTED"
    BY <1>2, <1>O, CallersState DEF NotSent, LaneAt, Dispatch, LaneDispatch
  <2>2. \A f \in Orders : OrderDispatch(f)'
    BY <1>2, <2>1 DEF NotSent, Dispatch, OrderDispatch, Sent, TypeOK, beyond, environment
  <2>3. LaneDispatch' /\ HandsDispatch'
    BY <1>2 DEF NotSent, Dispatch, LaneDispatch, HandsDispatch, Idle, At, AtOrder, beyond,
       environment, drains
  <2> QED
    BY <2>2, <2>3 DEF Dispatch
<1>3. CASE SendRaises(e)
  <2>1. \A f \in Orders : OrderDispatch(f)'
    BY <1>3, RowsKept DEF SendRaises, rows, beyond, environment
  <2>2. LaneDispatch' /\ HandsDispatch'
    BY <1>3 DEF SendRaises, Dispatch, LaneDispatch, HandsDispatch, LaneAt, Sent, AtOrder, rows,
       drains, beyond, environment
  <2> QED
    BY <2>1, <2>2 DEF Dispatch
<1>4. ASSUME NEW outcome \in {"live", "rejected"}, Send(e, outcome) PROVE Dispatch'
  <2>1. sends[e] = 0 /\ Sent(e)
    BY <1>4 DEF Send, LaneAt, Dispatch, LaneDispatch, Sent
  <2>2. sends' = [sends EXCEPT ![e] = 1]
    BY <1>4, <2>1 DEF Send
  <2>3. \A f \in Orders : OrderDispatch(f)'
    BY <1>4, <2>1, <2>2 DEF Send, Dispatch, OrderDispatch, Sent, TypeOK, rows
  <2>4. LaneDispatch'
    BY <1>4, <2>1, <2>2 DEF Send, Dispatch, LaneDispatch, Sent, AtOrder, TypeOK, rows
  <2>5. HandsDispatch'
    BY <1>4, <2>2 DEF Send, Dispatch, HandsDispatch, AtOrder, TypeOK, rows, drains
  <2> QED
    BY <2>3, <2>4, <2>5 DEF Dispatch
<1>5. CASE LaneUncertain(e)
  <2>1. Sent(e)
    BY <1>5 DEF LaneUncertain, LaneAt, Dispatch, LaneDispatch
  <2>2. \A f \in Orders : OrderDispatch(f)'
    BY <1>5, <2>1 DEF LaneUncertain, Uncertain, Dispatch, OrderDispatch, Sent, TypeOK, beyond,
       environment
  <2>3. LaneDispatch' /\ HandsDispatch'
    BY <1>5 DEF LaneUncertain, Dispatch, LaneDispatch, HandsDispatch, Idle, At, AtOrder,
       drains, beyond, environment
  <2> QED
    BY <2>2, <2>3 DEF Dispatch
<1>6. CASE ReturnBinds(e)
  <2>1. sends[e] = 1
    BY <1>6 DEF ReturnBinds, LaneAt, Dispatch, LaneDispatch
  <2>2. \A f \in Orders : OrderDispatch(f)'
    BY <1>6, <2>1 DEF ReturnBinds, Bind, Dispatch, OrderDispatch, Sent, TypeOK, beyond,
       environment
  <2>3. LaneDispatch' /\ HandsDispatch'
    BY <1>6, <2>1 DEF ReturnBinds, Bind, Dispatch, LaneDispatch, HandsDispatch, AtOrder,
       TypeOK, Observation, beyond, environment
  <2> QED
    BY <2>2, <2>3 DEF Dispatch
<1>7. CASE ReturnWithoutId(e)
  <2>1. \A f \in Orders : OrderDispatch(f)'
    BY <1>7, RowsKept DEF ReturnWithoutId, rows, beyond, environment
  <2>2. LaneDispatch' /\ HandsDispatch'
    BY <1>7 DEF ReturnWithoutId, Dispatch, LaneDispatch, HandsDispatch, LaneAt, AtOrder, rows,
       drains, beyond, environment
  <2> QED
    BY <2>1, <2>2 DEF Dispatch
<1>8. CASE ReturnRejects(e)
  <2>1. sends[e] = 1
    BY <1>8 DEF ReturnRejects, LaneAt, Dispatch, LaneDispatch
  <2>2. \A f \in Orders : OrderDispatch(f)'
    BY <1>8, <2>1 DEF ReturnRejects, RejectedReturn, Dispatch, OrderDispatch, Sent, TypeOK,
       beyond, environment
  <2>3. LaneDispatch' /\ HandsDispatch'
    BY <1>8, <2>1 DEF ReturnRejects, RejectedReturn, Dispatch, LaneDispatch, HandsDispatch,
       Idle, At, AtOrder, drains, beyond, environment
  <2> QED
    BY <2>2, <2>3 DEF Dispatch
<1>9. CASE MarkReturned(e)
  <2>1. sends[e] = 1
    BY <1>9 DEF MarkReturned, LaneAt, Dispatch, LaneDispatch
  <2>2. \A f \in Orders : OrderDispatch(f)'
    BY <1>9, <2>1 DEF MarkReturned, Dispatch, OrderDispatch, Sent, TypeOK, beyond, environment
  <2>3. LaneDispatch' /\ HandsDispatch'
    BY <1>9 DEF MarkReturned, Dispatch, LaneDispatch, HandsDispatch, At, AtOrder, drains,
       beyond, environment
  <2> QED
    BY <2>2, <2>3 DEF Dispatch
<1> QED
  BY <1>1, <1>2, <1>3, <1>4, <1>5, <1>6, <1>7, <1>8, <1>9 DEF Submitting

LEMMA QueryingKeeps ==
  ASSUME TypeOK, Dispatch, Querying
  PROVE  Dispatch'
<1>1. CASE StartQuery
  BY <1>1, RowsKept DEF StartQuery, Dispatch, LaneDispatch, HandsDispatch, At, AtOrder, rows,
     drains, beyond, environment
<1>2. CASE QueryFails
  <2>1. \A f \in Orders : OrderDispatch(f)'
    BY <1>2 DEF QueryFails, DoubtAll, Dispatch, OrderDispatch, Sent, TypeOK, beyond, environment
  <2>2. LaneDispatch' /\ HandsDispatch'
    BY <1>2 DEF QueryFails, Dispatch, LaneDispatch, HandsDispatch, Idle, At, AtOrder, drains,
       beyond, environment
  <2> QED
    BY <2>1, <2>2 DEF Dispatch
<1>3. CASE QueryReads
  <2>1. \A f \in Orders : OrderDispatch(f)'
    BY <1>3, RowsKept DEF QueryReads, rows, beyond, environment
  <2>2. lane' = [at |-> "collect", order |-> NoOrder, returns |-> trades]
    BY <1>3 DEF QueryReads, At, AtOrder
  <2>3. LaneDispatch' /\ HandsDispatch'
    BY <1>3, <2>2 DEF QueryReads, Dispatch, LaneDispatch, HandsDispatch, rows, drains, beyond,
       environment
  <2> QED
    BY <2>1, <2>3 DEF Dispatch
<1>4. CASE ReturnsRaise
  BY <1>4, RowsKept DEF ReturnsRaise, Dispatch, LaneDispatch, HandsDispatch, Idle, At, AtOrder,
     rows, drains, beyond, environment
<1>5. ASSUME NEW e \in Orders, CollectBinds(e) PROVE Dispatch'
  <2>1. sends[e] = 1
    BY <1>5 DEF CollectBinds, Dispatch, HandsDispatch
  <2>2. \A f \in Orders : OrderDispatch(f)'
    BY <1>5, <2>1 DEF CollectBinds, Bind, Dispatch, OrderDispatch, Sent, TypeOK, beyond,
       environment
  <2>3. lane'.at = "collected" /\ lane'.order = e /\ lane'.returns = lane.returns \ {e}
    BY <1>5 DEF CollectBinds, TypeOK, Lane
  <2>4. LaneDispatch' /\ HandsDispatch'
    BY <1>5, <2>1, <2>3 DEF CollectBinds, Bind, Dispatch, LaneDispatch, HandsDispatch, TypeOK,
       Observation, beyond, environment
  <2> QED
    BY <2>2, <2>4 DEF Dispatch
<1>6. ASSUME NEW e \in Orders, CollectWithoutId(e) PROVE Dispatch'
  <2>1. sends[e] = 1
    BY <1>6 DEF CollectWithoutId, Dispatch, HandsDispatch
  <2>2. \A f \in Orders : OrderDispatch(f)'
    BY <1>6, RowsKept DEF CollectWithoutId, rows, beyond, environment
  <2>3. lane'.at = "collected" /\ lane'.order = e /\ lane'.returns = lane.returns \ {e}
    BY <1>6 DEF CollectWithoutId, TypeOK, Lane
  <2>4. LaneDispatch' /\ HandsDispatch'
    BY <1>6, <2>1, <2>3 DEF CollectWithoutId, Dispatch, LaneDispatch, HandsDispatch, rows,
       drains, beyond, environment
  <2> QED
    BY <2>2, <2>4 DEF Dispatch
<1>7. ASSUME NEW e \in Orders, CollectRejects(e) PROVE Dispatch'
  <2>1. sends[e] = 1
    BY <1>7 DEF CollectRejects, LaneAt, Dispatch, LaneDispatch
  <2>2. \A f \in Orders : OrderDispatch(f)'
    BY <1>7, <2>1 DEF CollectRejects, RejectedReturn, Dispatch, OrderDispatch, Sent, TypeOK,
       beyond, environment
  <2>3. lane'.at \in {"collect", "idle"} /\ lane'.returns \subseteq lane.returns
    <3> DEFINE next == [lane EXCEPT !.at = "collect", !.order = NoOrder]
    <3>1. next.at = "collect" /\ next.returns = lane.returns
      BY DEF TypeOK, Lane
    <3>2. Idle.at = "idle" /\ Idle.returns = {}
      BY DEF Idle, At, AtOrder
    <3>3. lane' = next \/ lane' = Idle
      BY <1>7 DEF CollectRejects, RejectedReturn
    <3> HIDE DEF next
    <3> QED
      BY <3>1, <3>2, <3>3
  <2>4. LaneDispatch' /\ HandsDispatch'
    BY <1>7, <2>3 DEF CollectRejects, Dispatch, LaneDispatch, HandsDispatch, drains, beyond,
       environment
  <2> QED
    BY <2>2, <2>4 DEF Dispatch
<1>8. ASSUME NEW o \in Observation, Ingest(o) PROVE Dispatch'
  BY <1>8, RowsKept DEF Ingest, Dispatch, LaneDispatch, HandsDispatch, LaneAt, rows, beyond,
     environment
<1>9. ASSUME NEW answers \in [Orders -> Answer], Reconcile(answers) PROVE Dispatch'
  <2>1. \A f \in Orders : Corroborated(f, answers[f]) => sends[f] = 1
    BY DEF Corroborated, Dispatch, OrderDispatch
  <2>2. \A f \in Orders : stage[f] \in {"ABSENT", "NOT_SENT"} =>
          orders'[f] = orders[f] /\ (doubtful'[f] => doubtful[f])
    BY <1>9, <2>1 DEF Reconcile, Dispatch, OrderDispatch, Sent
  <2>3. \A f \in Orders : OrderDispatch(f)'
    BY <1>9, <2>2 DEF Reconcile, Dispatch, OrderDispatch, Sent, beyond, environment
  <2>4. LaneDispatch' /\ HandsDispatch'
    BY <1>9 DEF Reconcile, Dispatch, LaneDispatch, HandsDispatch, Idle, At, AtOrder, drains,
       beyond, environment
  <2> QED
    BY <2>3, <2>4 DEF Dispatch
<1> QED
  BY <1>1, <1>2, <1>3, <1>4, <1>5, <1>6, <1>7, <1>8, <1>9 DEF Querying

LEMMA CancellingKeeps ==
  ASSUME TypeOK, Dispatch, NEW e \in Orders, Cancelling(e)
  PROVE  Dispatch'
<1>1. CASE ClaimCancel(e)
  <2>1. bound[e] /\ sends[e] = 1 /\ cancels[e] = 0
    BY <1>1 DEF ClaimCancel, MayCancel, Dispatch, OrderDispatch
  <2>2. \A f \in Orders : OrderDispatch(f)'
    BY <1>1, <2>1 DEF ClaimCancel, Dispatch, OrderDispatch, Sent, TypeOK, beyond, environment
  <2>3. LaneDispatch' /\ HandsDispatch'
    BY <1>1, <2>1 DEF ClaimCancel, Dispatch, LaneDispatch, HandsDispatch, AtOrder, TypeOK,
       drains, beyond, environment
  <2> QED
    BY <2>2, <2>3 DEF Dispatch
<1>2. CASE CancelRaises(e)
  <2>1. Sent(e)
    BY <1>2 DEF CancelRaises, LaneAt, Dispatch, LaneDispatch, OrderDispatch
  <2>2. \A f \in Orders : OrderDispatch(f)'
    BY <1>2, RowsKept DEF CancelRaises, rows, beyond, environment
  <2>3. LaneDispatch' /\ HandsDispatch'
    BY <1>2, <2>1 DEF CancelRaises, Dispatch, LaneDispatch, HandsDispatch, AtOrder, Sent, rows,
       drains, beyond, environment
  <2> QED
    BY <2>2, <2>3 DEF Dispatch
<1>3. CASE SendCancel(e)
  <2>1. bound[e] /\ cancelStage[e] # "NONE" /\ cancels[e] = 0 /\ Sent(e)
    BY <1>3 DEF SendCancel, LaneAt, Dispatch, LaneDispatch, OrderDispatch
  <2>2. cancels' = [cancels EXCEPT ![e] = 1]
    BY <1>3, <2>1 DEF SendCancel
  <2>3. \A f \in Orders : OrderDispatch(f)'
    BY <1>3, <2>1, <2>2 DEF SendCancel, Dispatch, OrderDispatch, Sent, TypeOK, rows
  <2>4. LaneDispatch' /\ HandsDispatch'
    BY <1>3, <2>1 DEF SendCancel, Dispatch, LaneDispatch, HandsDispatch, AtOrder, Sent, rows, TypeOK,
       drains
  <2> QED
    BY <2>3, <2>4 DEF Dispatch
<1>4. CASE CancelReturns(e)
  <2>1. \A f \in Orders : OrderDispatch(f)'
    BY <1>4 DEF CancelReturns, Dispatch, OrderDispatch, Sent, TypeOK, beyond, environment
  <2>2. LaneDispatch' /\ HandsDispatch'
    BY <1>4 DEF CancelReturns, Dispatch, LaneDispatch, HandsDispatch, Idle, At, AtOrder, drains,
       beyond, environment
  <2> QED
    BY <2>1, <2>2 DEF Dispatch
<1> QED
  BY <1>1, <1>2, <1>3, <1>4 DEF Cancelling

(* The threads change only orders that were sent, wherever the lane is.    *)
LEMMA ThreadsKeep ==
  ASSUME TypeOK, Dispatch, NEW f \in Orders, sends[f] = 1,
         NEW row \in OrderCore(Quantity), NEW doubt \in BOOLEAN,
         orders' = [orders EXCEPT ![f] = row],
         doubtful' = [doubtful EXCEPT ![f] = doubt],
         UNCHANGED <<stage, bound, cancelStage, lane, trades, sends, cancels>>,
         \A t \in Threads : draining'[t] \subseteq draining[t]
  PROVE  Dispatch'
<1>1. Sent(f)
  BY DEF Dispatch, OrderDispatch
<1>2. \A e \in Orders : OrderDispatch(e)'
  BY <1>1 DEF Dispatch, OrderDispatch, Sent, TypeOK
<1>3. LaneDispatch'
  BY <1>1 DEF Dispatch, LaneDispatch, Sent, TypeOK
<1>4. HandsDispatch'
  BY DEF Dispatch, HandsDispatch
<1> QED
  BY <1>2, <1>3, <1>4 DEF Dispatch

LEMMA CallbackKeeps ==
  ASSUME TypeOK, Dispatch, Callback
  PROVE  Dispatch'
<1>1. CASE CallbackUnresolved
  <2>1. \A f \in Orders : OrderDispatch(f)'
    BY <1>1 DEF CallbackUnresolved, DoubtAll, Dispatch, OrderDispatch, Sent, TypeOK, beyond,
       environment
  <2>2. LaneDispatch' /\ HandsDispatch'
    BY <1>1 DEF CallbackUnresolved, Dispatch, LaneDispatch, HandsDispatch, Sent, drains,
       beyond, environment
  <2> QED
    BY <2>1, <2>2 DEF Dispatch
<1>2. ASSUME NEW o \in Observation, CallbackRecords(o) PROVE Dispatch'
  <2>1. \A f \in Orders : OrderDispatch(f)'
    BY <1>2, RowsKept DEF CallbackRecords, rows, beyond, environment
  <2>2. LaneDispatch' /\ HandsDispatch'
    BY <1>2 DEF CallbackRecords, Dispatch, LaneDispatch, HandsDispatch, Sent, rows, beyond,
       environment
  <2> QED
    BY <2>1, <2>2 DEF Dispatch
<1> QED
  BY <1>1, <1>2 DEF Callback

LEMMA DrainingKeeps ==
  ASSUME TypeOK, Dispatch, NEW t \in Threads, Draining(t)
  PROVE  Dispatch'
<1>O. \A f \in Orders : orders[f] \in OrderCore(Quantity)
  BY DEF TypeOK
<1>1. CASE DrainSelects(t)
  <2>1. \A f \in Orders : OrderDispatch(f)'
    BY <1>1, RowsKept DEF DrainSelects, rows, beyond, environment
  <2>2. LaneDispatch'
    BY <1>1 DEF DrainSelects, Dispatch, LaneDispatch, Sent, rows, beyond, environment
  <2>3. HandsDispatch'
    BY <1>1 DEF DrainSelects, Unapplied, Dispatch, HandsDispatch, TypeOK, rows, beyond,
       environment
  <2> QED
    BY <2>1, <2>2, <2>3 DEF Dispatch
<1>2. ASSUME NEW o \in Observation, Apply(t, o) PROVE Dispatch'
  <2>1. o.order \in Orders /\ sends[o.order] = 1
    BY <1>2 DEF Apply, Dispatch, HandsDispatch, OrderDispatch, Observation
  <2>2. After(o) \in OrderCore(Quantity)
    BY <1>O, <2>1, AfterType
  <2>3. \A u \in Threads : draining'[u] \subseteq draining[u]
    BY <1>2 DEF Apply, Drained, TypeOK
  <2> QED
    BY <1>2, <2>1, <2>2, <2>3, ThreadsKeep DEF Apply, beyond, environment
<1>3. ASSUME NEW o \in Observation, AlreadyApplied(t, o) PROVE Dispatch'
  <2>1. \A f \in Orders : OrderDispatch(f)'
    BY <1>3, RowsKept DEF AlreadyApplied, rows, beyond, environment
  <2>2. LaneDispatch' /\ HandsDispatch'
    BY <1>3 DEF AlreadyApplied, Drained, Dispatch, LaneDispatch, HandsDispatch, Sent, TypeOK,
       rows, beyond, environment
  <2> QED
    BY <2>1, <2>2 DEF Dispatch
<1>4. ASSUME NEW o \in Observation, ApplyConflicts(t, o) PROVE Dispatch'
  <2>1. o.order \in Orders /\ sends[o.order] = 1
    BY <1>4 DEF ApplyConflicts, Dispatch, HandsDispatch, OrderDispatch, Observation
  <2>2. Doubted(orders[o.order]) \in OrderCore(Quantity)
    BY <1>O, <2>1, CallersType
  <2>3. \A u \in Threads : draining'[u] \subseteq draining[u]
    BY <1>4 DEF ApplyConflicts, Drained, TypeOK
  <2> QED
    BY <1>4, <2>1, <2>2, <2>3, ThreadsKeep DEF ApplyConflicts, Uncertain, beyond, environment
<1> QED
  BY <1>1, <1>2, <1>3, <1>4 DEF Draining

(* Reconnects, crashes and restarts forget the calls in progress, not the  *)
(* rows that say they were claimed.                                        *)
LEMMA LifecycleKeeps ==
  ASSUME TypeOK, Dispatch, Reconnect \/ Crash \/ Restart
  PROVE  Dispatch'
<1>O. \A f \in Orders : orders[f] \in OrderCore(Quantity)
  BY DEF TypeOK
<1>1. CASE Reconnect
  <2>1. \A f \in Orders : OrderDispatch(f)'
    BY <1>1 DEF Reconnect, DoubtAll, Dispatch, OrderDispatch, Sent, TypeOK, environment
  <2>2. LaneDispatch' /\ HandsDispatch'
    BY <1>1 DEF Reconnect, Dispatch, LaneDispatch, HandsDispatch, At, AtOrder, drains,
       environment
  <2> QED
    BY <2>1, <2>2 DEF Dispatch
<1>2. CASE Crash
  <2>1. \A f \in Orders : OrderDispatch(f)'
    BY <1>2, RowsKept DEF Crash, rows, environment
  <2>2. LaneDispatch' /\ HandsDispatch'
    BY <1>2 DEF Crash, Dispatch, LaneDispatch, HandsDispatch, Idle, At, AtOrder, rows,
       environment
  <2> QED
    BY <2>1, <2>2 DEF Dispatch
<1>3. CASE Restart
  <2>1. \A f \in Orders : stage[f] \in {"ABSENT", "NOT_SENT"} => orders'[f] = orders[f]
    BY <1>3, <1>O, CallersState DEF Restart, Dispatch, OrderDispatch
  <2>2. \A f \in Orders : OrderDispatch(f)'
    BY <1>3, <2>1 DEF Restart, DoubtAll, Dispatch, OrderDispatch, Sent, TypeOK, environment
  <2>3. LaneDispatch' /\ HandsDispatch'
    BY <1>3 DEF Restart, Dispatch, LaneDispatch, HandsDispatch, At, AtOrder, drains, environment
  <2> QED
    BY <2>2, <2>3 DEF Dispatch
<1> QED
  BY <1>1, <1>2, <1>3

LEMMA BrokerKeeps ==
  ASSUME TypeOK, Dispatch, NEW e \in Orders, BrokerFills(e) \/ BrokerCancels(e)
  PROVE  Dispatch'
<1>1. UNCHANGED <<rows, lane, trades, drains, sends, cancels>>
  BY DEF BrokerFills, BrokerCancels
<1>2. \A f \in Orders : OrderDispatch(f)'
  BY <1>1, RowsKept DEF rows
<1>3. LaneDispatch' /\ HandsDispatch'
  BY <1>1 DEF Dispatch, LaneDispatch, HandsDispatch, Sent, rows, drains
<1> QED
  BY <1>2, <1>3 DEF Dispatch

LEMMA DispatchNext == TypeOK /\ Dispatch /\ [Next]_vars => Dispatch'
<1> SUFFICES ASSUME TypeOK, Dispatch, [Next]_vars PROVE Dispatch'
  OBVIOUS
<1>1. CASE UNCHANGED vars
  <2>1. UNCHANGED <<rows, lane, trades, drains, sends, cancels>>
    BY <1>1 DEF vars, beyond, environment
  <2>2. \A f \in Orders : OrderDispatch(f)'
    BY <2>1, RowsKept DEF rows
  <2>3. LaneDispatch' /\ HandsDispatch'
    BY <2>1 DEF Dispatch, LaneDispatch, HandsDispatch, Sent, rows, drains
  <2> QED
    BY <2>2, <2>3 DEF Dispatch
<1>2. CASE Next
  BY <1>2, SubmittingKeeps, CancellingKeeps, QueryingKeeps, CallbackKeeps, DrainingKeeps,
     LifecycleKeeps, BrokerKeeps DEF Next
<1> QED
  BY <1>1, <1>2

-----------------------------------------------------------------------------
LEMMA DispatchAlways == Spec => [](TypeOK /\ Dispatch)
<1>1. TypeOK /\ Dispatch /\ [Next]_vars => (TypeOK /\ Dispatch)'
  BY NextTypeOK, DispatchNext
<1> QED
  BY InitTypeOK, DispatchInit, <1>1, PTL DEF Spec

(* No command is ever sent to the broker twice: a claim that a crash or an *)
(* exception abandoned is never permission to dispatch again.              *)
THEOREM SentAtMostOnce == Spec => []AtMostOneSend
<1>1. TypeOK /\ Dispatch => AtMostOneSend
  BY DEF Dispatch, OrderDispatch, AtMostOneSend
<1> QED
  BY <1>1, DispatchAlways, PTL

(* No order is cancelled twice at the broker, and none whose broker id is  *)
(* not known.                                                              *)
THEOREM CancelledAtMostOnce == Spec => []AtMostOneCancel
<1>1. TypeOK /\ Dispatch => AtMostOneCancel
  BY DEF Dispatch, OrderDispatch, AtMostOneCancel
<1> QED
  BY <1>1, DispatchAlways, PTL

(* An order proven NOT_SENT never reached the broker, whatever queries,    *)
(* callbacks and restarts come after the proof.                            *)
THEOREM NotSentIsProof == Spec => []NotSentMeansNotSent
<1>1. TypeOK /\ Dispatch => NotSentMeansNotSent
  BY DEF Dispatch, OrderDispatch, NotSentMeansNotSent, Sent
<1> QED
  BY <1>1, DispatchAlways, PTL

-----------------------------------------------------------------------------
(* An order leaves UNKNOWN only on evidence. *)

(* The evidence that may end an unknown outcome. *)
Evidence(e) == bound[e] \/ (broker[e] = "rejected" /\ orders'[e].state = "REJECTED")

LEMMA RejectedIsEvidence ==
  ASSUME TypeOK, NEW e \in Orders, NEW f \in Orders, NEW next,
         RejectedReturn(f, next), orders[e].state = "UNKNOWN", orders'[e].state # "UNKNOWN"
  PROVE  Evidence(e)
<1>1. orders[f] \in OrderCore(Quantity)
  BY DEF TypeOK
<1>2. /\ broker[f] = "rejected" /\ e = f
      /\ orders'[f] = AfterRejected(orders[f])
  BY DEF RejectedReturn, TypeOK
<1> QED
  BY <1>1, <1>2, CallersState DEF Evidence

LEMMA UnknownStep ==
  ASSUME TypeOK, Dispatch, [Next]_vars, NEW e \in Orders,
         orders[e].state = "UNKNOWN", orders'[e].state # "UNKNOWN"
  PROVE  Evidence(e)
<1>O. orders[e] \in OrderCore(Quantity) /\ orders \in [Orders -> OrderCore(Quantity)]
  BY DEF TypeOK
<1>1. orders' # orders
  OBVIOUS
<1>2. ASSUME NEW f \in Orders, Submitting(f) PROVE Evidence(e)
  <2>1. CASE Claim(f)
    BY <2>1, <1>O DEF Claim, Unclaimed, Dispatch, OrderDispatch, Evidence
  <2>2. CASE NotSent(f)
    BY <2>2, <1>O DEF NotSent, LaneAt, Dispatch, LaneDispatch, Evidence
  <2>3. CASE LaneUncertain(f)
    BY <2>3, <1>O, CallersState DEF LaneUncertain, Uncertain, Evidence
  <2>4. CASE ReturnRejects(f)
    BY <2>4, RejectedIsEvidence DEF ReturnRejects
  <2> QED
    BY <1>1, <1>2, <2>1, <2>2, <2>3, <2>4 DEF Submitting, SendRaises, Send, ReturnBinds,
       ReturnWithoutId, MarkReturned, rows
<1>3. ASSUME NEW f \in Orders, Cancelling(f) PROVE Evidence(e)
  BY <1>1, <1>3, <1>O DEF Cancelling, ClaimCancel, MayCancel, CancelRaises, SendCancel,
     CancelReturns, rows, Evidence
<1>4. CASE Querying
  <2>1. ASSUME NEW f \in Orders, CollectRejects(f) PROVE Evidence(e)
    BY <2>1, RejectedIsEvidence DEF CollectRejects
  <2>2. ASSUME NEW answers \in [Orders -> Answer], Reconcile(answers) PROVE Evidence(e)
    <3>1. orders'[e] = IF Corroborated(e, answers[e]) THEN AfterAnswer(orders[e], answers[e])
                       ELSE orders[e]
      BY <2>2 DEF Reconcile
    <3>2. Corroborated(e, answers[e])
      BY <3>1
    <3> QED
      BY <3>2 DEF Corroborated, Evidence
  <2> QED
    BY <1>1, <1>4, <2>1, <2>2 DEF Querying, StartQuery, QueryFails, QueryReads, ReturnsRaise,
       CollectBinds, CollectWithoutId, Ingest, rows
<1>5. ASSUME NEW t \in Threads, Draining(t) PROVE Evidence(e)
  <2>1. ASSUME NEW o \in Observation, Apply(t, o) \/ ApplyConflicts(t, o) PROVE Evidence(e)
    <3>1. bound[o.order]
      BY <2>1 DEF Apply, ApplyConflicts, Dispatch, HandsDispatch
    <3>2. o.order = e
      BY <2>1, <1>O DEF Apply, ApplyConflicts, Uncertain
    <3> QED
      BY <3>1, <3>2 DEF Evidence
  <2> QED
    BY <1>1, <1>5, <2>1 DEF Draining, DrainSelects, AlreadyApplied, rows
<1>6. CASE Restart
  BY <1>6, <1>O, CallersState DEF Restart
<1> QED
  BY <1>1, <1>2, <1>3, <1>4, <1>5, <1>6 DEF Next, vars, Callback, CallbackUnresolved,
     CallbackRecords, Reconnect, Crash, BrokerFills, BrokerCancels, rows

(* UNKNOWN ends only for an order whose broker id is known, or whose own   *)
(* trade object shows that it was rejected.                                *)
THEOREM UnknownEndsOnEvidence == Spec => UnknownNeedsEvidence
<1>1. TypeOK /\ Dispatch /\ [Next]_vars =>
        [ \A e \in Orders :
            orders[e].state = "UNKNOWN" /\ orders'[e].state # "UNKNOWN" =>
              bound[e] \/ (broker[e] = "rejected" /\ orders'[e].state = "REJECTED") ]_vars
  BY UnknownStep DEF Evidence
<1> QED
  BY <1>1, DispatchAlways, PTL DEF Spec, UnknownNeedsEvidence
=============================================================================

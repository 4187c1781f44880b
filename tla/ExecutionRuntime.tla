-------------------------- MODULE ExecutionRuntime --------------------------
(***************************************************************************)
(* The order core of the execution runtime (execution_runtime/runtime.py): *)
(* one process that owns the SQLite journal, sends orders to the broker    *)
(* through one SDK session, and learns from callbacks and queries what     *)
(* became of them.                                                         *)
(*                                                                         *)
(* Two threads run at once.  Commands (submit, cancel, query, reconnect)   *)
(* are serialized: they share "the lane".  SDK callbacks run beside it and *)
(* never take the lane's lock.  Both change the journal in transactions,   *)
(* and every action below is one transaction or one SDK call, so a crash   *)
(* or a step of the other thread may fall between any two of them.         *)
(*                                                                         *)
(* The broker is the environment: it may do what it likes with an order it *)
(* received, and what it says may be lost, late, repeated or reordered.    *)
(* An order is a few shares, and every deal of it fills one share.         *)
(*                                                                         *)
(* An operator commented "Faulty" is a plausible mistake in the definition *)
(* that follows it, which some property must catch; no action uses it.     *)
(***************************************************************************)
EXTENDS OrderReducer, FiniteSets

CONSTANTS
  Orders,         \* execution ids; each is one command of its own
  NoOrder,        \* not one of them
  Quantity,       \* shares of each order
  Guarded,        \* orders sent with a check just before the effect (exits)
  CallbackKinds,  \* bound: observation kinds that callbacks deliver
  Disputed,       \* deals whose callback and report give different evidence
  MaxCrashes,     \* bound: process crashes
  MaxReconnects   \* bound: reconnects of a live process

ASSUME RuntimeAssumption ==
  /\ NoOrder \notin Orders
  /\ Quantity \in Nat \ {0}
  /\ Guarded \subseteq Orders
  /\ Disputed \subseteq 1 .. Quantity
  /\ MaxCrashes \in Nat /\ MaxReconnects \in Nat

Deals == 1 .. Quantity

(* One observation: a callback ("Order.set_event") or a row of a report.   *)
(* Only deals are told apart, by their broker fill id.                     *)
Observation ==
  [order : Orders, deal : {0}, source : {"CALLBACK", "REPORT"},
   kind : {"PENDING", "ACCEPTED", "REJECTED", "CANCELLED", "CANCEL_ACK", "UNCERTAIN"}]
  \cup [order : Orders, kind : {"DEAL"}, deal : Deals, source : {"CALLBACK", "REPORT"}]

Seen(e, kind, source) == [order |-> e, kind |-> kind, deal |-> 0, source |-> source]
SeenDeal(e, k, source) == [order |-> e, kind |-> "DEAL", deal |-> k, source |-> source]

Stages == {"ABSENT", "CLAIMED", "RETURNED", "NOT_SENT"}
CancelStages == {"NONE", "CLAIMED", "ACK_ONLY"}
Sources == {"CALLBACK", "REPORT"}
Threads == {"lane", "callback"}

(* Where the command in progress stands. "collect" is the part of a query   *)
(* that goes through the trade objects it kept and the rows it read.       *)
LanePoints ==
  {"idle", "claimed", "sent", "bound", "returned", "query", "collect",
   "collected", "cancelling", "cancelled", "uncertain"}

VARIABLES
  \* the journal: durable
  orders,        \* state, filled, cancelRequested of each order
  stage,         \* submit_stage; ABSENT while there is no row
  bound,         \* is broker_id known
  cancelStage,   \* cancel_stage
  doubtful,      \* reconcile_required
  recorded,      \* table observations
  applied,       \* table applied
  fills,         \* table fills: <<order, deal, source of its evidence>>
  \* the process: lost in a crash
  running,       \* is the process up
  lane,          \* the command in progress
  drainKey,      \* for each thread, the order it is about to drain
  draining,      \* for each thread, recorded observations it is to apply
  trades,        \* orders whose trade object the SDK session retains
  \* the broker, and what only this specification remembers
  broker,        \* what became of the order there
  brokerFilled,  \* shares the broker filled
  sends,         \* create_order calls that reached the broker, ever
  cancels,       \* cancel_order calls that reached the broker, ever
  crashes, reconnects

rows == <<orders, stage, bound, cancelStage, doubtful>>
evidence == <<recorded, applied, fills>>
drains == <<drainKey, draining>>
environment == <<broker, brokerFilled, sends, cancels>>
counters == <<crashes, reconnects>>
beyond == <<running, trades, environment, counters>>
vars == <<rows, evidence, lane, drains, beyond>>

BrokerStates == {"none", "live", "cancelled", "rejected"}

(* What one query says of an order once its snapshot and its newest report *)
(* row are put together: a fate with a filled quantity, or nothing.        *)
Answer == [kind : {"NONE", "ACCEPTED", "PARTIAL_FILL", "FILLED", "CANCELLED"},
           filled : 0 .. Quantity]

Lane == [at : LanePoints, order : Orders \cup {NoOrder}, returns : SUBSET Orders]

AtOrder(point, e) == [at |-> point, order |-> e, returns |-> {}]
At(point) == AtOrder(point, NoOrder)
Idle == At("idle")

TypeOK ==
  /\ orders \in [Orders -> OrderCore(Quantity)]
  /\ stage \in [Orders -> Stages]
  /\ bound \in [Orders -> BOOLEAN]
  /\ cancelStage \in [Orders -> CancelStages]
  /\ doubtful \in [Orders -> BOOLEAN]
  /\ recorded \subseteq Observation
  /\ applied \subseteq recorded
  /\ fills \subseteq Orders \X Deals \X Sources
  /\ running \in BOOLEAN
  /\ lane \in Lane
  /\ drainKey \in [Threads -> Orders \cup {NoOrder}]
  /\ draining \in [Threads -> SUBSET recorded]
  /\ trades \subseteq Orders
  /\ broker \in [Orders -> BrokerStates]
  /\ brokerFilled \in [Orders -> 0 .. Quantity]
  /\ sends \in [Orders -> Nat]
  /\ cancels \in [Orders -> Nat]
  /\ crashes \in 0 .. MaxCrashes
  /\ reconnects \in 0 .. MaxReconnects

Init ==
  /\ orders = [e \in Orders |-> NewOrder("PREVIEWED")]
  /\ stage = [e \in Orders |-> "ABSENT"]
  /\ bound = [e \in Orders |-> FALSE]
  /\ cancelStage = [e \in Orders |-> "NONE"]
  /\ doubtful = [e \in Orders |-> TRUE]
  /\ recorded = {} /\ applied = {} /\ fills = {}
  /\ running = TRUE
  /\ lane = Idle
  /\ drainKey = [t \in Threads |-> NoOrder]
  /\ draining = [t \in Threads |-> {}]
  /\ trades = {}
  /\ broker = [e \in Orders |-> "none"]
  /\ brokerFilled = [e \in Orders |-> 0]
  /\ sends = [e \in Orders |-> 0]
  /\ cancels = [e \in Orders |-> 0]
  /\ crashes = 0 /\ reconnects = 0

-----------------------------------------------------------------------------
(* What the reducer makes of an order, one operator per caller. *)

Step(o, kind, total) == Reduce(o, kind, total, Quantity)

(* Faulty: reports are applied to UNKNOWN as it is. *)
UnknownReopens(o) == o

(* An order of unknown outcome is first moved to RECONCILING: no report is *)
(* applied to UNKNOWN.                                                     *)
Reopened(o) == IF o.state = "UNKNOWN" THEN Step(o, "RECONCILE", 0) ELSE o

Doubted(o) ==
  IF o.state \in TERMINAL \cup {"UNKNOWN"} THEN o ELSE Step(o, "TIMEOUT", 0)

(* Faulty: an acknowledged cancel ends the order. *)
CancelEnds(o) ==
  IF o.state \in TERMINAL THEN o
  ELSE Step(Step(o, "CANCEL_REQUESTED", 0), "CANCELLED", o.filled)

CancelAsked(o) ==
  IF o.cancelRequested \/ o.state \in TERMINAL THEN o ELSE Step(o, "CANCEL_REQUESTED", 0)

FillKind(total) == IF total = Quantity THEN "FILLED" ELSE "PARTIAL_FILL"

(* Faulty: an ended order takes no late deal. *)
LateDealsDropped(o, total) ==
  IF o.state \in TERMINAL \/ total <= o.filled THEN o
  ELSE Step(Reopened(o), FillKind(total), total)

AfterDeal(o, total) ==
  IF total > o.filled THEN Step(Reopened(o), FillKind(total), total) ELSE o

AfterCancelled(o) ==
  LET asked == CancelAsked(Reopened(o))
  IN  IF asked.state \in {"FILLED", "REJECTED"} THEN asked
      ELSE Step(asked, "CANCELLED", asked.filled)

(* Faulty: a late acknowledgement is applied to any order. *)
AcceptsAlways(o) == Step(Reopened(o), "ACCEPTED", 0)

(* A late acknowledgement never downgrades fills or an ended order. *)
AfterAccepted(o) ==
  IF o.state \in {"PENDING", "UNKNOWN", "RECONCILING"} /\ o.filled = 0
  THEN Step(Reopened(o), "ACCEPTED", 0) ELSE o

AfterRejected(o) == Step(Reopened(o), "REJECTED", 0)
CanReject(o) == Admits(Reopened(o), "REJECTED", 0, Quantity)

(* Faulty: the doubt is noted, the state is not. *)
OnlyDoubts(e) ==
  UNCHANGED orders /\ doubtful' = [doubtful EXCEPT ![e] = TRUE]

(* _uncertain: the outcome is not known, and nothing will be sent again. *)
Uncertain(e) ==
  /\ orders' = [orders EXCEPT ![e] = Doubted(@)]
  /\ doubtful' = [doubtful EXCEPT ![e] = TRUE]

(* Faulty: NOT_SENT is forgotten. *)
HasRow(e) == stage[e] # "ABSENT"

(* "reconcile_required=1 WHERE submit_stage!='NOT_SENT'" *)
Sent(e) == stage[e] \in {"CLAIMED", "RETURNED"}

DoubtAll == doubtful' = [e \in Orders |-> doubtful[e] \/ Sent(e)]

-----------------------------------------------------------------------------
(* The lane: one command at a time, and never while it is draining. *)

Free(t) == drainKey[t] = NoOrder /\ draining[t] = {}

LaneAt(point) == running /\ Free("lane") /\ lane.at = point

DrainNext(t, e) == drainKey' = [drainKey EXCEPT ![t] = e]

(* Faulty: a claim without a return may be claimed again. *)
NotReturned(e) == stage[e] \in {"ABSENT", "CLAIMED"}

(* No intent row has its request or intent id yet. *)
Unclaimed(e) == stage[e] = "ABSENT"

(* _claim_command: the only way a row comes to be, once per command. *)
Claim(e) ==
  /\ LaneAt("idle")
  /\ Unclaimed(e)
  /\ orders' = [orders EXCEPT ![e] = NewOrder("PENDING")]
  /\ stage' = [stage EXCEPT ![e] = "CLAIMED"]
  /\ lane' = AtOrder("claimed", e)
  /\ UNCHANGED <<bound, cancelStage, doubtful, evidence, drains, beyond>>

(* The check just before the effect said no, or failed: nothing was sent. *)
NotSent(e) ==
  /\ LaneAt("claimed") /\ lane.order = e /\ e \in Guarded
  /\ stage[e] = "CLAIMED" /\ ~bound[e] /\ orders[e].filled = 0
  /\ orders' = [orders EXCEPT ![e] = Step(@, "REJECTED", 0)]
  /\ stage' = [stage EXCEPT ![e] = "NOT_SENT"]
  /\ doubtful' = [doubtful EXCEPT ![e] = FALSE]
  /\ lane' = Idle
  /\ UNCHANGED <<bound, cancelStage, evidence, drains, beyond>>

(* The SDK raised before anything left: the runtime cannot tell. *)
SendRaises(e) ==
  /\ LaneAt("claimed") /\ lane.order = e
  /\ lane' = AtOrder("uncertain", e)
  /\ UNCHANGED <<rows, evidence, drains, beyond>>

(* create_order reaches the broker, which takes the order or rejects it.   *)
(* The call returns a trade object, which the session retains, or raises;  *)
(* the object may also be one that submission() cannot read.               *)
Send(e, outcome) ==
  /\ LaneAt("claimed") /\ lane.order = e
  /\ sends' = [sends EXCEPT ![e] = @ + 1]
  /\ broker' = [broker EXCEPT ![e] = outcome]
  /\ \/ trades' = trades \cup {e} /\ lane' \in {AtOrder("sent", e), AtOrder("uncertain", e)}
     \/ lane' = AtOrder("uncertain", e) /\ UNCHANGED trades
  /\ UNCHANGED <<rows, evidence, running, drains, brokerFilled, cancels,
                 counters>>

LaneUncertain(e) ==
  /\ LaneAt("uncertain") /\ lane.order = e
  /\ Uncertain(e)
  /\ lane' = Idle
  /\ UNCHANGED <<stage, bound, cancelStage, evidence, drains, beyond>>

(* Faulty: what came before the bind is left where it is. *)
BindOnly(e) ==
  bound' = [bound EXCEPT ![e] = TRUE] /\ UNCHANGED drainKey

(* _bind: what is already recorded under this broker id is drained next.   *)
Bind(e) ==
  /\ bound' = [bound EXCEPT ![e] = TRUE]
  /\ DrainNext("lane", e)

(* The returned trade carries an order number, or not yet. *)
ReturnBinds(e) ==
  /\ LaneAt("sent") /\ lane.order = e
  /\ Bind(e)
  /\ lane' = AtOrder("bound", e)
  /\ UNCHANGED <<orders, stage, cancelStage, doubtful, evidence, draining,
                 beyond>>

ReturnWithoutId(e) ==
  /\ LaneAt("sent") /\ lane.order = e
  /\ lane' = AtOrder("bound", e)
  /\ UNCHANGED <<rows, evidence, drains, beyond>>

(* _rejected_return: a failed NewOrder ends the order, unless it already   *)
(* shows a fill: then the reducer refuses and the command ends there.  The *)
(* trade object of a rejected order shows the failure now or later.        *)
RejectedReturn(e, next) ==
  \/ lane' = next /\ UNCHANGED orders
  \/ /\ broker[e] = "rejected" /\ orders[e].state # "REJECTED"
     /\ IF CanReject(orders[e])
        THEN lane' = next /\ orders' = [orders EXCEPT ![e] = AfterRejected(@)]
        ELSE lane' = Idle /\ UNCHANGED orders

ReturnRejects(e) ==
  /\ LaneAt("bound") /\ lane.order = e
  /\ RejectedReturn(e, AtOrder("returned", e))
  /\ UNCHANGED <<stage, bound, cancelStage, doubtful, evidence, drains,
                 beyond>>

MarkReturned(e) ==
  /\ LaneAt("returned") /\ lane.order = e
  /\ stage' = [stage EXCEPT ![e] = "RETURNED"]
  /\ lane' = At("query")
  /\ UNCHANGED <<orders, bound, cancelStage, doubtful, evidence, drains,
                 beyond>>

-----------------------------------------------------------------------------
(* What the broker can have said.  Only a report says CANCELLED; only      *)
(* callbacks say REJECTED, acknowledge a cancel, or say that it failed.    *)
Said(o) ==
  CASE o.kind = "PENDING" -> broker[o.order] # "none" /\ o.source = "CALLBACK"
    [] o.kind = "ACCEPTED" -> broker[o.order] \in {"live", "cancelled"}
    [] o.kind = "DEAL" -> o.deal <= brokerFilled[o.order]
    [] o.kind = "CANCELLED" -> broker[o.order] = "cancelled" /\ o.source = "REPORT"
    [] o.kind = "REJECTED" -> broker[o.order] = "rejected" /\ o.source = "CALLBACK"
    [] OTHER -> cancels[o.order] > 0 /\ o.source = "CALLBACK"

ReportRows == {o \in Observation : o.source = "REPORT" /\ Said(o)}

CallbackEvents ==
  {o \in Observation : o.source = "CALLBACK" /\ o.kind \in CallbackKinds /\ Said(o)}

-----------------------------------------------------------------------------
(* query: read, bind what the retained trades now say, ingest every row,   *)
(* then compare.                                                           *)

StartQuery ==
  /\ LaneAt("idle")
  /\ lane' = At("query")
  /\ UNCHANGED <<rows, evidence, drains, beyond>>

QueryFails ==
  /\ LaneAt("query")
  /\ DoubtAll
  /\ lane' = Idle
  /\ UNCHANGED <<orders, stage, bound, cancelStage, evidence, drains, beyond>>

(* What was read is drawn when it is used, from all the broker has said by *)
(* then: reports may be incomplete, old or newer than the callbacks.       *)
QueryReads ==
  /\ LaneAt("query")
  /\ lane' = [At("collect") EXCEPT !.returns = trades]
  /\ UNCHANGED <<rows, evidence, drains, beyond>>

(* One retained trade cannot be read: the query raises before it compares. *)
ReturnsRaise ==
  /\ LaneAt("query") /\ trades # {}
  /\ lane' = Idle
  /\ UNCHANGED <<rows, evidence, drains, beyond>>

CollectBinds(e) ==
  /\ LaneAt("collect") /\ e \in lane.returns
  /\ Bind(e)
  /\ lane' = [lane EXCEPT !.at = "collected", !.order = e, !.returns = @ \ {e}]
  /\ UNCHANGED <<orders, stage, cancelStage, doubtful, evidence, draining,
                 beyond>>

CollectWithoutId(e) ==
  /\ LaneAt("collect") /\ e \in lane.returns /\ ~bound[e]
  /\ lane' = [lane EXCEPT !.at = "collected", !.order = e, !.returns = @ \ {e}]
  /\ UNCHANGED <<rows, evidence, drains, beyond>>

CollectRejects(e) ==
  /\ LaneAt("collected") /\ lane.order = e
  /\ RejectedReturn(e, [lane EXCEPT !.at = "collect", !.order = NoOrder])
  /\ UNCHANGED <<stage, bound, cancelStage, doubtful, evidence, drains,
                 beyond>>

IngestDrains(o) == DrainNext("lane", o.order)

Ingest(o) ==
  /\ LaneAt("collect") /\ lane.returns = {} /\ o \in ReportRows
  /\ recorded' = recorded \cup {o}
  /\ IngestDrains(o)
  /\ UNCHANGED <<rows, applied, fills, lane, draining, beyond>>

(* The fates that a snapshot, no newer than the broker, and the newest     *)
(* report row of e can add up to.                                          *)
Fate(e, answer) ==
  LET report(kind) == Seen(e, kind, "REPORT") \in recorded
  IN  /\ answer.filled <= brokerFilled[e]
      /\ CASE answer.kind = "NONE" -> answer.filled = 0
           [] answer.kind = "FILLED" ->
                answer.filled = Quantity /\ (report("ACCEPTED") \/ report("CANCELLED"))
           [] answer.kind = "CANCELLED" -> answer.filled < Quantity /\ report("CANCELLED")
           [] answer.kind = "PARTIAL_FILL" -> answer.filled \in 1 .. Quantity - 1 /\ report("ACCEPTED")
           [] answer.kind = "ACCEPTED" -> answer.filled = 0 /\ report("ACCEPTED")

Total(e) == Cardinality({k \in Deals : \E src \in Sources : <<e, k, src>> \in fills})

Unapplied(e) == {o \in recorded \ applied : o.order = e}

(* An answer is corroborated when every observation of the order is applied  *)
(* and its fills add up to what the answer and the order both say.          *)
Corroborated(e, answer) ==
  /\ answer.kind # "NONE" /\ bound[e]
  /\ Unapplied(e) = {}
  /\ Total(e) = answer.filled /\ orders[e].filled = answer.filled

(* Only an order of unknown outcome is moved by a snapshot. *)
AfterAnswer(o, answer) ==
  IF o.state # "UNKNOWN" THEN o
  ELSE LET reopened == Reopened(o)
           asked == IF answer.kind = "CANCELLED" THEN CancelAsked(reopened) ELSE reopened
       IN  Step(asked, answer.kind, answer.filled)

(* A stale snapshot must not resolve an outstanding cancel or fill race. *)
Expected(kind) ==
  CASE kind = "FILLED" -> {"FILLED"}
    [] kind = "CANCELLED" -> {"CANCELLED", "FILLED"}
    [] kind = "PARTIAL_FILL" -> {"PARTIALLY_FILLED"}
    [] kind = "ACCEPTED" -> {"ACCEPTED"}

(* Faulty: corroboration resolves whatever the order shows. *)
ResolvesAny(e, answer) == Corroborated(e, answer)

Resolves(e, answer) ==
  Corroborated(e, answer) /\ AfterAnswer(orders[e], answer).state \in Expected(answer.kind)

(* _reconcile_snapshots: everything is in doubt again, except what this    *)
(* query corroborates.                                                     *)
Reconcile(answers) ==
  /\ LaneAt("collect") /\ lane.returns = {}
  /\ \A e \in Orders : Fate(e, answers[e])
  /\ orders' = [e \in Orders |->
       IF Corroborated(e, answers[e]) THEN AfterAnswer(orders[e], answers[e]) ELSE orders[e]]
  /\ doubtful' = [e \in Orders |->
       (doubtful[e] \/ Sent(e)) /\ ~Resolves(e, answers[e])]
  /\ lane' = Idle
  /\ UNCHANGED <<stage, bound, cancelStage, evidence, drains, beyond>>

-----------------------------------------------------------------------------
(* cancel: one claim, one cancel_order of the exact broker id.  Its return *)
(* is an acknowledgement, not an end.                                      *)

(* Faulty: a cancel may be asked for again. *)
MayCancelAgain(e) == bound[e] /\ orders[e].state \notin TERMINAL

MayCancel(e) ==
  bound[e] /\ cancelStage[e] = "NONE" /\ orders[e].state \notin TERMINAL

ClaimCancel(e) ==
  /\ LaneAt("idle") /\ MayCancel(e)
  /\ orders' = [orders EXCEPT ![e] = Step(@, "CANCEL_REQUESTED", 0)]
  /\ cancelStage' = [cancelStage EXCEPT ![e] = "CLAIMED"]
  /\ doubtful' = [doubtful EXCEPT ![e] = TRUE]
  /\ lane' = AtOrder("cancelling", e)
  /\ UNCHANGED <<stage, bound, evidence, drains, beyond>>

CancelRaises(e) ==
  /\ LaneAt("cancelling") /\ lane.order = e
  /\ lane' = AtOrder("uncertain", e)
  /\ UNCHANGED <<rows, evidence, drains, beyond>>

SendCancel(e) ==
  /\ LaneAt("cancelling") /\ lane.order = e
  /\ cancels' = [cancels EXCEPT ![e] = @ + 1]
  /\ lane' \in {AtOrder("cancelled", e), AtOrder("uncertain", e)}
  /\ UNCHANGED <<rows, evidence, running, drains, trades, broker,
                 brokerFilled, sends, counters>>

CancelReturns(e) ==
  /\ LaneAt("cancelled") /\ lane.order = e
  /\ cancelStage' = [cancelStage EXCEPT ![e] = "ACK_ONLY"]
  /\ lane' = Idle
  /\ UNCHANGED <<orders, stage, bound, doubtful, evidence, drains, beyond>>

-----------------------------------------------------------------------------
(* reconnect: a new session of the same process; retained trades are gone. *)
(* The operator's reconnect doubts every order at once, the recovery of    *)
(* the connection loop leaves that to the query that follows.              *)
Reconnect ==
  /\ LaneAt("idle") /\ reconnects < MaxReconnects
  /\ reconnects' = reconnects + 1
  /\ trades' = {}
  /\ DoubtAll \/ UNCHANGED doubtful
  /\ lane' = At("query")
  /\ UNCHANGED <<orders, stage, bound, cancelStage, evidence, running, drains,
                 environment, crashes>>

-----------------------------------------------------------------------------
(* The callback thread: record, then drain, beside the lane. *)

CallbackRecords(o) ==
  /\ running /\ Free("callback")
  /\ o \in CallbackEvents
  /\ recorded' = recorded \cup {o}
  /\ DrainNext("callback", o.order)
  /\ UNCHANGED <<rows, applied, fills, lane, draining, beyond>>

(* A callback that cannot be read puts every order in doubt. *)
CallbackUnresolved ==
  /\ running /\ Free("callback")
  /\ DoubtAll
  /\ UNCHANGED <<orders, stage, bound, cancelStage, evidence, lane, drains,
                 beyond>>

-----------------------------------------------------------------------------
(* _drain, by either thread: look the order up by its broker id, select    *)
(* what is not applied, then apply one observation per transaction.        *)

DrainSelects(t) ==
  /\ running /\ drainKey[t] # NoOrder
  /\ draining' = [draining EXCEPT ![t] = IF bound[drainKey[t]] THEN Unapplied(drainKey[t]) ELSE {}]
  /\ DrainNext(t, NoOrder)
  /\ UNCHANGED <<rows, evidence, lane, beyond>>

(* Faulty: a deal is identified by its evidence, not by its fill id. *)
FillPerSource(o) ==
  IF o.kind = "DEAL" THEN fills \cup {<<o.order, o.deal, o.source>>} ELSE fills

FillsAfter(o) ==
  IF o.kind = "DEAL" /\ ~ \E src \in Sources : <<o.order, o.deal, src>> \in fills
  THEN fills \cup {<<o.order, o.deal, o.source>>} ELSE fills

TotalAfter(o) == Total(o.order) + Cardinality(FillsAfter(o) \ fills)

After(o) ==
  LET before == orders[o.order]
  IN  CASE o.kind = "DEAL" -> AfterDeal(before, TotalAfter(o))
        [] o.kind = "CANCELLED" -> AfterCancelled(before)
        [] o.kind = "ACCEPTED" -> AfterAccepted(before)
        [] o.kind = "REJECTED" -> AfterRejected(before)
        [] o.kind = "CANCEL_ACK" -> CancelAsked(before)
        [] o.kind = "UNCERTAIN" -> Doubted(before)
        [] o.kind = "PENDING" -> before

(* A deal known from the other source with different evidence, or a report *)
(* that the reducer refuses, is a conflict.                                *)
Conflicts(o) ==
  LET before == orders[o.order]
      reopened == Reopened(before)
      total == TotalAfter(o)
  IN  CASE o.kind = "DEAL" ->
             \/ /\ o.deal \in Disputed
                /\ \E src \in Sources \ {o.source} : <<o.order, o.deal, src>> \in fills
             \/ total > before.filled /\ ~Admits(reopened, FillKind(total), total, Quantity)
        [] o.kind = "CANCELLED" ->
             LET asked == CancelAsked(reopened)
             IN  /\ asked.state \notin {"FILLED", "REJECTED"}
                 /\ ~Admits(asked, "CANCELLED", asked.filled, Quantity)
        [] o.kind = "REJECTED" -> ~CanReject(before)
        [] OTHER -> FALSE

Drained(t, o) == draining' = [draining EXCEPT ![t] = @ \ {o}]

Apply(t, o) ==
  /\ running /\ o \in draining[t] /\ o \notin applied
  /\ ~Conflicts(o)
  /\ orders' = [orders EXCEPT ![o.order] = After(o)]
  /\ fills' = FillsAfter(o)
  /\ applied' = applied \cup {o}
  /\ doubtful' = [doubtful EXCEPT ![o.order] = TRUE]
  /\ Drained(t, o)
  /\ UNCHANGED <<stage, bound, cancelStage, recorded, lane, drainKey, beyond>>

(* The other thread was faster. *)
AlreadyApplied(t, o) ==
  /\ running /\ o \in draining[t] /\ o \in applied
  /\ Drained(t, o)
  /\ UNCHANGED <<rows, evidence, lane, drainKey, beyond>>

(* The transaction of a conflict rolls back; the observation stays, and    *)
(* the order is put in doubt.                                              *)
ApplyConflicts(t, o) ==
  /\ running /\ o \in draining[t] /\ o \notin applied
  /\ Conflicts(o)
  /\ Uncertain(o.order)
  /\ Drained(t, o)
  /\ UNCHANGED <<stage, bound, cancelStage, evidence, lane, drainKey, beyond>>

-----------------------------------------------------------------------------
(* The process dies between any two transactions or calls, and starts anew *)
(* under the owner lease: _open_journal sends nothing again.               *)

Crash ==
  /\ running /\ crashes < MaxCrashes
  /\ crashes' = crashes + 1
  /\ running' = FALSE
  /\ lane' = Idle
  /\ drainKey' = [t \in Threads |-> NoOrder]
  /\ draining' = [t \in Threads |-> {}]
  /\ trades' = {}
  /\ UNCHANGED <<rows, evidence, environment, reconnects>>

(* Faulty: a restart gives every open order a new chance. *)
StartupReopens(o) ==
  IF o.state \in {"PENDING", "CANCEL_PENDING"} THEN Step(o, "TIMEOUT", 0) ELSE Reopened(o)

AfterStartup(o) ==
  IF o.state \in {"PENDING", "CANCEL_PENDING", "RECONCILING"}
  THEN Step(o, "TIMEOUT", 0) ELSE o

Restart ==
  /\ ~running
  /\ running' = TRUE
  /\ orders' = [e \in Orders |-> AfterStartup(orders[e])]
  /\ DoubtAll
  /\ lane' = At("query")
  /\ UNCHANGED <<stage, bound, cancelStage, evidence, drains, trades,
                 environment, counters>>

-----------------------------------------------------------------------------
(* The broker, on its own. *)

BrokerFills(e) ==
  /\ broker[e] = "live" /\ brokerFilled[e] < Quantity
  /\ brokerFilled' = [brokerFilled EXCEPT ![e] = @ + 1]
  /\ UNCHANGED <<rows, evidence, running, lane, drains, trades, broker, sends,
                 cancels, counters>>

(* Whoever asked: this process, or the operator by other means. *)
BrokerCancels(e) ==
  /\ broker[e] = "live" /\ brokerFilled[e] < Quantity
  /\ broker' = [broker EXCEPT ![e] = "cancelled"]
  /\ UNCHANGED <<rows, evidence, running, lane, drains, trades, brokerFilled,
                 sends, cancels, counters>>

-----------------------------------------------------------------------------
Submitting(e) ==
  \/ Claim(e) \/ NotSent(e) \/ SendRaises(e)
  \/ \E outcome \in {"live", "rejected"} : Send(e, outcome)
  \/ LaneUncertain(e)
  \/ ReturnBinds(e) \/ ReturnWithoutId(e) \/ ReturnRejects(e) \/ MarkReturned(e)

Querying ==
  \/ StartQuery \/ QueryFails \/ QueryReads \/ ReturnsRaise
  \/ \E e \in Orders : CollectBinds(e) \/ CollectWithoutId(e) \/ CollectRejects(e)
  \/ \E o \in Observation : Ingest(o)
  \/ \E answers \in [Orders -> Answer] : Reconcile(answers)

Cancelling(e) ==
  ClaimCancel(e) \/ CancelRaises(e) \/ SendCancel(e) \/ CancelReturns(e)

Callback == CallbackUnresolved \/ \E o \in Observation : CallbackRecords(o)

Draining(t) ==
  \/ DrainSelects(t)
  \/ \E o \in Observation : Apply(t, o) \/ AlreadyApplied(t, o) \/ ApplyConflicts(t, o)

Next ==
  \/ \E e \in Orders : Submitting(e) \/ Cancelling(e)
  \/ Querying
  \/ Callback
  \/ \E t \in Threads : Draining(t)
  \/ Reconnect \/ Crash \/ Restart
  \/ \E e \in Orders : BrokerFills(e) \/ BrokerCancels(e)

Spec == Init /\ [][Next]_vars

(* Fairness.  The process keeps running its threads and is restarted, the  *)
(* connection loop keeps querying (_connection_loop, heartbeat), and the   *)
(* broker is not mute for ever: queries succeed again and again, each row  *)
(* it has and its present snapshot are among the answers again and again.  *)
(* Nothing is assumed of callbacks, clients or the broker's own moves.     *)
LaneProgress ==
  \/ \E e \in Orders :
       \/ NotSent(e) \/ SendRaises(e) \/ LaneUncertain(e)
       \/ \E outcome \in {"live", "rejected"} : Send(e, outcome)
       \/ ReturnBinds(e) \/ ReturnWithoutId(e) \/ ReturnRejects(e) \/ MarkReturned(e)
       \/ CancelRaises(e) \/ SendCancel(e) \/ CancelReturns(e)
       \/ CollectBinds(e) \/ CollectWithoutId(e) \/ CollectRejects(e)
  \/ QueryFails \/ ReturnsRaise

Present(e) ==
  CASE brokerFilled[e] = Quantity -> [kind |-> "FILLED", filled |-> Quantity]
    [] broker[e] = "cancelled" -> [kind |-> "CANCELLED", filled |-> brokerFilled[e]]
    [] OTHER -> [kind |-> "NONE", filled |-> 0]

ReportedKinds ==
  {o \in Observation : o.source = "REPORT" /\ o.kind \in {"ACCEPTED", "CANCELLED", "DEAL"}}

Fairness ==
  /\ WF_vars(LaneProgress) /\ WF_vars(StartQuery) /\ WF_vars(Restart)
  /\ \A t \in Threads : WF_vars(Draining(t))
  /\ SF_vars(QueryReads)
  /\ \A o \in ReportedKinds : SF_vars(Ingest(o))
  /\ SF_vars(Reconcile([e \in Orders |-> Present(e)]))

FairSpec == Spec /\ Fairness
-----------------------------------------------------------------------------
(* Properties. *)

(* Whatever fails, dies, restarts or is asked again, create_order reaches  *)
(* the broker at most once for a command: an abandoned claim is never      *)
(* permission to dispatch again (_claim_command, _open_journal, query).    *)
AtMostOneSend == \A e \in Orders : sends[e] <= 1

(* A cancel reaches the broker at most once, and only for an order that    *)
(* was sent and whose broker id is known (cancel: cancel_stage and the     *)
(* exact key are checked in the transaction that claims it).               *)
AtMostOneCancel ==
  \A e \in Orders : cancels[e] <= 1 /\ (cancels[e] = 1 => sends[e] = 1 /\ bound[e])

(* No claim is silently pending: while the process is up, an order that is *)
(* CLAIMED and PENDING is the one the lane is sending.  A claim abandoned  *)
(* by a crash or a raise shows UNKNOWN (_uncertain, _open_journal).        *)
NoSilentClaim ==
  \A e \in Orders :
    running /\ stage[e] = "CLAIMED" /\ orders[e].state = "PENDING" => lane.order = e

(* NOT_SENT is a proof: such an order never reached the broker, carries no *)
(* broker id, no fill and no cancel, is shown REJECTED, and no query,      *)
(* restart or callback ever puts it in doubt again (_not_sent and every    *)
(* "submit_stage!='NOT_SENT'").                                            *)
NotSentMeansNotSent ==
  \A e \in Orders : stage[e] = "NOT_SENT" =>
    /\ sends[e] = 0 /\ cancels[e] = 0 /\ ~bound[e]
    /\ orders[e].state = "REJECTED" /\ ~doubtful[e]

(* A fill is counted once, whether it came by callback, by report or by    *)
(* both, on either thread and across crashes, and never one the broker     *)
(* did not make: the shares shown are the fills kept, and the broker made  *)
(* at least those (_apply, _reconcile_snapshots).                          *)
FillsAreReal ==
  \A e \in Orders :
    /\ orders[e].filled = Total(e)
    /\ Total(e) <= brokerFilled[e]
    /\ \A k \in Deals : Cardinality({src \in Sources : <<e, k, src>> \in fills}) <= 1

(* An end that is shown is the broker's end: FILLED was fully filled there,*)
(* CANCELLED was cancelled there, REJECTED was rejected there or never     *)
(* sent.  A timeout, an acknowledged cancel or a silent broker ends        *)
(* nothing.                                                                *)
EndIsTrue ==
  \A e \in Orders :
    /\ orders[e].state = "FILLED" => brokerFilled[e] = Quantity
    /\ orders[e].state = "CANCELLED" => broker[e] = "cancelled"
    /\ orders[e].state = "REJECTED" => broker[e] = "rejected" \/ stage[e] = "NOT_SENT"

(* An order out of doubt is one a broker answer explains: it is bound, its *)
(* fate is one a query can corroborate, and while it is working no cancel  *)
(* of it was ever claimed (_reconcile_snapshots, _apply, cancel).          *)
SettledMeansExplained ==
  \A e \in Orders : Sent(e) /\ ~doubtful[e] =>
    /\ bound[e]
    /\ orders[e].state \in {"ACCEPTED", "PARTIALLY_FILLED", "CANCELLED", "FILLED"}
    /\ orders[e].state \in {"ACCEPTED", "PARTIALLY_FILLED"} =>
         ~orders[e].cancelRequested /\ cancelStage[e] = "NONE"

(* No callback is lost between the bind and its drain: while the process   *)
(* has not crashed, an observation recorded for a bound order is applied,  *)
(* in the hands of a thread, about to be selected by one, or was refused   *)
(* as a conflict and left the order in doubt.  A callback that came before *)
(* its order had a broker id is picked up by the bind (_bind, _ingest,     *)
(* _drain).                                                                *)
NothingForgotten ==
  crashes = 0 =>
    \A e \in Orders : bound[e] =>
      \A o \in Unapplied(e) :
        \/ \E t \in Threads : drainKey[t] = e \/ o \in draining[t]
        \/ Conflicts(o) /\ doubtful[e]

(* The reducer refuses nothing the broker can honestly say: in whatever    *)
(* order callbacks and reports of one order come, before or after local    *)
(* timeouts, cancels, restarts and reconciliations, only two sources that  *)
(* contradict each other make a conflict (_drain, reduce_order).           *)
OnlyDisputesConflict ==
  \A o \in recorded \ applied :
    bound[o.order] /\ Conflicts(o) => o.kind = "DEAL" /\ o.deal \in Disputed

(* UNKNOWN is left only on evidence: for a bound order, or for one whose   *)
(* own trade object shows that the broker rejected it.  No retry, restart  *)
(* or timer resolves it (_open_journal, _apply, _rejected_return).         *)
UnknownNeedsEvidence ==
  [][ \A e \in Orders :
        orders[e].state = "UNKNOWN" /\ orders'[e].state # "UNKNOWN" =>
          bound[e] \/ (broker[e] = "rejected" /\ orders'[e].state = "REJECTED") ]_vars

(* Fills shown are never taken back, and an end shown is kept: only late   *)
(* deals may turn CANCELLED into FILLED.                                   *)
EndsAreKept ==
  [][ \A e \in Orders :
        /\ orders'[e].filled >= orders[e].filled
        /\ orders[e].state \in {"FILLED", "REJECTED"} => orders'[e].state = orders[e].state
        /\ orders[e].state = "CANCELLED" => orders'[e].state \in {"CANCELLED", "FILLED"} ]_vars

(* An order that the broker has finished becomes known: once its broker id *)
(* is bound and it ended there, filled or cancelled, the runtime shows     *)
(* that end with every fill and without doubt, through crashes, lost       *)
(* callbacks and failed queries (query, _reconcile_snapshots).             *)
EndingBecomesKnown ==
  \A e \in Orders :
    (bound[e] /\ (brokerFilled[e] = Quantity \/ broker[e] = "cancelled")) ~>
      /\ ~doubtful[e]
      /\ orders[e].filled = brokerFilled[e]
      /\ orders[e].state = (IF brokerFilled[e] = Quantity THEN "FILLED" ELSE "CANCELLED")
=============================================================================

--------------------------- MODULE EvidenceProofs ---------------------------
(***************************************************************************)
(* What the runtime shows of an order is what the broker made of it, for   *)
(* every set of orders, every quantity, every order in which callbacks and *)
(* reports come, and any number of crashes and reconnects.                 *)
(*                                                                         *)
(* The argument has layers, each inductive on the ones before it: what was *)
(* recorded was said (Told), what is shown follows from it (Shown), an     *)
(* order out of doubt is explained (Settled), a claim in progress is the   *)
(* lane's (Held), and what is not applied is in somebody's hands (InHand). *)
(***************************************************************************)
EXTENDS ExecutionRuntimeProofs

-----------------------------------------------------------------------------
(* What was recorded, the broker has said; what was filled, it filled. *)

BrokerOrder(e) ==
  /\ sends[e] = 0 <=> broker[e] = "none"
  /\ broker[e] \in {"none", "rejected"} => brokerFilled[e] = 0

FillsTold ==
  /\ \A f \in fills : f[2] <= brokerFilled[f[1]]
  /\ \A e \in Orders, k \in Deals, src, other \in Sources :
       <<e, k, src>> \in fills /\ <<e, k, other>> \in fills => src = other

Told ==
  /\ \A e \in Orders : BrokerOrder(e)
  /\ \A o \in recorded : Said(o)
  /\ FillsTold

-----------------------------------------------------------------------------
(* What an order shows, and what it may show next. *)

(* The state agrees with the filled quantity and with the cancel. *)
Agrees(o) ==
  /\ o.state \in {"PREVIEWED", "PENDING"} => o.filled = 0
  /\ o.state = "FILLED" => o.filled = Quantity
  /\ o.state = "CANCELLED" => o.cancelRequested
  /\ o.state \in {"ACCEPTED", "PARTIALLY_FILLED"} => ~o.cancelRequested

EndTrue(e) ==
  /\ orders[e].state = "CANCELLED" => broker[e] = "cancelled"
  /\ orders[e].state = "REJECTED" => broker[e] = "rejected" \/ stage[e] = "NOT_SENT"

ShownOrder(e) ==
  /\ Agrees(orders[e]) /\ EndTrue(e)
  /\ orders[e].filled = Total(e)
  /\ stage[e] # "ABSENT" => orders[e].state # "PREVIEWED"
  /\ cancelStage[e] # "NONE" => bound[e] /\ orders[e].cancelRequested

Shown == \A e \in Orders : ShownOrder(e)

(* An order out of doubt: the broker has it, and its state says so. *)
SettledOrder(e) ==
  /\ stage[e] = "ABSENT" => doubtful[e]
  /\ Sent(e) /\ ~doubtful[e] =>
       /\ bound[e] /\ broker[e] \in {"live", "cancelled"}
       /\ orders[e].state \in {"ACCEPTED", "PARTIALLY_FILLED", "CANCELLED", "FILLED"}

Settled == \A e \in Orders : SettledOrder(e)

(* While the process is up, a claim that shows PENDING is on its way. *)
HeldOrder(e) ==
  running /\ stage[e] = "CLAIMED" /\ orders[e].state = "PENDING" =>
    lane.order = e /\ lane.at \in {"claimed", "sent", "bound", "returned", "uncertain"}

Held == \A e \in Orders : HeldOrder(e)

(* Two sources told a deal differently: the conflict that stays. *)
Disagrees(o) ==
  /\ o.kind = "DEAL" /\ o.deal \in Disputed
  /\ \E src \in Sources \ {o.source} : <<o.order, o.deal, src>> \in fills

InHand ==
  /\ \A t \in Threads : drainKey[t] # NoOrder => draining[t] = {}
  /\ crashes = 0 =>
       \A o \in recorded \ applied : bound[o.order] =>
         \/ \E t \in Threads : drainKey[t] = o.order \/ o \in draining[t]
         \/ Disagrees(o) /\ doubtful[o.order]

-----------------------------------------------------------------------------
(* Which actions touch what. *)

LEMMA BrokerSteps ==
  ASSUME [Next]_vars
  PROVE  \/ UNCHANGED environment
         \/ \E e \in Orders, outcome \in {"live", "rejected"} : Send(e, outcome)
         \/ \E e \in Orders : SendCancel(e) \/ BrokerFills(e) \/ BrokerCancels(e)
<1>1. CASE UNCHANGED vars
  BY <1>1 DEF vars, beyond
<1>2. ASSUME NEW e \in Orders, Submitting(e), ~ \E outcome \in {"live", "rejected"} : Send(e, outcome)
      PROVE  UNCHANGED environment
  BY <1>2 DEF Submitting, Claim, NotSent, SendRaises, LaneUncertain, ReturnBinds,
     ReturnWithoutId, ReturnRejects, MarkReturned, beyond
<1>3. ASSUME NEW e \in Orders, Cancelling(e), ~SendCancel(e) PROVE UNCHANGED environment
  BY <1>3 DEF Cancelling, ClaimCancel, CancelRaises, CancelReturns, beyond
<1>4. ASSUME Querying PROVE UNCHANGED environment
  BY <1>4 DEF Querying, StartQuery, QueryFails, QueryReads, ReturnsRaise, CollectBinds,
     CollectWithoutId, CollectRejects, Ingest, Reconcile, beyond
<1>5. ASSUME Callback PROVE UNCHANGED environment
  BY <1>5 DEF Callback, CallbackUnresolved, CallbackRecords, beyond
<1>6. ASSUME NEW t \in Threads, Draining(t) PROVE UNCHANGED environment
  BY <1>6 DEF Draining, DrainSelects, Apply, AlreadyApplied, ApplyConflicts, beyond
<1>7. ASSUME Reconnect \/ Crash \/ Restart PROVE UNCHANGED environment
  BY <1>7 DEF Reconnect, Crash, Restart
<1> QED
  BY <1>1, <1>2, <1>3, <1>4, <1>5, <1>6, <1>7 DEF Next

LEMMA EvidenceSteps ==
  ASSUME [Next]_vars
  PROVE  \/ UNCHANGED evidence
         \/ \E o \in Observation : Ingest(o) \/ CallbackRecords(o)
         \/ \E t \in Threads, o \in Observation : Apply(t, o)
<1>1. CASE UNCHANGED vars
  BY <1>1 DEF vars
<1>2. ASSUME NEW e \in Orders, Submitting(e) PROVE UNCHANGED evidence
  BY <1>2 DEF Submitting, Claim, NotSent, SendRaises, Send, LaneUncertain, ReturnBinds,
     ReturnWithoutId, ReturnRejects, MarkReturned
<1>3. ASSUME NEW e \in Orders, Cancelling(e) PROVE UNCHANGED evidence
  BY <1>3 DEF Cancelling, ClaimCancel, CancelRaises, SendCancel, CancelReturns
<1>4. ASSUME Querying, ~ \E o \in Observation : Ingest(o) PROVE UNCHANGED evidence
  BY <1>4 DEF Querying, StartQuery, QueryFails, QueryReads, ReturnsRaise, CollectBinds,
     CollectWithoutId, CollectRejects, Reconcile
<1>5. ASSUME CallbackUnresolved PROVE UNCHANGED evidence
  BY <1>5 DEF CallbackUnresolved
<1>6. ASSUME NEW t \in Threads, Draining(t), ~ \E o \in Observation : Apply(t, o)
      PROVE  UNCHANGED evidence
  BY <1>6 DEF Draining, DrainSelects, AlreadyApplied, ApplyConflicts
<1>7. ASSUME Reconnect \/ Crash \/ Restart PROVE UNCHANGED evidence
  BY <1>7 DEF Reconnect, Crash, Restart
<1>8. ASSUME NEW e \in Orders, BrokerFills(e) \/ BrokerCancels(e) PROVE UNCHANGED evidence
  BY <1>8 DEF BrokerFills, BrokerCancels
<1> QED
  BY <1>1, <1>2, <1>3, <1>4, <1>5, <1>6, <1>7, <1>8 DEF Next, Callback

-----------------------------------------------------------------------------
(* Told. *)

LEMMA ToldInit == Init => Told
BY DEF Init, Told, BrokerOrder, FillsTold

(* The broker takes nothing back of what it may have said.                 *)
LEMMA BrokerOnlyAdds ==
  ASSUME TypeOK, Dispatch, Told, [Next]_vars
  PROVE  /\ \A e \in Orders : BrokerOrder(e)'
         /\ \A e \in Orders : brokerFilled'[e] >= brokerFilled[e]
         /\ \A e \in Orders : broker[e] \in {"cancelled", "rejected"} => broker'[e] = broker[e]
         /\ \A e \in Orders : broker[e] = "live" => broker'[e] \in {"live", "cancelled"}
         /\ \A o \in Observation : Said(o) => Said(o)'
<1> DEFINE Adds ==
      /\ \A e \in Orders : broker[e] \in {"cancelled", "rejected"} => broker'[e] = broker[e]
      /\ \A e \in Orders : broker[e] = "live" => broker'[e] \in {"live", "cancelled"}
      /\ \A e \in Orders : brokerFilled'[e] >= brokerFilled[e] /\ cancels'[e] >= cancels[e]
<1> USE RuntimeAssumption
<1>1. ASSUME NEW e \in Orders, NEW outcome \in {"live", "rejected"}, Send(e, outcome)
      PROVE  Adds /\ \A f \in Orders : BrokerOrder(f)'
  <2>1. sends[e] = 0 /\ broker[e] = "none"
    BY <1>1 DEF Send, LaneAt, Dispatch, LaneDispatch, Told, BrokerOrder
  <2>2. sends' = [sends EXCEPT ![e] = 1]
    BY <1>1, <2>1 DEF Send
  <2> QED
    BY <1>1, <2>1, <2>2 DEF Send, TypeOK, Told, BrokerOrder
<1>2. ASSUME NEW e \in Orders, SendCancel(e) PROVE Adds /\ \A f \in Orders : BrokerOrder(f)'
  BY <1>2 DEF SendCancel, TypeOK, Told, BrokerOrder
<1>3. ASSUME NEW e \in Orders, BrokerFills(e) PROVE Adds /\ \A f \in Orders : BrokerOrder(f)'
  BY <1>3 DEF BrokerFills, TypeOK, Told, BrokerOrder
<1>4. ASSUME NEW e \in Orders, BrokerCancels(e) PROVE Adds /\ \A f \in Orders : BrokerOrder(f)'
  BY <1>4 DEF BrokerCancels, TypeOK, Told, BrokerOrder
<1>5. Adds /\ \A f \in Orders : BrokerOrder(f)'
  <2>1. CASE UNCHANGED environment
    BY <2>1 DEF environment, TypeOK, Told, BrokerOrder
  <2> QED
    BY <1>1, <1>2, <1>3, <1>4, <2>1, BrokerSteps
<1>6. ASSUME NEW o \in Observation, Said(o) PROVE Said(o)'
  <2>1. o.order \in Orders /\ broker[o.order] \in BrokerStates
    BY DEF Observation, TypeOK
  <2>2. \/ broker'[o.order] = broker[o.order] \/ broker[o.order] = "none"
        \/ broker[o.order] = "live" /\ broker'[o.order] = "cancelled"
    BY <1>5, <2>1 DEF BrokerStates
  <2>3. cancels[o.order] \in Nat /\ cancels'[o.order] \in Nat /\ cancels'[o.order] >= cancels[o.order]
    BY <1>5, <2>1, NextTypeOK DEF TypeOK
  <2>4. brokerFilled[o.order] \in Nat /\ brokerFilled'[o.order] \in Nat /\ brokerFilled'[o.order] >= brokerFilled[o.order]
    BY <1>5, <2>1, NextTypeOK DEF TypeOK
  <2>5. broker[o.order] = "none" => o.kind \in {"DEAL", "CANCEL_ACK", "UNCERTAIN"}
    BY <1>6 DEF Said, Observation
  <2> HIDE DEF Adds
  <2>6. CASE o.kind = "DEAL"
    <3>1. o.deal \in Nat
      BY <2>6 DEF Observation, Deals
    <3> QED
      BY <1>6, <2>4, <2>6, <3>1 DEF Said
  <2>7. CASE o.kind \in {"CANCEL_ACK", "UNCERTAIN"}
    BY <1>6, <2>3, <2>7 DEF Said
  <2>8. CASE o.kind \in {"PENDING", "ACCEPTED", "CANCELLED", "REJECTED"}
    BY <1>6, <2>2, <2>5, <2>8 DEF Said
  <2> QED
    BY <2>6, <2>7, <2>8 DEF Observation
<1> QED
  BY <1>5, <1>6

LEMMA ToldNext == TypeOK /\ Dispatch /\ Told /\ [Next]_vars => Told'
<1> SUFFICES ASSUME TypeOK, Dispatch, Told, [Next]_vars PROVE Told'
  OBVIOUS
<1>1. \A o \in recorded : o \in Observation /\ Said(o) /\ Said(o)'
  BY BrokerOnlyAdds DEF Told, TypeOK
<1>2. \A f \in fills : f[1] \in Orders /\ f[2] \in Nat
  BY DEF TypeOK, Deals
<1>3. \A f \in fills : f[2] <= brokerFilled'[f[1]]
  BY <1>2, BrokerOnlyAdds, NextTypeOK DEF Told, FillsTold, TypeOK
<1>4. CASE UNCHANGED evidence
  BY <1>1, <1>3, <1>4, BrokerOnlyAdds DEF evidence, Told, FillsTold
<1>5. ASSUME NEW o \in Observation, Ingest(o) \/ CallbackRecords(o) PROVE Told'
  <2>1. Said(o)
    BY <1>5 DEF Ingest, CallbackRecords, ReportRows, CallbackEvents
  <2>2. recorded' = recorded \cup {o} /\ fills' = fills
    BY <1>5 DEF Ingest, CallbackRecords
  <2> QED
    BY <1>1, <1>3, <2>1, <2>2, BrokerOnlyAdds DEF Told, FillsTold
<1>6. ASSUME NEW t \in Threads, NEW o \in Observation, Apply(t, o) PROVE Told'
  <2>1. o \in recorded /\ recorded' = recorded
    BY <1>6 DEF Apply, TypeOK
  <2>2. fills' = FillsAfter(o)
    BY <1>6 DEF Apply
  <2>3. o.kind = "DEAL" => o.deal <= brokerFilled'[o.order]
    BY <1>1, <2>1 DEF Said
  <2>4. FillsTold'
    <3>1. \A f \in fills' : f[2] <= brokerFilled'[f[1]]
      BY <1>3, <2>2, <2>3 DEF FillsAfter
    <3>2. ASSUME NEW e \in Orders, NEW k \in Deals, NEW src \in Sources, NEW other \in Sources,
                 <<e, k, src>> \in fills', <<e, k, other>> \in fills'
          PROVE  src = other
      BY <2>2, <3>2 DEF FillsAfter, Told, FillsTold
    <3> QED
      BY <3>1, <3>2 DEF FillsTold
  <2> QED
    BY <1>1, <2>1, <2>4, BrokerOnlyAdds DEF Told
<1> QED
  BY <1>4, <1>5, <1>6, EvidenceSteps

LEMMA ToldAlways == Spec => [](TypeOK /\ Dispatch /\ Told)
<1>1. TypeOK /\ Dispatch /\ Told /\ [Next]_vars => (TypeOK /\ Dispatch /\ Told)'
  BY NextTypeOK, DispatchNext, ToldNext
<1> QED
  BY InitTypeOK, DispatchInit, ToldInit, <1>1, PTL DEF Spec

-----------------------------------------------------------------------------
(* What the callers of the reducer make of an order. *)

(* From o to p no end is lost, and no end comes up that is not in "ends".  *)
Leads(o, p, ends) ==
  /\ Agrees(p) /\ p.state # "PREVIEWED"
  /\ o.cancelRequested => p.cancelRequested
  /\ p.state = "PENDING" => o.state = "PENDING"
  /\ o.state \in {"FILLED", "REJECTED"} => p.state = o.state
  /\ o.state = "CANCELLED" => p.state \in {"CANCELLED", "FILLED"}
  /\ p.state \in {"CANCELLED", "REJECTED"} => p.state = o.state \/ p.state \in ends

(* Local decisions and acknowledgements fill nothing and end nothing.      *)
LEMMA DecisionsLead ==
  ASSUME NEW o \in OrderCore(Quantity), Agrees(o), o.state # "PREVIEWED",
         NEW p \in {Reopened(o), Doubted(o), CancelAsked(o), AfterAccepted(o), AfterStartup(o)}
  PROVE  Leads(o, p, {}) /\ p.filled = o.filled /\ p \in OrderCore(Quantity)
<1>1. p \in OrderCore(Quantity)
  BY CallersType
<1> USE DEF Agrees, Leads, Step, Reduce, ApplyControl, ControlState, CONTROLS, TERMINAL, OrderCore
<1>2. CASE p = Reopened(o)
  BY <1>1, <1>2 DEF Reopened
<1>3. CASE p = Doubted(o)
  BY <1>1, <1>3 DEF Doubted
<1>4. CASE p = CancelAsked(o)
  BY <1>1, <1>4 DEF CancelAsked
<1>5. CASE p = AfterStartup(o)
  BY <1>1, <1>5 DEF AfterStartup
<1>6. CASE p = AfterAccepted(o)
  <2>1. CASE p = o
    BY <1>1, <2>1
  <2>2. CASE p # o
    BY <1>1, <1>6, <2>2 DEF AfterAccepted, Reopened, ApplyReport, ReportState, LiveState
  <2> QED
    BY <2>1, <2>2
<1> QED
  BY <1>2, <1>3, <1>4, <1>5, <1>6

LEMMA DealLeads ==
  ASSUME NEW o \in OrderCore(Quantity), Agrees(o), o.state \notin {"PREVIEWED", "REJECTED"},
         NEW total \in 0 .. Quantity
  PROVE  LET p == AfterDeal(o, total)
         IN  Leads(o, p, {}) /\ p.filled = (IF total > o.filled THEN total ELSE o.filled)
<1>1. CASE ~(total > o.filled)
  BY <1>1 DEF AfterDeal, Leads
<1>2. CASE total > o.filled
  <2> DEFINE r == Reopened(o)
             p == AfterDeal(o, total)
  <2>1. r \in OrderCore(Quantity) /\ r.state = (IF o.state = "UNKNOWN" THEN "RECONCILING" ELSE o.state)
        /\ r.cancelRequested = o.cancelRequested
    BY CallersType DEF Reopened, Step, Reduce, ApplyControl, ControlState, CONTROLS, OrderCore
  <2>2. o.state # "FILLED"
    BY <1>2, RuntimeAssumption DEF Agrees, OrderCore
  <2>3. p = [r EXCEPT !.state = ReportState(r, FillKind(total), total, Quantity), !.filled = total]
    BY <1>2 DEF AfterDeal, Step, Reduce, ApplyReport, FillKind, CONTROLS
  <2> HIDE DEF r
  <2>4. /\ p.state = ReportState(r, FillKind(total), total, Quantity) /\ p.filled = total
        /\ p.cancelRequested = o.cancelRequested
    BY <2>1, <2>3 DEF OrderCore
  <2> HIDE DEF p
  <2>5. p.state = CASE total = Quantity -> "FILLED"
                    [] total # Quantity /\ o.state = "CANCELLED" -> "CANCELLED"
                    [] OTHER -> IF o.cancelRequested THEN "CANCEL_PENDING" ELSE "PARTIALLY_FILLED"
    BY <2>1, <2>2, <2>4 DEF ReportState, LiveState, FillKind
  <2>6. Leads(o, p, {})
    BY <2>2, <2>4, <2>5 DEF Leads, Agrees
  <2> QED
    BY <1>2, <2>4, <2>6 DEF p
<1> QED
  BY <1>1, <1>2

LEMMA CancelledLeads ==
  ASSUME NEW o \in OrderCore(Quantity), Agrees(o), o.state # "PREVIEWED"
  PROVE  Leads(o, AfterCancelled(o), {"CANCELLED"}) /\ AfterCancelled(o).filled = o.filled
<1> DEFINE r == Reopened(o)
           a == CancelAsked(r)
           p == AfterCancelled(o)
<1>1. Leads(o, r, {}) /\ r.filled = o.filled /\ r \in OrderCore(Quantity)
  BY DecisionsLead
<1>2. Leads(r, a, {}) /\ a.filled = r.filled /\ a \in OrderCore(Quantity)
  BY <1>1, DecisionsLead DEF Leads
<1>3. a.cancelRequested \/ a.state \in {"FILLED", "REJECTED"}
  BY <1>1, <1>2 DEF CancelAsked, Step, Reduce, ApplyControl, CONTROLS, TERMINAL, OrderCore, Leads, Agrees
<1>4. p = IF a.state \in {"FILLED", "REJECTED"} THEN a ELSE Step(a, "CANCELLED", a.filled)
  BY DEF AfterCancelled
<1> HIDE DEF r, a, p
<1>5. CASE a.state \in {"FILLED", "REJECTED"}
  BY <1>1, <1>2, <1>4, <1>5 DEF Leads, p
<1>6. CASE a.state \notin {"FILLED", "REJECTED"}
  <2>1. /\ p.state = (IF a.filled = Quantity THEN "FILLED" ELSE "CANCELLED")
        /\ p.filled = a.filled /\ p.cancelRequested = a.cancelRequested
    BY <1>2, <1>4, <1>6 DEF Step, Reduce, ApplyReport, ReportState, LiveState, CONTROLS, OrderCore
  <2> QED
    BY <1>1, <1>2, <1>3, <1>6, <2>1 DEF Leads, Agrees, p
<1> QED
  BY <1>5, <1>6

LEMMA RejectedLeads ==
  ASSUME NEW o \in OrderCore(Quantity), Agrees(o), o.state \notin {"PREVIEWED", "CANCELLED"}, o.filled = 0
  PROVE  /\ Leads(o, AfterRejected(o), {"REJECTED"}) /\ AfterRejected(o).filled = 0
         /\ AfterRejected(o).state = "REJECTED" /\ CanReject(o)
<1> DEFINE r == Reopened(o)
           p == AfterRejected(o)
<1>1. Leads(o, r, {}) /\ r.filled = 0 /\ r \in OrderCore(Quantity)
  BY DecisionsLead
<1>2. r.state \notin {"CANCELLED", "FILLED", "UNKNOWN", "PREVIEWED"}
  BY <1>1, RuntimeAssumption DEF Leads, Agrees, Reopened, Step, Reduce, ApplyControl, ControlState,
     CONTROLS, OrderCore
<1>3. p = Step(r, "REJECTED", 0)
  BY DEF AfterRejected
<1>4. CanReject(o)
  BY <1>1, <1>2 DEF CanReject, Admits, AdmitsReport, ReportTotal, CONTROLS
<1> HIDE DEF r, p
<1>5. p.state = "REJECTED" /\ p.filled = 0 /\ p.cancelRequested = r.cancelRequested
  BY <1>1, <1>2, <1>3 DEF Step, Reduce, ApplyReport, ReportState, LiveState, CONTROLS, OrderCore
<1>6. Leads(o, p, {"REJECTED"})
  BY <1>1, <1>2, <1>5, RuntimeAssumption DEF Leads, Agrees
<1> QED
  BY <1>4, <1>5, <1>6 DEF p

LEMMA AnswerLeads ==
  ASSUME NEW o \in OrderCore(Quantity), Agrees(o), o.state # "PREVIEWED",
         NEW answer \in Answer, answer.kind # "NONE", answer.filled = o.filled,
         answer.kind = "FILLED" => answer.filled = Quantity
  PROVE  LET p == AfterAnswer(o, answer)
         IN  /\ Leads(o, p, {"CANCELLED"}) /\ p.filled = o.filled
             /\ p.state = "CANCELLED" => o.state = "CANCELLED" \/ answer.kind = "CANCELLED"
<1>1. CASE o.state # "UNKNOWN"
  BY <1>1 DEF AfterAnswer, Leads
<1>2. CASE o.state = "UNKNOWN"
  <2> DEFINE r == Reopened(o)
             a == IF answer.kind = "CANCELLED" THEN CancelAsked(r) ELSE r
             p == AfterAnswer(o, answer)
  <2>1. Leads(o, r, {}) /\ r.filled = o.filled /\ r \in OrderCore(Quantity) /\ r.state = "RECONCILING"
    BY <1>2, DecisionsLead DEF Reopened, Step, Reduce, ApplyControl, ControlState, CONTROLS, OrderCore
  <2>2. /\ a \in OrderCore(Quantity) /\ a.filled = o.filled /\ a.state = "RECONCILING"
        /\ r.cancelRequested => a.cancelRequested
        /\ answer.kind = "CANCELLED" => a.cancelRequested
    BY <2>1, CallersType DEF CancelAsked, Step, Reduce, ApplyControl, ControlState, CONTROLS, TERMINAL, OrderCore
  <2>3. p = Step(a, answer.kind, answer.filled)
    BY <1>2 DEF AfterAnswer
  <2> HIDE DEF r, a, p
  <2>4. answer.kind \in {"ACCEPTED", "PARTIAL_FILL", "FILLED", "CANCELLED"}
    BY DEF Answer
  <2>5. /\ p.state = LiveState(a, answer.kind, answer.filled, Quantity)
        /\ p.filled = o.filled /\ p.cancelRequested = a.cancelRequested
    BY <2>2, <2>3, <2>4 DEF Step, Reduce, ApplyReport, ReportState, CONTROLS, OrderCore
  <2>6. Leads(o, p, {"CANCELLED"}) /\ (p.state = "CANCELLED" => answer.kind = "CANCELLED")
    BY <1>2, <2>1, <2>2, <2>4, <2>5 DEF Leads, Agrees, LiveState
  <2> QED
    BY <2>5, <2>6 DEF p
<1> QED
  BY <1>1, <1>2

(* A cancel that is claimed asks an order that has not ended.              *)
LEMMA ClaimLeads ==
  ASSUME NEW o \in OrderCore(Quantity), Agrees(o), o.state \notin TERMINAL \cup {"PREVIEWED"}
  PROVE  LET p == Step(o, "CANCEL_REQUESTED", 0)
         IN  Leads(o, p, {}) /\ p.filled = o.filled /\ p.cancelRequested
BY DEF Agrees, Leads, Step, Reduce, ApplyControl, ControlState, CONTROLS, TERMINAL, OrderCore

-----------------------------------------------------------------------------
(* Which actions touch the rows of an order. *)

LEMMA OrderSteps ==
  ASSUME [Next]_vars
  PROVE  \/ UNCHANGED orders
         \/ \E e \in Orders : \/ Claim(e) \/ NotSent(e) \/ LaneUncertain(e) \/ ReturnRejects(e)
                            \/ CollectRejects(e) \/ ClaimCancel(e)
         \/ \E answers \in [Orders -> Answer] : Reconcile(answers)
         \/ \E t \in Threads, o \in Observation : Apply(t, o) \/ ApplyConflicts(t, o)
         \/ Restart
<1>1. CASE UNCHANGED vars
  BY <1>1 DEF vars, rows
<1>2. ASSUME NEW e \in Orders, Submitting(e)
      PROVE  Claim(e) \/ NotSent(e) \/ LaneUncertain(e) \/ ReturnRejects(e) \/ UNCHANGED orders
  BY <1>2 DEF Submitting, SendRaises, Send, ReturnBinds, ReturnWithoutId, MarkReturned, rows
<1>3. ASSUME NEW e \in Orders, Cancelling(e) PROVE ClaimCancel(e) \/ UNCHANGED orders
  BY <1>3 DEF Cancelling, CancelRaises, SendCancel, CancelReturns, rows
<1>4. ASSUME Querying
      PROVE  \/ \E e \in Orders : CollectRejects(e)
             \/ \E answers \in [Orders -> Answer] : Reconcile(answers)
             \/ UNCHANGED orders
  BY <1>4 DEF Querying, StartQuery, QueryFails, QueryReads, ReturnsRaise, CollectBinds,
     CollectWithoutId, Ingest, rows
<1>5. ASSUME Callback PROVE UNCHANGED orders
  BY <1>5 DEF Callback, CallbackUnresolved, CallbackRecords, rows
<1>6. ASSUME NEW t \in Threads, Draining(t)
      PROVE  (\E o \in Observation : Apply(t, o) \/ ApplyConflicts(t, o)) \/ UNCHANGED orders
  BY <1>6 DEF Draining, DrainSelects, AlreadyApplied, rows
<1>7. ASSUME Reconnect \/ Crash PROVE UNCHANGED orders
  BY <1>7 DEF Reconnect, Crash, rows
<1>8. ASSUME NEW e \in Orders, BrokerFills(e) \/ BrokerCancels(e) PROVE UNCHANGED orders
  BY <1>8 DEF BrokerFills, BrokerCancels, rows
<1> QED
  BY <1>1, <1>2, <1>3, <1>4, <1>5, <1>6, <1>7, <1>8 DEF Next

LEMMA MarkSteps ==
  ASSUME TypeOK, [Next]_vars, NEW e \in Orders
  PROVE  /\ stage'[e] = stage[e] \/ Claim(e) \/ NotSent(e) \/ MarkReturned(e)
         /\ cancelStage'[e] = cancelStage[e] \/ ClaimCancel(e) \/ CancelReturns(e)
         /\ bound[e] => bound'[e]
<1> DEFINE Marks ==
      /\ stage'[e] = stage[e] \/ Claim(e) \/ NotSent(e) \/ MarkReturned(e)
      /\ cancelStage'[e] = cancelStage[e] \/ ClaimCancel(e) \/ CancelReturns(e)
      /\ bound[e] => bound'[e]
<1>1. CASE UNCHANGED vars
  BY <1>1 DEF vars, rows
<1>2. ASSUME NEW f \in Orders, Claim(f) \/ NotSent(f) \/ MarkReturned(f) PROVE Marks
  BY <1>2 DEF Claim, NotSent, MarkReturned, TypeOK
<1>3. ASSUME NEW f \in Orders, Submitting(f), ~(Claim(f) \/ NotSent(f) \/ MarkReturned(f)) PROVE Marks
  BY <1>3 DEF Submitting, SendRaises, Send, LaneUncertain, ReturnBinds, Bind, ReturnWithoutId,
     ReturnRejects, rows, TypeOK
<1>4. ASSUME NEW f \in Orders, Cancelling(f) PROVE Marks
  BY <1>4 DEF Cancelling, ClaimCancel, CancelRaises, SendCancel, CancelReturns, rows, TypeOK
<1>5. ASSUME Querying PROVE Marks
  BY <1>5 DEF Querying, StartQuery, QueryFails, QueryReads, ReturnsRaise, CollectBinds, Bind,
     CollectWithoutId, CollectRejects, Ingest, Reconcile, rows, TypeOK
<1>6. ASSUME Callback PROVE Marks
  BY <1>6 DEF Callback, CallbackUnresolved, CallbackRecords, rows
<1>7. ASSUME NEW t \in Threads, Draining(t) PROVE Marks
  BY <1>7 DEF Draining, DrainSelects, Apply, AlreadyApplied, ApplyConflicts, rows
<1>8. ASSUME Reconnect \/ Crash \/ Restart PROVE Marks
  BY <1>8 DEF Reconnect, Crash, Restart, rows
<1>9. ASSUME NEW f \in Orders, BrokerFills(f) \/ BrokerCancels(f) PROVE Marks
  BY <1>9 DEF BrokerFills, BrokerCancels, rows
<1> QED
  BY <1>1, <1>2, <1>3, <1>4, <1>5, <1>6, <1>7, <1>8, <1>9 DEF Next

(* A deal adds one share to its order the first time it is told, and none  *)
(* to any other; the fills of an order are at most what the broker made.   *)
LEMMA TotalSteps ==
  ASSUME TypeOK, NEW t \in Threads, NEW o \in Observation, Apply(t, o), NEW e \in Orders
  PROVE  /\ e # o.order \/ o.kind # "DEAL" => Total(e)' = Total(e)
         /\ e = o.order /\ o.kind = "DEAL" => Total(e)' = TotalAfter(o) /\ Total(e)' >= Total(e)
<1> DEFINE told == {k \in Deals : \E src \in Sources : <<e, k, src>> \in fills}
           toldNext == {k \in Deals : \E src \in Sources : <<e, k, src>> \in fills'}
<1>1. fills' = FillsAfter(o)
  BY DEF Apply
<1>2. Total(e) = Cardinality(told) /\ Total(e)' = Cardinality(toldNext)
  BY DEF Total
<1>3. IsFiniteSet(told) /\ Cardinality(told) \in Nat
  <2>1. IsFiniteSet(Deals) /\ told \subseteq Deals
    BY RuntimeAssumption, FS_Interval DEF Deals
  <2> HIDE DEF told
  <2> QED
    BY <2>1, FS_Subset, FS_CardinalityType
<1>4. CASE e # o.order \/ o.kind # "DEAL"
  <2>1. told = toldNext
    BY <1>1, <1>4 DEF FillsAfter
  <2> QED
    BY <1>2, <1>4, <2>1
<1>5. CASE e = o.order /\ o.kind = "DEAL" /\ fills' = fills
  <2>1. told = toldNext /\ FillsAfter(o) \ fills = {}
    BY <1>1, <1>5
  <2>2. Cardinality(FillsAfter(o) \ fills) = 0
    BY <2>1, FS_EmptySet
  <2> HIDE DEF told, toldNext
  <2> QED
    BY <1>2, <1>3, <1>5, <2>1, <2>2 DEF TotalAfter
<1>6. CASE e = o.order /\ o.kind = "DEAL" /\ fills' # fills
  <2> DEFINE fill == <<o.order, o.deal, o.source>>
  <2>1. o.deal \in Deals \ told /\ fills' = fills \cup {fill}
    BY <1>1, <1>6 DEF FillsAfter, Observation
  <2>2. o.source \in Sources
    BY DEF Observation, Sources
  <2>3. toldNext = told \cup {o.deal}
    BY <1>6, <2>1, <2>2
  <2>4. FillsAfter(o) \ fills = {fill}
    BY <1>1, <1>6, <2>1
  <2> HIDE DEF told, toldNext, fill
  <2>5. Cardinality(FillsAfter(o) \ fills) = 1
    BY <2>4, FS_Singleton
  <2>6. Cardinality(toldNext) = Cardinality(told) + 1
    BY <1>3, <2>1, <2>3, FS_AddElement
  <2> QED
    BY <1>2, <1>3, <1>6, <2>5, <2>6 DEF TotalAfter
<1> QED
  BY <1>4, <1>5, <1>6

LEMMA TotalBounded ==
  ASSUME TypeOK, Told, NEW e \in Orders
  PROVE  Total(e) \in Nat /\ Total(e) <= brokerFilled[e]
<1> DEFINE told == {k \in Deals : \E src \in Sources : <<e, k, src>> \in fills}
<1>1. brokerFilled[e] \in Nat
  BY DEF TypeOK
<1>2. told \subseteq 1 .. brokerFilled[e]
  <2>1. ASSUME NEW k \in Deals, NEW src \in Sources, <<e, k, src>> \in fills
        PROVE  k <= brokerFilled[e]
    <3>1. <<e, k, src>>[2] <= brokerFilled[<<e, k, src>>[1]]
      BY <2>1 DEF Told, FillsTold
    <3> QED
      BY <3>1
  <2>2. \A k \in told : k \in Deals /\ k <= brokerFilled[e]
    BY <2>1
  <2> HIDE DEF told
  <2> QED
    BY <1>1, <2>2, RuntimeAssumption DEF Deals
<1> DEFINE made == brokerFilled[e]
<1> HIDE DEF told, made
<1>3. made \in Nat /\ told \subseteq 1 .. made
  BY <1>1, <1>2 DEF made
<1>4. IsFiniteSet(1 .. made) /\ Cardinality(1 .. made) = made
  BY <1>3, FS_Interval
<1>5. IsFiniteSet(told) /\ Cardinality(told) <= Cardinality(1 .. made)
  BY <1>3, <1>4, FS_Subset
<1>6. Cardinality(told) \in Nat
  BY <1>5, FS_CardinalityType
<1> QED
  BY <1>4, <1>5, <1>6 DEF told, made, Total

-----------------------------------------------------------------------------
(* Shown. *)

LEMMA ShownInit == Init => Shown
<1> SUFFICES ASSUME Init, NEW e \in Orders PROVE ShownOrder(e)
  BY DEF Shown
<1>1. {k \in Deals : \E src \in Sources : <<e, k, src>> \in fills} = {}
  BY DEF Init
<1>2. Total(e) = 0
  BY <1>1, FS_EmptySet DEF Total
<1> QED
  BY <1>2 DEF Init, ShownOrder, Agrees, EndTrue, NewOrder

(* The ends that the broker has made of an order, or the check before it.  *)
Ends(e) ==
  {end \in {"CANCELLED", "REJECTED"} :
     \/ end = "CANCELLED" /\ broker[e] = "cancelled"
     \/ end = "REJECTED" /\ (broker[e] = "rejected" \/ stage'[e] = "NOT_SENT")}

OrderLeads(e) ==
  \/ orders'[e] = orders[e]
  \/ orders[e].state = "PREVIEWED" /\ orders'[e] = NewOrder("PENDING")
  \/ orders[e].state # "PREVIEWED" /\ Leads(orders[e], orders'[e], Ends(e))

(* What a thread has in hand was said of an order that was sent; a deal is *)
(* never of a rejected one.                                                *)
LEMMA HandIsTrue ==
  ASSUME TypeOK, Dispatch, Told, Shown, NEW o \in recorded, bound[o.order]
  PROVE  /\ o.order \in Orders /\ Sent(o.order) /\ Said(o)
         /\ orders[o.order] \in OrderCore(Quantity) /\ Agrees(orders[o.order])
         /\ orders[o.order].state # "PREVIEWED"
         /\ o.kind = "DEAL" => orders[o.order].state # "REJECTED"
         /\ o.kind = "REJECTED" => orders[o.order].filled = 0 /\ orders[o.order].state # "CANCELLED"
<1> DEFINE e == o.order
<1>1. o \in Observation /\ e \in Orders /\ Said(o)
  BY DEF TypeOK, Observation, Told
<1>2. Sent(e) /\ stage[e] \notin {"ABSENT", "NOT_SENT"}
  BY <1>1 DEF Dispatch, OrderDispatch, Sent
<1>3. ShownOrder(e) /\ BrokerOrder(e)
  BY <1>1 DEF Shown, Told
<1>4. Total(e) \in Nat /\ Total(e) <= brokerFilled[e] /\ orders[e] \in OrderCore(Quantity)
  BY <1>1, TotalBounded DEF TypeOK
<1>5. ASSUME o.kind = "DEAL" PROVE orders[e].state # "REJECTED"
  <2>1. o.deal <= brokerFilled[e] /\ o.deal \in Nat \ {0}
    BY <1>1, <1>5, RuntimeAssumption DEF Said, Observation, Deals
  <2> QED
    BY <1>2, <1>3, <2>1 DEF ShownOrder, EndTrue, BrokerOrder
<1>6. ASSUME o.kind = "REJECTED" PROVE orders[e].filled = 0 /\ orders[e].state # "CANCELLED"
  <2>1. broker[e] = "rejected"
    BY <1>1, <1>6 DEF Said
  <2> QED
    BY <1>3, <1>4, <2>1 DEF ShownOrder, EndTrue, BrokerOrder
<1> QED
  BY <1>1, <1>2, <1>3, <1>4, <1>5, <1>6 DEF ShownOrder

(* A trade object that shows a rejection ends its order, which has no fill.*)
LEMMA ReturnLeads ==
  ASSUME TypeOK, Dispatch, Told, Shown, NEW e \in Orders, NEW f \in Orders, NEW next,
         sends[f] = 1, RejectedReturn(f, next)
  PROVE  /\ OrderLeads(e) /\ orders'[e].filled = orders[e].filled
         /\ orders'[e] # orders[e] => e = f /\ broker[e] = "rejected" /\ lane' = next
         /\ lane' = next \/ orders[f].state \notin {"PENDING"}
<1> USE DEF TypeOK
<1>1. ASSUME broker[f] = "rejected"
      PROVE  /\ orders[f].state # "PREVIEWED" /\ CanReject(orders[f])
             /\ Leads(orders[f], AfterRejected(orders[f]), {"REJECTED"})
             /\ AfterRejected(orders[f]).filled = orders[f].filled
  <2>1. ShownOrder(f) /\ BrokerOrder(f) /\ Total(f) \in Nat /\ Total(f) <= brokerFilled[f]
    BY TotalBounded DEF Shown, Told
  <2>2. orders[f].filled = 0 /\ orders[f].state # "CANCELLED"
    BY <1>1, <2>1 DEF ShownOrder, EndTrue, BrokerOrder
  <2>3. orders[f].state # "PREVIEWED" /\ Agrees(orders[f])
    BY <2>1 DEF ShownOrder, Dispatch, OrderDispatch, Sent
  <2> QED
    BY <2>2, <2>3, RejectedLeads
<1>2. CASE UNCHANGED orders /\ lane' = next
  BY <1>2 DEF OrderLeads
<1>3. CASE broker[f] = "rejected" /\ lane' = next /\ orders' = [orders EXCEPT ![f] = AfterRejected(@)]
  <2>1. CASE e = f
    <3>1. orders'[e] = AfterRejected(orders[e]) /\ {"REJECTED"} \subseteq Ends(e)
      BY <1>3, <2>1 DEF Ends
    <3> HIDE DEF TypeOK
    <3> QED
      BY <1>1, <1>3, <2>1, <3>1 DEF OrderLeads, Leads
  <2>2. CASE e # f
    BY <1>3, <2>2 DEF OrderLeads
  <2> QED
    BY <2>1, <2>2
<1> QED
  BY <1>1, <1>2, <1>3 DEF RejectedReturn

(* An observation that is applied: the end is one that it tells, the       *)
(* filled quantity is what is now kept of deals.                           *)
LEMMA ApplyLeads ==
  ASSUME TypeOK, Dispatch, Told, Shown, NEW t \in Threads, NEW o \in Observation, Apply(t, o),
         NEW e \in Orders
  PROVE  OrderLeads(e) /\ orders'[e].filled = Total(e)'
<1>1. o \in recorded /\ bound[o.order]
  BY DEF Apply, TypeOK, Dispatch, HandsDispatch
<1>2. orders[e].filled = Total(e)
  BY DEF Shown, ShownOrder
<1>3. CASE e # o.order
  <2>1. orders'[e] = orders[e]
    BY <1>3 DEF Apply, TypeOK
  <2> QED
    BY <1>2, <1>3, <2>1, TotalSteps DEF OrderLeads
<1>4. CASE e = o.order
  <2> DEFINE was == orders[e]
  <2>1. orders' = [orders EXCEPT ![o.order] = After(o)]
    BY DEF Apply
  <2>2. orders'[e] = After(o)
    BY <1>4, <2>1 DEF TypeOK
  <2>3. /\ was \in OrderCore(Quantity) /\ Agrees(was) /\ was.state # "PREVIEWED" /\ Said(o)
        /\ o.kind = "DEAL" => was.state # "REJECTED"
        /\ o.kind = "REJECTED" => was.filled = 0 /\ was.state # "CANCELLED"
    BY <1>1, <1>4, HandIsTrue
  <2> HIDE DEF was
  <2>4. CASE o.kind = "DEAL"
    <3>1. TotalAfter(o) \in 0 .. Quantity /\ was.filled \in 0 .. Quantity
      BY <2>3, <2>4, TotalType DEF OrderCore
    <3>2. Total(e)' = TotalAfter(o) /\ Total(e)' >= was.filled
      BY <1>2, <1>4, <2>4, TotalSteps DEF was
    <3>3. orders'[e] = AfterDeal(was, TotalAfter(o))
      BY <1>4, <2>2, <2>4 DEF After, was
    <3>4. Leads(was, orders'[e], {}) /\ orders'[e].filled = Total(e)'
      BY <2>3, <2>4, <3>1, <3>2, <3>3, DealLeads
    <3> QED
      BY <2>3, <3>4 DEF OrderLeads, Leads, was
  <2>5. CASE o.kind # "DEAL"
    <3>1. Total(e)' = was.filled
      BY <1>2, <2>5, TotalSteps DEF was
    <3>2. CASE o.kind = "CANCELLED"
      <4>1. "CANCELLED" \in Ends(e)
        BY <1>4, <2>3, <3>2 DEF Said, Ends
      <4>2. orders'[e] = AfterCancelled(was)
        BY <1>4, <2>2, <3>2 DEF After, was
      <4>3. Leads(was, orders'[e], {"CANCELLED"}) /\ orders'[e].filled = was.filled
        BY <2>3, <4>2, CancelledLeads
      <4> QED
        BY <2>3, <3>1, <4>1, <4>3 DEF OrderLeads, Leads, was
    <3>3. CASE o.kind = "REJECTED"
      <4>1. "REJECTED" \in Ends(e)
        BY <1>4, <2>3, <3>3 DEF Said, Ends
      <4>2. orders'[e] = AfterRejected(was)
        BY <1>4, <2>2, <3>3 DEF After, was
      <4>3. Leads(was, orders'[e], {"REJECTED"}) /\ orders'[e].filled = was.filled
        BY <2>3, <3>3, <4>2, RejectedLeads
      <4> QED
        BY <2>3, <3>1, <4>1, <4>3 DEF OrderLeads, Leads, was
    <3>4. CASE o.kind \in {"ACCEPTED", "CANCEL_ACK", "UNCERTAIN"}
      <4>1. orders'[e] \in {AfterAccepted(was), CancelAsked(was), Doubted(was)}
        BY <1>4, <2>2, <3>4 DEF After, was
      <4>2. Leads(was, orders'[e], {}) /\ orders'[e].filled = was.filled
        BY <2>3, <4>1, DecisionsLead
      <4> QED
        BY <2>3, <3>1, <4>2 DEF OrderLeads, Leads, was
    <3>5. CASE o.kind = "PENDING"
      <4>1. orders'[e] = was
        BY <1>4, <2>2, <3>5 DEF After, was
      <4> QED
        BY <3>1, <4>1 DEF OrderLeads, was
    <3> QED
      BY <2>5, <3>2, <3>3, <3>4, <3>5 DEF Observation
  <2> QED
    BY <2>4, <2>5
<1> QED
  BY <1>3, <1>4

(* A query moves an unknown order to the fate that its report row tells.   *)
LEMMA ReconcileLeads ==
  ASSUME TypeOK, Dispatch, Told, Shown, NEW answers \in [Orders -> Answer], Reconcile(answers),
         NEW e \in Orders
  PROVE  OrderLeads(e) /\ orders'[e].filled = orders[e].filled
<1> DEFINE was == orders[e]
           answer == answers[e]
<1>1. orders'[e] = IF Corroborated(e, answer) THEN AfterAnswer(was, answer) ELSE was
  BY DEF Reconcile
<1>2. CASE ~Corroborated(e, answer)
  BY <1>1, <1>2 DEF OrderLeads
<1>3. CASE Corroborated(e, answer)
  <2>1. answer \in Answer /\ answer.kind # "NONE" /\ answer.filled = was.filled /\ bound[e]
    BY <1>3 DEF Corroborated
  <2>2. was \in OrderCore(Quantity) /\ Agrees(was) /\ was.state # "PREVIEWED"
    BY <2>1 DEF TypeOK, Shown, ShownOrder, Dispatch, OrderDispatch, Sent
  <2>3. /\ answer.kind = "FILLED" => answer.filled = Quantity
        /\ answer.kind = "CANCELLED" => Seen(e, "CANCELLED", "REPORT") \in recorded
    BY DEF Reconcile, Fate
  <2>4. answer.kind = "CANCELLED" => "CANCELLED" \in Ends(e)
    BY <2>3 DEF Told, Said, Seen, Ends
  <2> HIDE DEF was, answer
  <2>5. /\ Leads(was, orders'[e], {"CANCELLED"}) /\ orders'[e].filled = was.filled
        /\ orders'[e].state = "CANCELLED" => was.state = "CANCELLED" \/ answer.kind = "CANCELLED"
    BY <1>1, <1>3, <2>1, <2>2, <2>3, AnswerLeads
  <2> QED
    BY <2>2, <2>4, <2>5 DEF OrderLeads, Leads, was
<1> QED
  BY <1>2, <1>3

LEMMA EveryStepLeads ==
  ASSUME TypeOK, Dispatch, Told, Shown, [Next]_vars, NEW e \in Orders
  PROVE  OrderLeads(e) /\ orders'[e].filled = Total(e)'
<1>1. /\ orders[e] \in OrderCore(Quantity) /\ Agrees(orders[e]) /\ orders[e].filled = Total(e)
      /\ stage[e] # "ABSENT" => orders[e].state # "PREVIEWED"
  BY DEF TypeOK, Shown, ShownOrder
<1>2. ASSUME NEW t \in Threads, NEW o \in Observation, Apply(t, o)
      PROVE  OrderLeads(e) /\ orders'[e].filled = Total(e)'
  BY <1>2, ApplyLeads
<1>3. ASSUME ~ \E t \in Threads, o \in Observation : Apply(t, o)
      PROVE  OrderLeads(e) /\ orders'[e].filled = orders[e].filled
  <2>1. CASE UNCHANGED orders
    BY <2>1 DEF OrderLeads
  <2>2. ASSUME NEW f \in Orders, Claim(f) PROVE OrderLeads(e) /\ orders'[e].filled = orders[e].filled
    BY <1>1, <2>2 DEF Claim, Unclaimed, TypeOK, Dispatch, OrderDispatch, OrderLeads, Agrees, NewOrder
  <2>3. ASSUME NEW f \in Orders, NotSent(f) PROVE OrderLeads(e) /\ orders'[e].filled = orders[e].filled
    <3>1. CASE e # f
      BY <2>3, <3>1 DEF NotSent, TypeOK, OrderLeads
    <3>2. CASE e = f
      <4>1. orders[e].state = "PENDING" /\ orders[e].filled = 0 /\ "REJECTED" \in Ends(e)
        BY <2>3, <3>2 DEF NotSent, LaneAt, Dispatch, LaneDispatch, Ends, TypeOK
      <4>2. orders'[e] = AfterRejected(orders[e])
        BY <2>3, <3>2, <4>1 DEF NotSent, AfterRejected, Reopened, TypeOK
      <4>3. Leads(orders[e], orders'[e], {"REJECTED"}) /\ orders'[e].filled = 0
        BY <1>1, <4>1, <4>2, RejectedLeads
      <4> QED
        BY <4>1, <4>3 DEF OrderLeads, Leads
    <3> QED
      BY <3>1, <3>2
  <2>4. ASSUME NEW f \in Orders, Uncertain(f), Sent(f)
        PROVE  OrderLeads(e) /\ orders'[e].filled = orders[e].filled
    <3>1. CASE e # f
      BY <2>4, <3>1 DEF Uncertain, TypeOK, OrderLeads
    <3>2. CASE e = f
      <4>1. orders'[e] = Doubted(orders[e]) /\ orders[e].state # "PREVIEWED"
        BY <1>1, <2>4, <3>2 DEF Uncertain, Sent, TypeOK
      <4>2. Leads(orders[e], orders'[e], {}) /\ orders'[e].filled = orders[e].filled
        BY <1>1, <4>1, DecisionsLead
      <4> QED
        BY <4>1, <4>2 DEF OrderLeads, Leads
    <3> QED
      BY <3>1, <3>2
  <2>5. ASSUME NEW f \in Orders, ReturnRejects(f) \/ CollectRejects(f)
        PROVE  OrderLeads(e) /\ orders'[e].filled = orders[e].filled
    <3>1. sends[f] = 1
      BY <2>5 DEF ReturnRejects, CollectRejects, LaneAt, Dispatch, LaneDispatch
    <3> QED
      BY <2>5, <3>1, ReturnLeads DEF ReturnRejects, CollectRejects
  <2>6. ASSUME NEW f \in Orders, ClaimCancel(f) PROVE OrderLeads(e) /\ orders'[e].filled = orders[e].filled
    <3>1. CASE e # f
      BY <2>6, <3>1 DEF ClaimCancel, TypeOK, OrderLeads
    <3>2. CASE e = f
      <4>1. /\ orders'[e] = Step(orders[e], "CANCEL_REQUESTED", 0)
            /\ orders[e].state \notin TERMINAL \cup {"PREVIEWED"}
        BY <1>1, <2>6, <3>2 DEF ClaimCancel, MayCancel, TypeOK, Dispatch, OrderDispatch, Sent
      <4>2. Leads(orders[e], orders'[e], {}) /\ orders'[e].filled = orders[e].filled
        BY <1>1, <4>1, ClaimLeads
      <4> QED
        BY <4>1, <4>2 DEF OrderLeads, Leads
    <3> QED
      BY <3>1, <3>2
  <2>7. ASSUME NEW answers \in [Orders -> Answer], Reconcile(answers)
        PROVE  OrderLeads(e) /\ orders'[e].filled = orders[e].filled
    BY <2>7, ReconcileLeads
  <2>8. ASSUME Restart PROVE OrderLeads(e) /\ orders'[e].filled = orders[e].filled
    <3>1. orders'[e] = AfterStartup(orders[e])
      BY <2>8 DEF Restart
    <3>2. CASE orders[e].state = "PREVIEWED"
      BY <1>1, <3>1, <3>2, CallersState DEF OrderLeads
    <3>3. CASE orders[e].state # "PREVIEWED"
      <4>1. Leads(orders[e], orders'[e], {}) /\ orders'[e].filled = orders[e].filled
        BY <1>1, <3>1, <3>3, DecisionsLead
      <4> QED
        BY <3>3, <4>1 DEF OrderLeads, Leads
    <3> QED
      BY <3>2, <3>3
  <2>9. ASSUME NEW f \in Orders, LaneUncertain(f) PROVE Uncertain(f) /\ Sent(f)
    BY <2>9 DEF LaneUncertain, LaneAt, Dispatch, LaneDispatch
  <2>10. ASSUME NEW t \in Threads, NEW o \in Observation, ApplyConflicts(t, o)
         PROVE  Uncertain(o.order) /\ Sent(o.order) /\ o.order \in Orders
    <3>1. o \in recorded /\ bound[o.order]
      BY <2>10 DEF ApplyConflicts, TypeOK, Dispatch, HandsDispatch
    <3> QED
      BY <2>10, <3>1, HandIsTrue DEF ApplyConflicts
  <2> QED
    BY <1>3, <2>1, <2>2, <2>3, <2>4, <2>5, <2>6, <2>7, <2>8, <2>9, <2>10, OrderSteps
<1>4. ASSUME ~ \E t \in Threads, o \in Observation : Apply(t, o) PROVE Total(e)' = Total(e)
  BY <1>4, EvidenceSteps DEF Total, evidence, Ingest, CallbackRecords
<1> QED
  BY <1>1, <1>2, <1>3, <1>4

LEMMA ShownNext == TypeOK /\ Dispatch /\ Told /\ Shown /\ [Next]_vars => Shown'
<1> SUFFICES ASSUME TypeOK, Dispatch, Told, Shown, [Next]_vars, NEW e \in Orders
             PROVE  ShownOrder(e)'
  BY DEF Shown
<1>1. OrderLeads(e) /\ orders'[e].filled = Total(e)'
  BY EveryStepLeads
<1>2. ShownOrder(e)
  BY DEF Shown
<1>3. Agrees(orders[e])'
  BY <1>1, <1>2, RuntimeAssumption DEF OrderLeads, Leads, ShownOrder, Agrees, NewOrder
<1>4. stage[e] = "NOT_SENT" => stage'[e] = "NOT_SENT"
  BY MarkSteps DEF Claim, Unclaimed, NotSent, MarkReturned, LaneAt, Dispatch, LaneDispatch,
     OrderDispatch, Sent
<1>5. EndTrue(e)'
  BY <1>1, <1>2, <1>4, BrokerOnlyAdds DEF OrderLeads, Leads, ShownOrder, EndTrue, Ends, NewOrder
<1>6. stage'[e] # "ABSENT" => orders'[e].state # "PREVIEWED"
  <2>1. CASE stage[e] # "ABSENT"
    BY <1>1, <1>2, <2>1 DEF OrderLeads, Leads, ShownOrder, NewOrder
  <2>2. CASE stage[e] = "ABSENT"
    <3>1. stage'[e] # "ABSENT" => Claim(e)
      BY <2>2, MarkSteps DEF NotSent, MarkReturned, LaneAt, Dispatch, LaneDispatch, OrderDispatch, Sent
    <3> QED
      BY <3>1 DEF Claim, NewOrder, TypeOK
  <2> QED
    BY <2>1, <2>2
<1>7. cancelStage'[e] # "NONE" => bound'[e] /\ orders'[e].cancelRequested
  <2>1. CASE cancelStage[e] # "NONE"
    <3>1. bound[e] /\ orders[e].cancelRequested /\ orders[e].state # "PREVIEWED"
      BY <1>2, <2>1 DEF ShownOrder, Dispatch, OrderDispatch, Sent
    <3> QED
      BY <1>1, <3>1, MarkSteps DEF OrderLeads, Leads
  <2>2. CASE cancelStage[e] = "NONE"
    <3>1. cancelStage'[e] # "NONE" => ClaimCancel(e)
      BY <2>2, MarkSteps DEF CancelReturns, LaneAt, Dispatch, LaneDispatch, OrderDispatch
    <3>2. ASSUME ClaimCancel(e) PROVE bound'[e] /\ orders'[e].cancelRequested
      <4>1. bound[e] /\ orders[e] \in OrderCore(Quantity)
            /\ orders[e].state \notin TERMINAL \cup {"PREVIEWED"}
        BY <1>2, <3>2 DEF ClaimCancel, MayCancel, ShownOrder, Dispatch, OrderDispatch, Sent, TypeOK
      <4>2. orders'[e] = Step(orders[e], "CANCEL_REQUESTED", 0)
        BY <3>2 DEF ClaimCancel, TypeOK
      <4> QED
        BY <1>2, <4>1, <4>2, ClaimLeads, MarkSteps DEF ShownOrder
    <3> QED
      BY <3>1, <3>2
  <2> QED
    BY <2>1, <2>2
<1> QED
  BY <1>1, <1>3, <1>5, <1>6, <1>7 DEF ShownOrder

LEMMA ShownAlways == Spec => [](TypeOK /\ Dispatch /\ Told /\ Shown)
<1>1. TypeOK /\ Dispatch /\ Told /\ Shown /\ [Next]_vars => (TypeOK /\ Dispatch /\ Told /\ Shown)'
  BY NextTypeOK, DispatchNext, ToldNext, ShownNext
<1> QED
  BY InitTypeOK, DispatchInit, ToldInit, ShownInit, <1>1, PTL DEF Spec

(* A fill is counted once, however many sources tell it, and never one     *)
(* that the broker did not make.                                           *)
THEOREM FillsCountedOnce == Spec => []FillsAreReal
<1>1. ASSUME TypeOK, Told, Shown PROVE FillsAreReal
  <2> SUFFICES ASSUME NEW e \in Orders
               PROVE  /\ orders[e].filled = Total(e) /\ Total(e) <= brokerFilled[e]
                      /\ \A k \in Deals : Cardinality({src \in Sources : <<e, k, src>> \in fills}) <= 1
    BY DEF FillsAreReal
  <2>1. orders[e].filled = Total(e) /\ Total(e) <= brokerFilled[e]
    BY <1>1, TotalBounded DEF Shown, ShownOrder
  <2>2. ASSUME NEW k \in Deals PROVE Cardinality({src \in Sources : <<e, k, src>> \in fills}) <= 1
    <3> DEFINE from == {src \in Sources : <<e, k, src>> \in fills}
    <3>1. \A src, other \in from : src = other
      BY <1>1 DEF Told, FillsTold
    <3> HIDE DEF from
    <3>2. CASE from = {}
      <4>1. Cardinality(from) = 0
        BY <3>2, FS_EmptySet
      <4> QED
        BY <4>1 DEF from
    <3>3. CASE from # {}
      <4>1. PICK src \in from : TRUE
        BY <3>3
      <4>2. from = {src}
        BY <3>1, <4>1
      <4>3. Cardinality(from) = 1
        BY <4>2, FS_Singleton
      <4> QED
        BY <4>3 DEF from
    <3> QED
      BY <3>2, <3>3
  <2> QED
    BY <2>1, <2>2
<1> QED
  BY <1>1, ShownAlways, PTL

(* FILLED, CANCELLED and REJECTED are the broker's ends, or NOT_SENT:      *)
(* nothing local ends an order that was sent.                              *)
THEOREM EndsAreTrue == Spec => []EndIsTrue
<1>1. ASSUME TypeOK, Told, Shown PROVE EndIsTrue
  <2> SUFFICES ASSUME NEW e \in Orders
               PROVE  /\ orders[e].state = "FILLED" => brokerFilled[e] = Quantity
                      /\ orders[e].state = "CANCELLED" => broker[e] = "cancelled"
                      /\ orders[e].state = "REJECTED" => broker[e] = "rejected" \/ stage[e] = "NOT_SENT"
    BY DEF EndIsTrue
  <2>1. ShownOrder(e) /\ Total(e) <= brokerFilled[e] /\ brokerFilled[e] \in 0 .. Quantity
    BY <1>1, TotalBounded DEF Shown, TypeOK
  <2> QED
    BY <2>1, RuntimeAssumption DEF ShownOrder, EndTrue, Agrees
<1> QED
  BY <1>1, ShownAlways, PTL

(* What is shown as filled only grows, and an end is left only when a late *)
(* deal completes a cancelled order.                                       *)
THEOREM EndsStay == Spec => EndsAreKept
<1> DEFINE Kept ==
      \A e \in Orders :
        /\ orders'[e].filled >= orders[e].filled
        /\ orders[e].state \in {"FILLED", "REJECTED"} => orders'[e].state = orders[e].state
        /\ orders[e].state = "CANCELLED" => orders'[e].state \in {"CANCELLED", "FILLED"}
<1>1. ASSUME TypeOK, Dispatch, Told, Shown, [Next]_vars, NEW e \in Orders
      PROVE  /\ orders'[e].filled >= orders[e].filled
             /\ orders[e].state \in {"FILLED", "REJECTED"} => orders'[e].state = orders[e].state
             /\ orders[e].state = "CANCELLED" => orders'[e].state \in {"CANCELLED", "FILLED"}
  <2>1. OrderLeads(e) /\ orders'[e].filled = Total(e)'
    BY <1>1, EveryStepLeads
  <2>2. Total(e)' >= Total(e)
    <3>1. Total(e) \in Nat
      BY <1>1, TotalBounded
    <3>2. CASE \E t \in Threads, o \in Observation : Apply(t, o)
      BY <1>1, <3>1, <3>2, TotalSteps
    <3>3. CASE ~ \E t \in Threads, o \in Observation : Apply(t, o)
      <4>1. Total(e)' = Total(e)
        BY <1>1, <3>3, EvidenceSteps DEF Total, evidence, Ingest, CallbackRecords
      <4> QED
        BY <3>1, <4>1
    <3> QED
      BY <3>2, <3>3
  <2>3. orders[e].filled = Total(e)
    BY <1>1 DEF Shown, ShownOrder
  <2> QED
    BY <2>1, <2>2, <2>3 DEF OrderLeads, Leads
<1>2. TypeOK /\ Dispatch /\ Told /\ Shown /\ [Next]_vars => [Kept]_vars
  BY <1>1
<1> QED
  BY <1>2, ShownAlways, PTL DEF Spec, EndsAreKept

-----------------------------------------------------------------------------
(* The reducer refuses only what two sources tell differently. *)

LEMMA DealAdmitted ==
  ASSUME TypeOK, Dispatch, Told, Shown, NEW o \in recorded, bound[o.order], o.kind = "DEAL",
         TotalAfter(o) > orders[o.order].filled
  PROVE  Admits(Reopened(orders[o.order]), FillKind(TotalAfter(o)), TotalAfter(o), Quantity)
<1> DEFINE was == orders[o.order]
           r == Reopened(was)
           total == TotalAfter(o)
<1>1. was \in OrderCore(Quantity) /\ Agrees(was) /\ was.state # "PREVIEWED"
  BY HandIsTrue
<1>2. Leads(was, r, {}) /\ r.filled = was.filled /\ r \in OrderCore(Quantity)
  BY <1>1, DecisionsLead
<1>3. r.state \notin {"PREVIEWED", "UNKNOWN"}
  BY <1>1, <1>2 DEF Leads, Reopened, Step, Reduce, ApplyControl, ControlState, CONTROLS, OrderCore
<1>4. total \in 0 .. Quantity
  BY TotalType DEF TypeOK
<1>5. r.filled \in 0 .. Quantity
  BY <1>2 DEF OrderCore
<1> HIDE DEF total, r, was
<1>6. total > r.filled
  BY <1>2 DEF total, was
<1>7. Admits(r, FillKind(total), total, Quantity)
  <2>1. total >= r.filled /\ total \in 1 .. Quantity
    BY <1>4, <1>5, <1>6, RuntimeAssumption
  <2>2. CASE total = Quantity
    BY <1>3, <2>1, <2>2 DEF Admits, AdmitsReport, ReportTotal, FillKind, CONTROLS
  <2>3. CASE total # Quantity
    <3>1. total \in 1 .. Quantity - 1
      BY <2>1, <2>3, RuntimeAssumption
    <3> QED
      BY <1>3, <2>1, <2>3, <3>1 DEF Admits, AdmitsReport, ReportTotal, FillKind, CONTROLS
  <2> QED
    BY <2>2, <2>3
<1> QED
  BY <1>7 DEF total, r, was

LEMMA ConflictIsDispute ==
  ASSUME TypeOK, Dispatch, Told, Shown, NEW o \in recorded, bound[o.order]
  PROVE  Conflicts(o) <=> Disagrees(o)
<1> DEFINE was == orders[o.order]
<1>1. /\ was \in OrderCore(Quantity) /\ Agrees(was) /\ was.state # "PREVIEWED"
      /\ o.kind = "REJECTED" => was.filled = 0 /\ was.state # "CANCELLED"
  BY HandIsTrue
<1>2. CASE o.kind = "DEAL"
  BY <1>2, DealAdmitted DEF Conflicts, Disagrees
<1>3. CASE o.kind = "CANCELLED"
  <2> DEFINE r == Reopened(was)
             a == CancelAsked(r)
  <2>1. Leads(was, r, {}) /\ r \in OrderCore(Quantity) /\ r.state # "UNKNOWN"
    BY <1>1, DecisionsLead DEF Leads, Reopened, Step, Reduce, ApplyControl, ControlState, CONTROLS,
       OrderCore
  <2>2. Leads(r, a, {}) /\ a \in OrderCore(Quantity)
    BY <2>1, DecisionsLead DEF Leads
  <2>3. a.state # "UNKNOWN" /\ (a.cancelRequested \/ a.state \in {"FILLED", "REJECTED"})
    BY <2>1, <2>2 DEF CancelAsked, Step, Reduce, ApplyControl, ControlState, CONTROLS, TERMINAL,
       OrderCore, Leads, Agrees
  <2>4. ~Conflicts(o) \/ /\ a.state \notin {"FILLED", "REJECTED"}
                         /\ ~Admits(a, "CANCELLED", a.filled, Quantity)
    BY <1>3 DEF Conflicts
  <2> HIDE DEF r, a
  <2>5. a.state \notin {"FILLED", "REJECTED"} => Admits(a, "CANCELLED", a.filled, Quantity)
    BY <2>2, <2>3, RuntimeAssumption
       DEF Leads, Admits, AdmitsReport, ReportTotal, CONTROLS, OrderCore
  <2> QED
    BY <1>3, <2>4, <2>5 DEF Disagrees
<1>4. CASE o.kind = "REJECTED"
  <2>1. CanReject(was)
    BY <1>1, <1>4, RejectedLeads
  <2> QED
    BY <1>4, <2>1 DEF Conflicts, Disagrees
<1>5. CASE o.kind \in {"PENDING", "ACCEPTED", "CANCEL_ACK", "UNCERTAIN"}
  BY <1>5 DEF Conflicts, Disagrees
<1>6. o \in Observation
  BY DEF TypeOK
<1> QED
  BY <1>2, <1>3, <1>4, <1>5, <1>6 DEF Observation

(* In whatever order callbacks and reports of an order come, only two      *)
(* sources that tell one deal differently make a conflict.                 *)
THEOREM ReducerRefusesNothingElse == Spec => []OnlyDisputesConflict
<1>1. TypeOK /\ Dispatch /\ Told /\ Shown => OnlyDisputesConflict
  BY ConflictIsDispute DEF OnlyDisputesConflict, Disagrees
<1> QED
  BY <1>1, ShownAlways, PTL

-----------------------------------------------------------------------------
(* Settled. *)

(* Doubt is lifted by a proof that nothing was sent, or by a query that    *)
(* resolves the order.                                                     *)
LEMMA DoubtSteps ==
  ASSUME TypeOK, [Next]_vars, NEW e \in Orders, doubtful[e], ~doubtful'[e]
  PROVE  \/ NotSent(e)
         \/ \E answers \in [Orders -> Answer] : Reconcile(answers) /\ Resolves(e, answers[e])
<1>1. ~ UNCHANGED doubtful
  OBVIOUS
<1>2. ASSUME NEW f \in Orders, Submitting(f) PROVE NotSent(e)
  BY <1>1, <1>2 DEF Submitting, Claim, NotSent, SendRaises, Send, LaneUncertain, Uncertain, ReturnBinds,
     ReturnWithoutId, ReturnRejects, MarkReturned, rows, TypeOK
<1>3. ASSUME NEW f \in Orders, Cancelling(f) PROVE FALSE
  BY <1>1, <1>3 DEF Cancelling, ClaimCancel, CancelRaises, SendCancel, CancelReturns, rows, TypeOK
<1>4. ASSUME Querying
      PROVE  \E answers \in [Orders -> Answer] : Reconcile(answers) /\ Resolves(e, answers[e])
  <2>1. ~QueryFails
    BY DEF QueryFails, DoubtAll
  <2>2. PICK answers \in [Orders -> Answer] : Reconcile(answers)
    BY <1>1, <1>4, <2>1 DEF Querying, StartQuery, QueryReads, ReturnsRaise, CollectBinds,
       CollectWithoutId, CollectRejects, Ingest, rows
  <2>3. Resolves(e, answers[e])
    BY <2>2 DEF Reconcile
  <2> QED
    BY <2>2, <2>3
<1>5. ASSUME Callback PROVE FALSE
  BY <1>1, <1>5 DEF Callback, CallbackUnresolved, DoubtAll, CallbackRecords, rows
<1>6. ASSUME NEW t \in Threads, Draining(t) PROVE FALSE
  BY <1>1, <1>6 DEF Draining, DrainSelects, Apply, AlreadyApplied, ApplyConflicts, Uncertain, rows, TypeOK
<1>7. ASSUME Reconnect \/ Crash \/ Restart PROVE FALSE
  BY <1>1, <1>7 DEF Reconnect, Crash, Restart, DoubtAll, rows
<1>8. ASSUME NEW f \in Orders, BrokerFills(f) \/ BrokerCancels(f) PROVE FALSE
  BY <1>1, <1>8 DEF BrokerFills, BrokerCancels, rows
<1> QED
  BY <1>1, <1>2, <1>3, <1>4, <1>5, <1>6, <1>7, <1>8 DEF Next, vars, rows

(* An order out of doubt that stays out of it keeps its state, unless its  *)
(* trade object shows a rejection.                                         *)
LEMMA ClearSteps ==
  ASSUME TypeOK, Dispatch, Told, Shown, [Next]_vars, NEW e \in Orders,
         Sent(e), Sent(e)', ~doubtful'[e], orders[e].state # "UNKNOWN", orders'[e] # orders[e]
  PROVE  broker[e] = "rejected"
<1>1. ASSUME NEW f \in Orders, ReturnRejects(f) \/ CollectRejects(f) PROVE broker[e] = "rejected"
  <2>1. sends[f] = 1
    BY <1>1 DEF ReturnRejects, CollectRejects, LaneAt, Dispatch, LaneDispatch
  <2> QED
    BY <1>1, <2>1, ReturnLeads DEF ReturnRejects, CollectRejects
<1>2. ASSUME NEW f \in Orders, Claim(f) \/ NotSent(f) PROVE FALSE
  BY <1>2 DEF Claim, Unclaimed, NotSent, Sent, TypeOK
<1>3. ASSUME NEW f \in Orders, LaneUncertain(f) \/ ClaimCancel(f) PROVE FALSE
  BY <1>3 DEF LaneUncertain, Uncertain, ClaimCancel, TypeOK
<1>4. ASSUME NEW answers \in [Orders -> Answer], Reconcile(answers) PROVE FALSE
  BY <1>4 DEF Reconcile, AfterAnswer
<1>5. ASSUME NEW t \in Threads, NEW o \in Observation, Apply(t, o) \/ ApplyConflicts(t, o) PROVE FALSE
  BY <1>5 DEF Apply, ApplyConflicts, Uncertain, TypeOK
<1>6. ASSUME Restart PROVE FALSE
  BY <1>6 DEF Restart, DoubtAll, Sent
<1> QED
  BY <1>1, <1>2, <1>3, <1>4, <1>5, <1>6, OrderSteps

(* What a query resolves, the broker has, and its state is a fate.         *)
LEMMA ResolvedIsSettled ==
  ASSUME TypeOK, Dispatch, Told, NEW answers \in [Orders -> Answer], Reconcile(answers),
         NEW e \in Orders, Resolves(e, answers[e])
  PROVE  /\ bound[e] /\ broker[e] \in {"live", "cancelled"}
         /\ orders'[e].state \in {"ACCEPTED", "PARTIALLY_FILLED", "CANCELLED", "FILLED"}
<1>1. bound[e] /\ answers[e].kind \in {"ACCEPTED", "PARTIAL_FILL", "FILLED", "CANCELLED"}
  BY DEF Resolves, Corroborated, Answer
<1>2. orders'[e].state \in Expected(answers[e].kind)
  BY DEF Reconcile, Resolves
<1>3. Fate(e, answers[e])
  BY DEF Reconcile
<1>4. Seen(e, "ACCEPTED", "REPORT") \in recorded \/ Seen(e, "CANCELLED", "REPORT") \in recorded
  BY <1>1, <1>3 DEF Fate
<1>5. broker[e] \in {"live", "cancelled"}
  BY <1>4 DEF Told, Said, Seen
<1> QED
  BY <1>1, <1>2, <1>5 DEF Expected

LEMMA SettledNext == TypeOK /\ Dispatch /\ Told /\ Shown /\ Settled /\ [Next]_vars => Settled'
<1> SUFFICES ASSUME TypeOK, Dispatch, Told, Shown, Settled, [Next]_vars, NEW e \in Orders
             PROVE  SettledOrder(e)'
  BY DEF Settled
<1>1. SettledOrder(e) /\ ShownOrder(e)
  BY DEF Settled, Shown
<1>2. stage[e] = "NOT_SENT" => stage'[e] = "NOT_SENT"
  BY MarkSteps DEF Claim, Unclaimed, NotSent, MarkReturned, LaneAt, Dispatch, LaneDispatch,
     OrderDispatch, Sent
<1>3. stage'[e] = "ABSENT" => stage[e] = "ABSENT"
  BY MarkSteps DEF Claim, NotSent, MarkReturned, TypeOK
<1>4. stage'[e] = "ABSENT" => doubtful'[e]
  BY <1>1, <1>3, DoubtSteps DEF SettledOrder, NotSent, Resolves, Corroborated, Dispatch,
     OrderDispatch, Sent
<1>5. ASSUME Sent(e)', ~doubtful'[e]
      PROVE  /\ bound'[e] /\ broker'[e] \in {"live", "cancelled"}
             /\ orders'[e].state \in {"ACCEPTED", "PARTIALLY_FILLED", "CANCELLED", "FILLED"}
  <2>1. CASE doubtful[e]
    <3>1. ~NotSent(e)
      BY <1>5 DEF NotSent, Sent, TypeOK
    <3>2. PICK answers \in [Orders -> Answer] : Reconcile(answers) /\ Resolves(e, answers[e])
      BY <1>5, <2>1, <3>1, DoubtSteps
    <3> QED
      BY <3>2, ResolvedIsSettled, MarkSteps, BrokerOnlyAdds
  <2>2. CASE ~doubtful[e]
    <3>1. Sent(e)
      BY <1>1, <1>2, <1>5, <2>2 DEF SettledOrder, Sent, TypeOK, Stages
    <3>2. /\ bound[e] /\ broker[e] \in {"live", "cancelled"}
          /\ orders[e].state \in {"ACCEPTED", "PARTIALLY_FILLED", "CANCELLED", "FILLED"}
      BY <1>1, <2>2, <3>1 DEF SettledOrder
    <3>3. orders'[e] = orders[e]
      BY <1>5, <3>1, <3>2, ClearSteps
    <3> QED
      BY <3>2, <3>3, MarkSteps, BrokerOnlyAdds
  <2> QED
    BY <2>1, <2>2
<1> QED
  BY <1>4, <1>5 DEF SettledOrder

LEMMA SettledInit == Init => Settled
BY DEF Init, Settled, SettledOrder, Sent

LEMMA SettledAlways == Spec => [](TypeOK /\ Dispatch /\ Told /\ Shown /\ Settled)
<1>1. TypeOK /\ Dispatch /\ Told /\ Shown /\ Settled /\ [Next]_vars => Settled'
  BY SettledNext
<1> QED
  BY ShownAlways, SettledInit, <1>1, PTL DEF Spec

(* An order that is sent and out of doubt is bound, in a fate that a query *)
(* corroborated, and not in a cancel that was asked and not answered.      *)
THEOREM SettledIsExplained == Spec => []SettledMeansExplained
<1>1. TypeOK /\ Dispatch /\ Told /\ Shown /\ Settled => SettledMeansExplained
  BY DEF Shown, ShownOrder, Agrees, Settled, SettledOrder, SettledMeansExplained
<1> QED
  BY <1>1, SettledAlways, PTL

-----------------------------------------------------------------------------
(* Held. *)

(* Where the lane stands while a claim of its own is in progress. *)
InProgress == {"claimed", "sent", "bound", "returned", "uncertain"}

(* The lane stays with an order that it claimed and that shows PENDING.    *)
LEMMA LaneStays ==
  ASSUME TypeOK, Dispatch, Told, Shown, [Next]_vars, NEW e \in Orders,
         lane.order = e, lane.at \in InProgress,
         orders[e].state = "PENDING", orders'[e].state = "PENDING",
         stage'[e] = "CLAIMED", running'
  PROVE  lane'.order = e /\ lane'.at \in InProgress
<1> USE DEF InProgress
<1>1. CASE lane' = lane
  BY <1>1
<1>2. ASSUME NEW f \in Orders, Submitting(f) PROVE lane'.order = e /\ lane'.at \in InProgress
  <2>1. CASE ReturnRejects(f)
    <3>1. sends[f] = 1 /\ f = e /\ RejectedReturn(f, AtOrder("returned", f))
      BY <2>1 DEF ReturnRejects, LaneAt, Dispatch, LaneDispatch
    <3>2. lane' = AtOrder("returned", f)
      BY <3>1, ReturnLeads
    <3> QED
      BY <3>1, <3>2 DEF AtOrder
  <2>2. CASE LaneUncertain(f)
    BY <2>2 DEF LaneUncertain, Uncertain, LaneAt, Doubted, Step, Reduce, ApplyControl, ControlState,
       CONTROLS, TERMINAL, TypeOK, OrderCore
  <2>3. CASE Claim(f) \/ NotSent(f) \/ MarkReturned(f)
    BY <2>3 DEF Claim, NotSent, MarkReturned, LaneAt, TypeOK
  <2>4. CASE SendRaises(f) \/ ReturnBinds(f) \/ ReturnWithoutId(f)
    <3>1. f = e /\ lane' \in {AtOrder("bound", f), AtOrder("uncertain", f)}
      BY <2>4 DEF SendRaises, ReturnBinds, ReturnWithoutId, LaneAt
    <3> QED
      BY <3>1 DEF AtOrder
  <2>5. ASSUME NEW outcome \in {"live", "rejected"}, Send(f, outcome)
        PROVE  lane'.order = e /\ lane'.at \in InProgress
    <3>1. f = e /\ lane' \in {AtOrder("sent", f), AtOrder("uncertain", f)}
      BY <2>5 DEF Send, LaneAt
    <3> QED
      BY <3>1 DEF AtOrder
  <2> QED
    BY <1>2, <2>1, <2>2, <2>3, <2>4, <2>5 DEF Submitting
<1>3. ASSUME NEW f \in Orders, Cancelling(f) PROVE FALSE
  BY <1>3 DEF Cancelling, ClaimCancel, CancelRaises, SendCancel, CancelReturns, LaneAt
<1>4. ASSUME Querying PROVE FALSE
  BY <1>4 DEF Querying, StartQuery, QueryFails, QueryReads, ReturnsRaise, CollectBinds,
     CollectWithoutId, CollectRejects, Ingest, Reconcile, LaneAt
<1>5. ASSUME Callback PROVE lane' = lane
  BY <1>5 DEF Callback, CallbackUnresolved, CallbackRecords
<1>6. ASSUME NEW t \in Threads, Draining(t) PROVE lane' = lane
  BY <1>6 DEF Draining, DrainSelects, Apply, AlreadyApplied, ApplyConflicts
<1>7. ASSUME Reconnect \/ Crash PROVE FALSE
  BY <1>7 DEF Reconnect, Crash, LaneAt
<1>8. ASSUME Restart PROVE FALSE
  BY <1>8 DEF Restart, AfterStartup, Step, Reduce, ApplyControl, ControlState, CONTROLS, TypeOK, OrderCore
<1>9. ASSUME NEW f \in Orders, BrokerFills(f) \/ BrokerCancels(f) PROVE lane' = lane
  BY <1>9 DEF BrokerFills, BrokerCancels
<1> QED
  BY <1>1, <1>2, <1>3, <1>4, <1>5, <1>6, <1>7, <1>8, <1>9 DEF Next, vars

(* Only a restart brings the process up.                                   *)
LEMMA OnlyRestartRuns ==
  ASSUME [Next]_vars, ~running, running'
  PROVE  Restart
BY DEF Next, vars, beyond, Submitting, Claim, NotSent, SendRaises, Send, LaneUncertain, ReturnBinds,
   ReturnWithoutId, ReturnRejects, MarkReturned, Cancelling, ClaimCancel, CancelRaises, SendCancel,
   CancelReturns, Querying, StartQuery, QueryFails, QueryReads, ReturnsRaise, CollectBinds,
   CollectWithoutId, CollectRejects, Ingest, Reconcile, Callback, CallbackUnresolved,
   CallbackRecords, Draining, DrainSelects, Apply, AlreadyApplied, ApplyConflicts, Reconnect, Crash,
   BrokerFills, BrokerCancels, LaneAt

LEMMA HeldNext == TypeOK /\ Dispatch /\ Told /\ Shown /\ Held /\ [Next]_vars => Held'
<1> SUFFICES ASSUME TypeOK, Dispatch, Told, Shown, Held, [Next]_vars, NEW e \in Orders,
                    running', stage'[e] = "CLAIMED", orders'[e].state = "PENDING"
             PROVE  lane'.order = e /\ lane'.at \in InProgress
  BY DEF Held, HeldOrder, InProgress
<1>1. CASE Claim(e)
  BY <1>1 DEF Claim, AtOrder, InProgress
<1>2. CASE ~Claim(e)
  <2>1. stage[e] = "CLAIMED"
    BY <1>2, MarkSteps DEF NotSent, MarkReturned, TypeOK
  <2>2. orders[e].state = "PENDING"
    <3>1. orders[e].state # "PREVIEWED"
      BY <2>1 DEF Shown, ShownOrder
    <3> QED
      BY <3>1, EveryStepLeads DEF OrderLeads, Leads
  <2>3. running
    <3>1. orders[e] \in OrderCore(Quantity)
      BY DEF TypeOK
    <3>2. AfterStartup(orders[e]).state = "UNKNOWN"
      BY <2>2, <3>1 DEF AfterStartup, Step, Reduce, ApplyControl, ControlState, CONTROLS, OrderCore
    <3>3. ~Restart
      BY <3>2 DEF Restart
    <3> QED
      BY <3>3, OnlyRestartRuns
  <2>4. lane.order = e /\ lane.at \in InProgress
    BY <2>1, <2>2, <2>3 DEF Held, HeldOrder, InProgress
  <2> QED
    BY <2>2, <2>4, LaneStays
<1> QED
  BY <1>1, <1>2

LEMMA HeldInit == Init => Held
BY DEF Init, Held, HeldOrder

(* While the process is up, an order that is CLAIMED and PENDING is the    *)
(* one that the lane is sending: an abandoned claim shows UNKNOWN.         *)
THEOREM ClaimsAreHeld == Spec => []NoSilentClaim
<1>1. TypeOK /\ Dispatch /\ Told /\ Shown /\ Held /\ [Next]_vars => Held'
  BY HeldNext
<1>2. Held => NoSilentClaim
  BY DEF Held, HeldOrder, NoSilentClaim
<1> QED
  BY <1>1, <1>2, HeldInit, ShownAlways, PTL DEF Spec

-----------------------------------------------------------------------------
(* InHand. *)

LEMMA DrainSteps ==
  ASSUME [Next]_vars
  PROVE  \/ UNCHANGED <<drains, bound, recorded, applied, fills>> /\ ~Crash
         \/ \E e \in Orders : ReturnBinds(e) \/ CollectBinds(e)
         \/ \E o \in Observation : Ingest(o) \/ CallbackRecords(o)
         \/ \E t \in Threads : Draining(t)
         \/ Crash
<1> DEFINE Same == UNCHANGED <<drains, bound, recorded, applied, fills>>
<1>1. CASE UNCHANGED vars
  BY <1>1 DEF vars, rows, evidence
<1>2. ASSUME NEW e \in Orders, Submitting(e), ~ReturnBinds(e) PROVE Same
  BY <1>2 DEF Submitting, Claim, NotSent, SendRaises, Send, LaneUncertain, ReturnWithoutId,
     ReturnRejects, MarkReturned, rows, evidence
<1>3. ASSUME NEW e \in Orders, Cancelling(e) PROVE Same
  BY <1>3 DEF Cancelling, ClaimCancel, CancelRaises, SendCancel, CancelReturns, rows, evidence
<1>4. ASSUME Querying, ~ \E e \in Orders : CollectBinds(e), ~ \E o \in Observation : Ingest(o) PROVE Same
  BY <1>4 DEF Querying, StartQuery, QueryFails, QueryReads, ReturnsRaise, CollectWithoutId,
     CollectRejects, Reconcile, rows, evidence
<1>5. ASSUME CallbackUnresolved PROVE Same
  BY <1>5 DEF CallbackUnresolved, rows, evidence
<1>6. ASSUME Reconnect \/ Restart PROVE Same
  BY <1>6 DEF Reconnect, Restart, rows, evidence
<1>7. ASSUME NEW e \in Orders, BrokerFills(e) \/ BrokerCancels(e) PROVE Same
  BY <1>7 DEF BrokerFills, BrokerCancels, rows, evidence
<1> QED
  BY <1>1, <1>2, <1>3, <1>4, <1>5, <1>6, <1>7 DEF Next, Callback

(* Doubt stays with an order for as long as it has something to apply.     *)
LEMMA DoubtKept ==
  ASSUME TypeOK, [Next]_vars, NEW o \in recorded \ applied, bound[o.order], doubtful[o.order]
  PROVE  doubtful'[o.order]
<1>1. o.order \in Orders /\ o \in Unapplied(o.order)
  BY DEF TypeOK, Observation, Unapplied
<1> QED
  BY <1>1, DoubtSteps DEF NotSent, Resolves, Corroborated

LEMMA CrashesOnlyGrow ==
  ASSUME TypeOK, [Next]_vars, crashes' = 0
  PROVE  crashes = 0 /\ ~Crash
<1>1. ~Crash
  BY DEF Crash, TypeOK
<1>2. UNCHANGED crashes
  BY <1>1 DEF Next, vars, beyond, counters, Submitting, Claim, NotSent, SendRaises, Send,
     LaneUncertain, ReturnBinds, ReturnWithoutId, ReturnRejects, MarkReturned, Cancelling,
     ClaimCancel, CancelRaises, SendCancel, CancelReturns, Querying, StartQuery, QueryFails,
     QueryReads, ReturnsRaise, CollectBinds, CollectWithoutId, CollectRejects, Ingest, Reconcile,
     Callback, CallbackUnresolved, CallbackRecords, Draining, DrainSelects, Apply, AlreadyApplied,
     ApplyConflicts, Reconnect, Restart, BrokerFills, BrokerCancels
<1> QED
  BY <1>1, <1>2

Waits == \A t \in Threads : drainKey[t] # NoOrder => draining[t] = {}

LEMMA WaitsNext == TypeOK /\ Waits /\ [Next]_vars => Waits'
<1> SUFFICES ASSUME TypeOK, Waits, [Next]_vars PROVE Waits'
  OBVIOUS
<1>1. CASE UNCHANGED drains
  BY <1>1 DEF drains, Waits
<1>2. ASSUME NEW e \in Orders, ReturnBinds(e) \/ CollectBinds(e) PROVE Waits'
  BY <1>2 DEF ReturnBinds, CollectBinds, Bind, DrainNext, LaneAt, Free, Waits, TypeOK
<1>3. ASSUME NEW o \in Observation, Ingest(o) \/ CallbackRecords(o) PROVE Waits'
  BY <1>3 DEF Ingest, IngestDrains, CallbackRecords, DrainNext, LaneAt, Free, Waits, TypeOK
<1>4. ASSUME NEW t \in Threads, DrainSelects(t) PROVE Waits'
  BY <1>4 DEF DrainSelects, DrainNext, Waits, TypeOK
<1>5. ASSUME NEW t \in Threads, NEW o \in Observation, Apply(t, o) \/ AlreadyApplied(t, o) \/ ApplyConflicts(t, o)
      PROVE  Waits'
  BY <1>5 DEF Apply, AlreadyApplied, ApplyConflicts, Drained, Waits, TypeOK
<1>6. CASE Crash
  BY <1>6 DEF Crash, Waits
<1> QED
  BY <1>1, <1>2, <1>3, <1>4, <1>5, <1>6, DrainSteps DEF Draining

(* Where an observation of a bound order is that is not applied. *)
Kept(o) ==
  \/ \E t \in Threads : drainKey[t] = o.order \/ o \in draining[t]
  \/ Disagrees(o) /\ doubtful[o.order]

(* What one thread has in hand stays there until the step that applies it, *)
(* finds it applied, or refuses it.                                        *)
LEMMA DrainingKeepsAll ==
  ASSUME TypeOK, Dispatch, Told, Shown, Waits, NEW t \in Threads, Draining(t), [Next]_vars,
         NEW o \in recorded, o \notin applied', bound[o.order], Kept(o)
  PROVE  Kept(o)'
<1>1. o \notin applied
  BY DEF Draining, DrainSelects, Apply, AlreadyApplied, ApplyConflicts, evidence
<1>2. Disagrees(o) => Disagrees(o)'
  BY DEF Draining, DrainSelects, Apply, AlreadyApplied, ApplyConflicts, evidence, FillsAfter, Disagrees
<1>3. CASE Disagrees(o) /\ doubtful[o.order]
  BY <1>1, <1>2, <1>3, DoubtKept DEF Kept
<1>4. ASSUME NEW u \in Threads, drainKey[u] = o.order \/ o \in draining[u] PROVE Kept(o)'
  <2>0. o.order \in Orders /\ o.order # NoOrder
    BY RuntimeAssumption DEF TypeOK, Observation
  <2>1. CASE DrainSelects(t)
    <3>1. CASE u = t
      <4>1. drainKey[t] = o.order
        BY <1>4, <2>1, <3>1 DEF DrainSelects, Waits
      <4>2. o \in draining'[t]
        BY <1>1, <2>1, <4>1 DEF DrainSelects, Unapplied, TypeOK
      <4> QED
        BY <4>2 DEF Kept
    <3>2. CASE u # t
      BY <1>4, <2>1, <3>2 DEF DrainSelects, DrainNext, Kept, TypeOK
    <3> QED
      BY <3>1, <3>2
  <2>2. ASSUME NEW x \in Observation, Apply(t, x) \/ AlreadyApplied(t, x), x # o PROVE Kept(o)'
    <3>1. drainKey'[u] = drainKey[u] /\ (o \in draining[u] => o \in draining'[u])
      BY <2>2 DEF Apply, AlreadyApplied, Drained, TypeOK
    <3> QED
      BY <1>4, <3>1 DEF Kept
  <2>3. ASSUME NEW x \in Observation, Apply(t, x) \/ AlreadyApplied(t, x), x = o PROVE FALSE
    BY <1>1, <2>3 DEF Apply, AlreadyApplied
  <2>4. ASSUME NEW x \in Observation, ApplyConflicts(t, x), x # o PROVE Kept(o)'
    <3>1. drainKey'[u] = drainKey[u] /\ (o \in draining[u] => o \in draining'[u])
      BY <2>4 DEF ApplyConflicts, Drained, TypeOK
    <3> QED
      BY <1>4, <3>1 DEF Kept
  <2>5. ASSUME NEW x \in Observation, ApplyConflicts(t, x), x = o PROVE Kept(o)'
    <3>1. Disagrees(o)
      BY <2>5, ConflictIsDispute DEF ApplyConflicts
    <3>2. doubtful'[o.order]
      BY <2>0, <2>5 DEF ApplyConflicts, Uncertain, TypeOK
    <3> QED
      BY <1>2, <3>1, <3>2 DEF Kept
  <2> QED
    BY <2>1, <2>2, <2>3, <2>4, <2>5 DEF Draining
<1> QED
  BY <1>3, <1>4 DEF Kept

LEMMA InHandNext ==
  TypeOK /\ Dispatch /\ Told /\ Shown /\ InHand /\ [Next]_vars => InHand'
<1> SUFFICES ASSUME TypeOK, Dispatch, Told, Shown, InHand, [Next]_vars PROVE InHand'
  OBVIOUS
<1>1. Waits /\ Waits'
  BY WaitsNext DEF InHand, Waits
<1>2. ASSUME crashes' = 0, NEW o \in recorded' \ applied', bound'[o.order] PROVE Kept(o)'
  <2>1. crashes = 0 /\ ~Crash
    BY <1>2, CrashesOnlyGrow
  <2>2. o \in Observation
    BY <1>2, NextTypeOK DEF TypeOK
  <2>3. ASSUME o \in recorded, o \notin applied, bound[o.order] PROVE Kept(o)
    BY <2>1, <2>3 DEF InHand, Kept
  <2>4. CASE UNCHANGED <<drains, bound, recorded, applied, fills>>
    <3>1. Kept(o)
      BY <1>2, <2>3, <2>4
    <3>2. Disagrees(o) /\ doubtful[o.order] => (Disagrees(o) /\ doubtful[o.order])'
      BY <1>2, <2>4, DoubtKept DEF Disagrees
    <3> QED
      BY <2>4, <3>1, <3>2 DEF Kept, drains
  <2>5. ASSUME NEW e \in Orders, ReturnBinds(e) \/ CollectBinds(e) PROVE Kept(o)'
    <3>1. /\ drainKey' = [drainKey EXCEPT !["lane"] = e] /\ drainKey["lane"] = NoOrder
          /\ bound' = [bound EXCEPT ![e] = TRUE]
          /\ UNCHANGED <<draining, recorded, applied, fills, doubtful>>
      BY <2>5 DEF ReturnBinds, CollectBinds, Bind, DrainNext, LaneAt, Free, evidence
    <3>2. CASE o.order = e
      <4>1. drainKey'["lane"] = o.order
        BY <3>1, <3>2 DEF TypeOK, Threads
      <4> QED
        BY <4>1 DEF Kept, Threads
    <3>3. CASE o.order # e
      <4>1. Kept(o) /\ o.order # NoOrder
        BY <1>2, <2>2, <2>3, <3>1, <3>3, RuntimeAssumption DEF TypeOK, Observation
      <4> QED
        BY <3>1, <4>1 DEF Kept, Disagrees, TypeOK
    <3> QED
      BY <3>2, <3>3
  <2>6. ASSUME NEW x \in Observation, NEW t \in Threads, Free(t),
               recorded' = recorded \cup {x}, DrainNext(t, x.order),
               UNCHANGED <<draining, bound, applied, fills, doubtful>>
        PROVE  Kept(o)'
    <3>1. CASE o = x
      <4>1. drainKey'[t] = o.order
        BY <2>6, <3>1 DEF DrainNext, TypeOK
      <4> QED
        BY <4>1 DEF Kept
    <3>2. CASE o # x
      <4>1. Kept(o) /\ o.order # NoOrder
        BY <1>2, <2>2, <2>3, <2>6, <3>2, RuntimeAssumption DEF Observation
      <4> QED
        BY <2>6, <4>1 DEF Kept, Disagrees, DrainNext, Free, TypeOK
    <3> QED
      BY <3>1, <3>2
  <2>7. ASSUME NEW t \in Threads, Draining(t) PROVE Kept(o)'
    <3>1. UNCHANGED <<bound, recorded>> /\ applied \subseteq applied'
      BY <2>7 DEF Draining, DrainSelects, Apply, AlreadyApplied, ApplyConflicts, rows, evidence
    <3> QED
      BY <1>1, <1>2, <2>3, <2>7, <3>1, DrainingKeepsAll
  <2>8. ASSUME NEW x \in Observation, Ingest(x) \/ CallbackRecords(x)
        PROVE  \E t \in Threads :
                 /\ Free(t) /\ recorded' = recorded \cup {x} /\ DrainNext(t, x.order)
                 /\ UNCHANGED <<draining, bound, applied, fills, doubtful>>
    BY <2>8 DEF Ingest, IngestDrains, CallbackRecords, LaneAt, Threads, rows
  <2> QED
    BY <2>1, <2>4, <2>5, <2>6, <2>7, <2>8, DrainSteps
<1> QED
  BY <1>1, <1>2 DEF InHand, Waits, Kept

LEMMA InHandInit == Init => InHand
BY DEF Init, InHand

(* While the process has not crashed, an observation recorded for a bound  *)
(* order is applied, in a thread's hands or about to be, or was refused as *)
(* a dispute that left its order in doubt.                                 *)
THEOREM NothingIsForgotten == Spec => []NothingForgotten
<1>1. TypeOK /\ Dispatch /\ Told /\ Shown /\ InHand /\ [Next]_vars => InHand'
  BY InHandNext
<1>2. TypeOK /\ Dispatch /\ Told /\ Shown /\ InHand => NothingForgotten
  BY ConflictIsDispute DEF InHand, NothingForgotten, Unapplied
<1> QED
  BY <1>1, <1>2, InHandInit, ShownAlways, PTL DEF Spec
=============================================================================

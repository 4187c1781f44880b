---------------------------- MODULE OfflineProofs ----------------------------
(***************************************************************************)
(* What holds of OfflineExecution for any quantity, any number of facts,   *)
(* sequences and instants, and any lifetime of a preview.                  *)
(***************************************************************************)
EXTENDS OfflineExecution, FiniteSetTheorems, TLAPS

(* Nothing was heard of a preview, and no report came before the admission. *)
PreviewOrder ==
  /\ order.state = "PREVIEWED" => events = {} /\ lastSequence = 0
  /\ \A f \in events : ~IsControl(f) => f.sequence > 0

OfflineInv ==
  TypeOK /\ StateAgreesWithFills /\ NewestReportWins /\ PreviewOrder /\ CancelledPreviewIsDead

-----------------------------------------------------------------------------
(* The reducer. *)

(* A control it admits changes the state and no quantity; what a state     *)
(* promises of the quantity is so again.                                   *)
Agrees(o) ==
  /\ o.state = "FILLED" => o.filled = Quantity
  /\ o.state \in {"PREVIEWED", "PENDING", "ACCEPTED", "REJECTED"} => o.filled = 0
  /\ o.state = "PARTIALLY_FILLED" => o.filled \in 1 .. Quantity - 1
  /\ o.state \in {"CANCELLED", "CANCEL_PENDING"} => o.cancelRequested /\ o.filled < Quantity

LEMMA ControlAgrees ==
  ASSUME NEW o \in OrderCore(Quantity), Agrees(o), NEW kind \in CONTROLS, AdmitsControl(o, kind)
  PROVE  /\ ApplyControl(o, kind) \in OrderCore(Quantity) /\ Agrees(ApplyControl(o, kind))
         /\ ApplyControl(o, kind).filled = o.filled
         /\ ApplyControl(o, kind).state # "PREVIEWED"
         /\ o.state = "PREVIEWED" => kind = "CANCEL_REQUESTED" /\ ApplyControl(o, kind).state = "CANCELLED"
<1> DEFINE state == ControlState(o, kind)
           p == ApplyControl(o, kind)
<1>0. Quantity \in Nat \ {0}
  BY OfflineAssumption
<1>1. /\ o.state \in Status \ TERMINAL /\ o.filled \in 0 .. Quantity /\ o.cancelRequested \in BOOLEAN
      /\ kind = "RECONCILE" => o.state = "UNKNOWN"
      /\ kind = "TIMEOUT" => o.state \notin {"PREVIEWED", "UNKNOWN"}
  BY DEF OrderCore, AdmitsControl
<1>2. /\ state \in {"RECONCILING", "UNKNOWN", "CANCELLED", "CANCEL_PENDING"}
      /\ state \in {"CANCELLED", "CANCEL_PENDING"} => kind = "CANCEL_REQUESTED" /\ o.filled < Quantity
      /\ o.state = "PREVIEWED" => kind = "CANCEL_REQUESTED" /\ state = "CANCELLED"
  BY <1>0, <1>1 DEF ControlState, CONTROLS, Status, TERMINAL, Agrees
<1>3. p \in OrderCore(Quantity) /\ p.state = state /\ p.filled = o.filled
      /\ p.cancelRequested = (o.cancelRequested \/ kind = "CANCEL_REQUESTED")
  BY <1>1, <1>2 DEF ApplyControl, OrderCore, Status
<1> HIDE DEF state, p
<1>4. Agrees(p)
  BY <1>2, <1>3 DEF Agrees
<1> QED
  BY <1>2, <1>3, <1>4 DEF p, state

(* A report it admits sets the quantity to its own, and the state to one    *)
(* that agrees with it.                                                    *)
LEMMA ReportAgrees ==
  ASSUME NEW o \in OrderCore(Quantity), Agrees(o), NEW kind \in Reports, NEW total \in 0 .. Quantity,
         AdmitsReport(o, kind, total, Quantity)
  PROVE  /\ ApplyReport(o, kind, total, Quantity) \in OrderCore(Quantity)
         /\ Agrees(ApplyReport(o, kind, total, Quantity))
         /\ ApplyReport(o, kind, total, Quantity).filled = total
         /\ ApplyReport(o, kind, total, Quantity).state # "PREVIEWED"
<1> DEFINE state == ReportState(o, kind, total, Quantity)
           p == ApplyReport(o, kind, total, Quantity)
<1>0. Quantity \in Nat \ {0}
  BY OfflineAssumption
<1>1. /\ o.state \in Status \ {"PREVIEWED", "UNKNOWN"} /\ o.filled \in 0 .. Quantity /\ o.cancelRequested \in BOOLEAN
      /\ total >= o.filled /\ ReportTotal(kind, total, Quantity)
      /\ kind = "CANCELLED" => o.cancelRequested
  BY DEF OrderCore, AdmitsReport
<1>2. /\ kind \in {"ACCEPTED", "REJECTED"} => total = 0
      /\ kind = "PARTIAL_FILL" => total \in 1 .. Quantity - 1
      /\ kind = "FILLED" => total = Quantity
  BY <1>1 DEF ReportTotal, Reports
<1>3. \/ o.state = "CANCELLED" /\ kind = "PARTIAL_FILL" /\ state = "CANCELLED"
      \/ state = "RECONCILING"
      \/ o.state = "FILLED" /\ state = "FILLED"
      \/ state = LiveState(o, kind, total, Quantity)
  BY DEF ReportState
<1>4. LiveState(o, kind, total, Quantity) =
        CASE kind = "ACCEPTED" -> IF o.cancelRequested THEN "CANCEL_PENDING" ELSE "ACCEPTED"
          [] kind = "PARTIAL_FILL" -> IF o.cancelRequested THEN "CANCEL_PENDING" ELSE "PARTIALLY_FILLED"
          [] kind = "FILLED" -> "FILLED"
          [] kind = "REJECTED" -> "REJECTED"
          [] kind = "CANCELLED" -> IF total = Quantity THEN "FILLED" ELSE "CANCELLED"
  BY DEF LiveState
<1>5. /\ state \in Status \ {"PREVIEWED", "PENDING", "UNKNOWN"}
      /\ state = "FILLED" => total = Quantity
      /\ state \in {"ACCEPTED", "REJECTED"} => total = 0
      /\ state = "PARTIALLY_FILLED" => total \in 1 .. Quantity - 1
      /\ state \in {"CANCELLED", "CANCEL_PENDING"} => o.cancelRequested /\ total < Quantity
  <2>1. CASE o.state = "CANCELLED" /\ kind = "PARTIAL_FILL" /\ state = "CANCELLED"
    BY <1>0, <1>1, <1>2, <2>1 DEF Agrees, Status
  <2>2. CASE state = "RECONCILING"
    BY <2>2 DEF Status
  <2>3. CASE o.state = "FILLED" /\ state = "FILLED"
    BY <1>0, <1>1, <2>3 DEF Agrees, Status
  <2>4. CASE state = LiveState(o, kind, total, Quantity)
    BY <1>0, <1>1, <1>2, <1>4, <2>4 DEF Status, Reports
  <2> QED
    BY <1>3, <2>1, <2>2, <2>3, <2>4
<1>6. p \in OrderCore(Quantity) /\ p.state = state /\ p.filled = total /\ p.cancelRequested = o.cancelRequested
  BY <1>1, <1>5 DEF ApplyReport, OrderCore
<1> HIDE DEF state, p
<1>7. Agrees(p)
  BY <1>5, <1>6 DEF Agrees
<1> QED
  BY <1>5, <1>6, <1>7 DEF p, state

(* What one fact that was applied does to the order. *)
LEMMA FactAgrees ==
  ASSUME OfflineInv, NEW f \in Fact, Admits(order, f.kind, f.total, Quantity),
         order' = Reduce(order, f.kind, f.total, Quantity)
  PROVE  /\ order' \in OrderCore(Quantity) /\ StateAgreesWithFills' /\ order'.state # "PREVIEWED"
         /\ order'.filled = IF IsControl(f) THEN order.filled ELSE f.total
         /\ IsControl(f) /\ order.state = "PREVIEWED" =>
              f.kind = "CANCEL_REQUESTED" /\ order'.state = "CANCELLED"
         /\ IsControl(f) => order.state \notin TERMINAL
<1>1. order \in OrderCore(Quantity) /\ Agrees(order)
  BY DEF OfflineInv, TypeOK, StateAgreesWithFills, Agrees
<1>2. f.kind \in EventKind /\ f.total \in 0 .. Quantity /\ EventKind = CONTROLS \cup Reports
  BY DEF Fact, EventKind
<1>3. Agrees(order') => StateAgreesWithFills'
  BY DEF Agrees, StateAgreesWithFills
<1>4. CASE f.kind \in CONTROLS
  <2>1. AdmitsControl(order, f.kind) /\ order' = ApplyControl(order, f.kind)
    BY <1>4 DEF Admits, Reduce
  <2>2. order.state \notin TERMINAL
    BY <2>1 DEF AdmitsControl
  <2> QED
    BY <1>1, <1>3, <1>4, <2>1, <2>2, ControlAgrees DEF IsControl
<1>5. CASE f.kind \notin CONTROLS
  <2>1. f.kind \in Reports /\ AdmitsReport(order, f.kind, f.total, Quantity)
        /\ order' = ApplyReport(order, f.kind, f.total, Quantity)
    BY <1>2, <1>5 DEF Admits, Reduce
  <2> QED
    BY <1>1, <1>2, <1>3, <1>5, <2>1, ReportAgrees DEF IsControl
<1> QED
  BY <1>4, <1>5

-----------------------------------------------------------------------------
LEMMA OfflineInit == Init => OfflineInv
<1> SUFFICES ASSUME Init PROVE OfflineInv
  OBVIOUS
<1> USE OfflineAssumption DEF Init, None
<1>1. TypeOK
  BY DEF TypeOK, NewOrder, OrderCore, Status
<1>2. StateAgreesWithFills
  BY DEF StateAgreesWithFills, NewOrder
<1>3. NewestReportWins /\ PreviewOrder /\ CancelledPreviewIsDead
  BY DEF NewestReportWins, PreviewOrder, CancelledPreviewIsDead, NewOrder
<1> QED
  BY <1>1, <1>2, <1>3 DEF OfflineInv

LEMMA PreviewKeeps == OfflineInv /\ (\E now \in Instants : Preview(now) \/ Refuse(now)) => OfflineInv'
<1> SUFFICES ASSUME OfflineInv, NEW now \in Instants, Preview(now) \/ Refuse(now) PROVE OfflineInv'
  OBVIOUS
<1>1. /\ UNCHANGED <<confirmedAt, order, lastSequence, lastAt, events>>
      /\ clock' = now /\ created' \in {created, now}
  BY DEF Preview, Refuse, At
<1>2. TypeOK'
  BY <1>1, OfflineAssumption DEF OfflineInv, TypeOK, Instants
<1> QED
  BY <1>1, <1>2 DEF OfflineInv, StateAgreesWithFills, NewestReportWins, PreviewOrder, CancelledPreviewIsDead

LEMMA ConfirmKeeps == OfflineInv /\ (\E now \in Instants : Confirm(now)) => OfflineInv'
<1> SUFFICES ASSUME OfflineInv, NEW now \in Instants, Confirm(now) PROVE OfflineInv'
  OBVIOUS
<1>1. /\ UNCHANGED <<created, lastSequence, lastAt, events>>
      /\ clock' = now /\ confirmedAt' = now /\ order' = NewOrder("PENDING")
      /\ order.state = "PREVIEWED" /\ events = {} /\ lastSequence = 0
  BY DEF Confirm, At, OfflineInv, PreviewOrder
<1>2. TypeOK'
  BY <1>1, OfflineAssumption DEF OfflineInv, TypeOK, Instants, NewOrder, OrderCore, Status
<1>3. StateAgreesWithFills' /\ PreviewOrder'
  BY <1>1 DEF StateAgreesWithFills, PreviewOrder, NewOrder
<1>4. NewestReportWins'
  BY <1>1 DEF NewestReportWins
<1>5. CancelledPreviewIsDead'
  BY <1>1, OfflineAssumption DEF CancelledPreviewIsDead, Instants, None
<1> QED
  BY <1>2, <1>3, <1>4, <1>5 DEF OfflineInv

LEMMA ControlKeeps ==
  OfflineInv /\ (\E now \in Instants, f \in Fact : ApplyControlFact(f, now)) => OfflineInv'
<1> SUFFICES ASSUME OfflineInv, NEW now \in Instants, NEW f \in Fact, ApplyControlFact(f, now) PROVE OfflineInv'
  OBVIOUS
<1>1. /\ UNCHANGED <<created, confirmedAt, lastSequence, lastAt>>
      /\ clock' = now /\ events' = events \cup {f} /\ IsControl(f)
      /\ confirmedAt = None => f.kind = "CANCEL_REQUESTED"
  BY DEF ApplyControlFact, At, Presentable, BeforeAdmission
<1>2. /\ order' \in OrderCore(Quantity) /\ StateAgreesWithFills' /\ order'.state # "PREVIEWED"
      /\ order'.filled = order.filled
      /\ order.state = "PREVIEWED" => order'.state = "CANCELLED"
      /\ order.state \notin TERMINAL
  BY <1>1, FactAgrees DEF ApplyControlFact
<1>3. TypeOK'
  BY <1>1, <1>2, OfflineAssumption DEF OfflineInv, TypeOK, Instants
<1>4. NewestReportWins' /\ PreviewOrder'
  <2>1. {g \in events' : ~IsControl(g)} = {g \in events : ~IsControl(g)}
    BY <1>1
  <2>2. PreviewOrder'
    BY <1>1, <1>2 DEF OfflineInv, PreviewOrder
  <2> QED
    BY <1>1, <1>2, <2>1, <2>2 DEF OfflineInv, NewestReportWins
<1>5. CancelledPreviewIsDead'
  <2> SUFFICES ASSUME confirmedAt = None PROVE order'.state = "CANCELLED" /\ Cardinality(events') = 1
    BY <1>1 DEF CancelledPreviewIsDead
  <2>1. order.state = "PREVIEWED"
    BY <1>2 DEF OfflineInv, CancelledPreviewIsDead, TERMINAL
  <2>2. events' = {f}
    BY <1>1, <2>1 DEF OfflineInv, PreviewOrder
  <2> QED
    BY <1>2, <2>1, <2>2, FS_Singleton
<1> QED
  BY <1>2, <1>3, <1>4, <1>5 DEF OfflineInv

LEMMA IgnoreKeeps ==
  OfflineInv /\ (\E now \in Instants, f \in Fact : IgnoreReport(f, now)) => OfflineInv'
<1> SUFFICES ASSUME OfflineInv, NEW now \in Instants, NEW f \in Fact, IgnoreReport(f, now) PROVE OfflineInv'
  OBVIOUS
<1>1. /\ UNCHANGED <<created, confirmedAt, order, lastSequence, lastAt>>
      /\ clock' = now /\ events' = events \cup {f} /\ ~IsControl(f)
      /\ confirmedAt # None /\ order.state # "PREVIEWED"
      /\ f.sequence \in Nat /\ f.sequence > 0 /\ lastSequence \in Nat /\ f.sequence <= lastSequence
  BY OfflineAssumption
     DEF IgnoreReport, ReportPresentable, At, Presentable, BeforeAdmission, IsControl, CONTROLS, Newer, Fact, None,
         OfflineInv, TypeOK
<1>2. TypeOK'
  BY <1>1, OfflineAssumption DEF OfflineInv, TypeOK, Instants
<1>3. NewestReportWins'
  BY <1>1 DEF OfflineInv, NewestReportWins
<1>4. StateAgreesWithFills' /\ PreviewOrder' /\ CancelledPreviewIsDead'
  BY <1>1 DEF OfflineInv, StateAgreesWithFills, PreviewOrder, CancelledPreviewIsDead
<1> QED
  BY <1>2, <1>3, <1>4 DEF OfflineInv

LEMMA ReportKeeps ==
  OfflineInv /\ (\E now \in Instants, f \in Fact : ApplyReportFact(f, now)) => OfflineInv'
<1> SUFFICES ASSUME OfflineInv, NEW now \in Instants, NEW f \in Fact, ApplyReportFact(f, now) PROVE OfflineInv'
  OBVIOUS
<1>1. /\ UNCHANGED <<created, confirmedAt>>
      /\ clock' = now /\ events' = events \cup {f} /\ ~IsControl(f)
      /\ lastSequence' = f.sequence /\ lastAt' = f.at
      /\ confirmedAt # None
      /\ f.sequence \in Nat /\ f.sequence > 0 /\ lastSequence \in Nat /\ f.sequence > lastSequence
  BY OfflineAssumption
     DEF ApplyReportFact, ReportPresentable, At, Presentable, BeforeAdmission, IsControl, CONTROLS, Newer, Fact, None,
         OfflineInv, TypeOK
<1>2. order' \in OrderCore(Quantity) /\ StateAgreesWithFills' /\ order'.state # "PREVIEWED" /\ order'.filled = f.total
  BY <1>1, FactAgrees DEF ApplyReportFact
<1>3. TypeOK'
  BY <1>1, <1>2, OfflineAssumption DEF OfflineInv, TypeOK, Instants, Fact
<1>4. NewestReportWins'
  <2>1. ASSUME NEW g \in events, ~IsControl(g) PROVE g.sequence <= f.sequence
    <3>1. g.sequence <= lastSequence /\ g.sequence \in Nat
      BY <2>1, OfflineAssumption DEF OfflineInv, NewestReportWins, TypeOK, Fact
    <3> QED
      BY <1>1, <3>1
  <2>2. \A g \in events' : ~IsControl(g) => g.sequence <= lastSequence'
    BY <1>1, <2>1
  <2> QED
    BY <1>1, <1>2, <2>2 DEF NewestReportWins
<1>5. PreviewOrder' /\ CancelledPreviewIsDead'
  BY <1>1, <1>2 DEF OfflineInv, PreviewOrder, CancelledPreviewIsDead
<1> QED
  BY <1>2, <1>3, <1>4, <1>5 DEF OfflineInv

LEMMA OfflineStep == OfflineInv /\ [Next]_vars => OfflineInv'
<1> SUFFICES ASSUME OfflineInv, [Next]_vars PROVE OfflineInv'
  OBVIOUS
<1>1. CASE Next
  BY <1>1, PreviewKeeps, ConfirmKeeps, ControlKeeps, IgnoreKeeps, ReportKeeps DEF Next
<1>2. CASE UNCHANGED vars
  BY <1>2 DEF vars, OfflineInv, TypeOK, StateAgreesWithFills, NewestReportWins, PreviewOrder, CancelledPreviewIsDead
<1> QED
  BY <1>1, <1>2

LEMMA OfflineInvariant == Spec => []OfflineInv
BY OfflineInit, OfflineStep, PTL DEF Spec

-----------------------------------------------------------------------------
(* The preview, its order and the facts recorded keep their types           *)
(* (execution/service.py, execution/models.py).                            *)
THEOREM OfflineTypeCorrect == Spec => []TypeOK
<1>1. OfflineInv => TypeOK
  BY DEF OfflineInv
<1> QED
  BY <1>1, OfflineInvariant, PTL

(* Whatever facts the reducer admits, in whatever order, the state it shows *)
(* never contradicts the quantity it shows (reduce_order).                 *)
THEOREM FillsAgree == Spec => []StateAgreesWithFills
<1>1. OfflineInv => StateAgreesWithFills
  BY DEF OfflineInv
<1> QED
  BY <1>1, OfflineInvariant, PTL

(* Reports may come late, twice or out of order: the order shows what the  *)
(* one with the largest sequence said (last_report_sequence).              *)
THEOREM NewestWins == Spec => []NewestReportWins
<1>1. OfflineInv => NewestReportWins
  BY DEF OfflineInv
<1> QED
  BY <1>1, OfflineInvariant, PTL

(* A preview cancelled before its confirmation stays so and hears nothing   *)
(* more (confirm, apply_fact).                                             *)
THEOREM CancelledStaysDead == Spec => []CancelledPreviewIsDead
<1>1. OfflineInv => CancelledPreviewIsDead
  BY DEF OfflineInv
<1> QED
  BY <1>1, OfflineInvariant, PTL
=============================================================================

-------------------------- MODULE OfflineExecution --------------------------
(***************************************************************************)
(* One preview of the offline M1 plane: execution/service.py previews a    *)
(* draft, confirms it once with its challenge and applies the facts that   *)
(* execution/state_machine.py hands to the reducer.  The facts come from   *)
(* outside, numbered and dated by their source, so they may arrive twice,  *)
(* out of order, late, or contradict one another.                          *)
(*                                                                         *)
(* Drafts, evidence, prices and the text of the challenge are abstracted:  *)
(* "the right confirmation" is the only one that gets past the checks of   *)
(* confirm, and the fixture's evidence is valid until its preview expires. *)
(***************************************************************************)
EXTENDS OrderReducer, FiniteSets

CONSTANTS
  Quantity,     \* shares of the order
  EventIds,     \* identities a fact may carry
  MaxSequence,  \* bound: largest report sequence
  MaxTime,      \* bound: largest instant
  TTL           \* lifetime of a preview

ASSUME OfflineAssumption ==
  /\ Quantity \in Nat \ {0}
  /\ MaxSequence \in Nat /\ MaxTime \in Nat
  /\ TTL \in Nat \ {0}

None == 0  \* the absent sequence, instant or report time

Instants == 1 .. MaxTime

(* OrderFact.  Controls carry no sequence and no quantity. *)
Fact == [id : EventIds, kind : EventKind, at : Instants,
         sequence : 0 .. MaxSequence, total : 0 .. Quantity]

IsControl(f) == f.kind \in CONTROLS

VARIABLES
  clock,        \* the last instant any operation saw
  created,      \* when the preview was made, or None
  confirmedAt,  \* when the order was admitted, or None
  order,        \* state, filled, cancelRequested
  lastSequence, \* last_report_sequence
  lastAt,       \* last_report_at, or None
  events        \* facts recorded, the applied and the ignored ones

vars == <<clock, created, confirmedAt, order, lastSequence, lastAt, events>>

TypeOK ==
  /\ clock \in 0 .. MaxTime
  /\ created \in 0 .. MaxTime
  /\ confirmedAt \in 0 .. MaxTime
  /\ order \in OrderCore(Quantity)
  /\ lastSequence \in 0 .. MaxSequence
  /\ lastAt \in 0 .. MaxTime
  /\ events \subseteq Fact

Init ==
  /\ clock = 0 /\ created = None /\ confirmedAt = None
  /\ order = NewOrder("PREVIEWED")
  /\ lastSequence = 0 /\ lastAt = None
  /\ events = {}

(* _time: an operation with an earlier clock is refused. *)
At(now) == now >= clock /\ clock' = now

-----------------------------------------------------------------------------
Preview(now) ==
  /\ At(now)
  /\ created = None
  /\ created' = now
  /\ UNCHANGED <<confirmedAt, order, lastSequence, lastAt, events>>

(* confirm: once, before the preview expires, and never for a preview that *)
(* already has an order, the one a cancel made included.                   *)
Confirm(now) ==
  /\ At(now)
  /\ created # None
  /\ order.state = "PREVIEWED"
  /\ now < created + TTL
  /\ confirmedAt' = now
  /\ order' = NewOrder("PENDING")
  /\ UNCHANGED <<created, lastSequence, lastAt, events>>

(* Faulty: a preview takes any fact. *)
AnyFact(f) == TRUE

(* Before admission there is nothing to report on: only a cancel. *)
BeforeAdmission(f) == confirmedAt = None => f.kind = "CANCEL_REQUESTED"

(* What reduce_order asks of any fact before it looks at the kind. *)
Presentable(f, now) ==
  /\ created # None /\ created <= f.at
  /\ confirmedAt <= f.at /\ f.at <= now
  /\ ~ \E previous \in events : previous.id = f.id
  /\ BeforeAdmission(f)

ApplyControlFact(f, now) ==
  /\ At(now)
  /\ IsControl(f) /\ f.sequence = None
  /\ Presentable(f, now)
  /\ Admits(order, f.kind, f.total, Quantity)
  /\ order' = Reduce(order, f.kind, f.total, Quantity)
  /\ events' = events \cup {f}
  /\ UNCHANGED <<created, confirmedAt, lastSequence, lastAt>>

(* Two reports of one sequence must be the same report. *)
SameReport(f, g) == /\ f.kind = g.kind
                    /\ f.total = g.total
                    /\ f.at = g.at

Consistent(f) ==
  \A previous \in events :
    ~IsControl(previous) /\ previous.sequence = f.sequence => SameReport(f, previous)

ReportPresentable(f, now) ==
  /\ ~IsControl(f) /\ f.sequence # None
  /\ Presentable(f, now)
  /\ order.state \notin {"PREVIEWED", "UNKNOWN"}
  /\ Consistent(f)

(* Faulty: only the very last report is not applied again. *)
Different(f) == f.sequence # lastSequence

Newer(f) == f.sequence > lastSequence

(* A report older than the last one applied is kept and changes nothing. *)
IgnoreReport(f, now) ==
  /\ At(now)
  /\ ReportPresentable(f, now)
  /\ ~Newer(f)
  /\ events' = events \cup {f}
  /\ UNCHANGED <<created, confirmedAt, order, lastSequence, lastAt>>

ApplyReportFact(f, now) ==
  /\ At(now)
  /\ ReportPresentable(f, now)
  /\ Newer(f)
  /\ f.at >= lastAt
  /\ Admits(order, f.kind, f.total, Quantity)
  /\ order' = Reduce(order, f.kind, f.total, Quantity)
  /\ lastSequence' = f.sequence
  /\ lastAt' = f.at
  /\ events' = events \cup {f}
  /\ UNCHANGED <<created, confirmedAt>>

(* A refused call changes nothing but the clock it was checked against. *)
Refuse(now) ==
  /\ At(now)
  /\ UNCHANGED <<created, confirmedAt, order, lastSequence, lastAt, events>>

Next ==
  \E now \in Instants :
    \/ Preview(now)
    \/ Refuse(now)
    \/ Confirm(now)
    \/ \E f \in Fact : ApplyControlFact(f, now)
    \/ \E f \in Fact : IgnoreReport(f, now)
    \/ \E f \in Fact : ApplyReportFact(f, now)

Spec == Init /\ [][Next]_vars

-----------------------------------------------------------------------------
(* The state an order shows never contradicts the quantity it shows: a     *)
(* full fill is FILLED and nothing else ends so, a rejected order has no   *)
(* fill, a cancelled one did not fill completely and was asked to cancel.  *)
(* RECONCILING and UNKNOWN promise nothing.  (reduce_order, every branch.) *)
StateAgreesWithFills ==
  /\ order.state = "FILLED" => order.filled = Quantity
  /\ order.state \in {"PREVIEWED", "PENDING", "ACCEPTED", "REJECTED"} => order.filled = 0
  /\ order.state = "PARTIALLY_FILLED" => order.filled \in 1 .. Quantity - 1
  /\ order.state \in {"CANCELLED", "CANCEL_PENDING"} =>
       order.cancelRequested /\ order.filled < Quantity

(* What the order shows is what its newest report said, whatever order the *)
(* reports came in: last_report_sequence is one of the recorded reports,   *)
(* none recorded is newer, and the quantity is the one that report gave.   *)
NewestReportWins ==
  LET reports == {f \in events : ~IsControl(f)}
  IN  /\ \A f \in reports : f.sequence <= lastSequence
      /\ lastSequence > 0 =>
           \E f \in reports : /\ f.sequence = lastSequence
                              /\ f.at = lastAt
                              /\ f.total = order.filled

(* A preview that was cancelled before it was confirmed never becomes an   *)
(* order, and nothing reaches the reducer between the two but that cancel. *)
CancelledPreviewIsDead ==
  confirmedAt = None /\ order.state # "PREVIEWED" =>
    /\ order.state = "CANCELLED"
    /\ Cardinality(events) = 1
=============================================================================

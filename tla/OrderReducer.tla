---------------------------- MODULE OrderReducer ----------------------------
(***************************************************************************)
(* The pure order reducer of execution/order_reducer.py: what one fact     *)
(* about an order does to the part of it that every caller shares, its     *)
(* state, its cumulative filled quantity and whether a cancel was asked.   *)
(*                                                                         *)
(* Two callers use it.  The runtime numbers its facts locally and always   *)
(* one after the last (ExecutionRuntime); the offline M1 plane passes on   *)
(* the identity, sequence and time its ingress supplies, and what the      *)
(* reducer makes of those three is in OfflineExecution.                    *)
(*                                                                         *)
(* An operator commented "Faulty" is a plausible mistake in the definition *)
(* that follows it, which some property must catch; no action uses it.     *)
(***************************************************************************)
EXTENDS Naturals

Status ==
  {"PREVIEWED", "PENDING", "ACCEPTED", "PARTIALLY_FILLED", "FILLED",
   "REJECTED", "CANCEL_PENDING", "CANCELLED", "UNKNOWN", "RECONCILING"}

TERMINAL == {"FILLED", "CANCELLED", "REJECTED"}

CONTROLS == {"TIMEOUT", "RECONCILE", "CANCEL_REQUESTED"}

Reports == {"ACCEPTED", "PARTIAL_FILL", "FILLED", "REJECTED", "CANCELLED"}

EventKind == CONTROLS \cup Reports

(* The shared part of an order of quantity q. *)
OrderCore(q) == [state : Status, filled : 0 .. q, cancelRequested : BOOLEAN]

NewOrder(state) == [state |-> state, filled |-> 0, cancelRequested |-> FALSE]

-----------------------------------------------------------------------------
(* Controls: local decisions, never a claim about the broker. *)

AdmitsControl(o, kind) ==
  /\ o.state \notin TERMINAL
  /\ kind = "RECONCILE" => o.state = "UNKNOWN"
  /\ kind = "TIMEOUT" => o.state \notin {"PREVIEWED", "UNKNOWN"}

ControlState(o, kind) ==
  CASE kind = "RECONCILE" -> "RECONCILING"
    [] kind = "TIMEOUT" -> "UNKNOWN"
    [] kind = "CANCEL_REQUESTED" /\ o.state = "PREVIEWED" -> "CANCELLED"
    [] kind = "CANCEL_REQUESTED" /\ o.state \in {"UNKNOWN", "RECONCILING"} -> o.state
    [] OTHER -> "CANCEL_PENDING"

ApplyControl(o, kind) ==
  [o EXCEPT !.state = ControlState(o, kind),
            !.cancelRequested = @ \/ kind = "CANCEL_REQUESTED"]

-----------------------------------------------------------------------------
(* Reports: what the broker says, with the cumulative filled quantity. *)

ReportTotal(kind, total, q) ==
  CASE kind \in {"ACCEPTED", "REJECTED"} -> total = 0
    [] kind = "PARTIAL_FILL" -> total \in 1 .. q - 1
    [] kind = "FILLED" -> total = q
    [] kind = "CANCELLED" -> total \in 0 .. q

AdmitsReport(o, kind, total, q) ==
  /\ o.state \notin {"PREVIEWED", "UNKNOWN"}
  /\ total >= o.filled
  /\ ReportTotal(kind, total, q)
  /\ kind = "CANCELLED" => o.cancelRequested

(* Faulty: a report's kind is the state. *)
KindIsState(o, kind, total, q) ==
  IF kind = "PARTIAL_FILL" THEN "PARTIALLY_FILLED" ELSE kind

(* The state a report names when the order has not ended yet. *)
LiveState(o, kind, total, q) ==
  CASE kind = "ACCEPTED" -> IF o.cancelRequested THEN "CANCEL_PENDING" ELSE "ACCEPTED"
    [] kind = "PARTIAL_FILL" -> IF o.cancelRequested THEN "CANCEL_PENDING" ELSE "PARTIALLY_FILLED"
    [] kind = "FILLED" -> "FILLED"
    [] kind = "REJECTED" -> "REJECTED"
    [] kind = "CANCELLED" -> IF total = q THEN "FILLED" ELSE "CANCELLED"

(* A report that arrives after the order ended: a late fill of a cancelled  *)
(* order counts, a report that contradicts the end asks for reconciliation, *)
(* a full fill is never taken back.                                         *)
ReportState(o, kind, total, q) ==
  CASE o.state = "CANCELLED" /\ kind = "PARTIAL_FILL" -> "CANCELLED"
    [] o.state = "CANCELLED" /\ kind \in {"ACCEPTED", "REJECTED"} -> "RECONCILING"
    [] o.state = "REJECTED" /\ kind # "REJECTED" -> "RECONCILING"
    [] o.state = "FILLED" -> "FILLED"
    [] OTHER -> LiveState(o, kind, total, q)

(* Faulty: the cumulative quantity is added. *)
AddsTotal(o, kind, total, q) ==
  [o EXCEPT !.state = ReportState(o, kind, total, q), !.filled = @ + total]

ApplyReport(o, kind, total, q) ==
  [o EXCEPT !.state = ReportState(o, kind, total, q), !.filled = total]

-----------------------------------------------------------------------------
(* One fact, control or report. *)

Admits(o, kind, total, q) ==
  IF kind \in CONTROLS THEN total = 0 /\ AdmitsControl(o, kind)
                       ELSE AdmitsReport(o, kind, total, q)

Reduce(o, kind, total, q) ==
  IF kind \in CONTROLS THEN ApplyControl(o, kind)
                       ELSE ApplyReport(o, kind, total, q)
=============================================================================

---------------------------- MODULE StrategyExit ----------------------------
(***************************************************************************)
(* The exit strategies of the execution runtime (execution_runtime/        *)
(* runtime.py and strategy.py): an entry order that was confirmed is       *)
(* bound to a strategy, whose target position may only be lowered, by the  *)
(* operator or by a price; one effect pump sells what the target allows,   *)
(* as child orders ("exits") of the strategy.                              *)
(*                                                                         *)
(* Four threads meet here.  Operator commands and price callbacks append   *)
(* requests in transactions of their own; fills arrive by callbacks of the *)
(* broker; the pump claims in one transaction and sends after it; and the  *)
(* process may crash, or be asked to stop, between any two of these.       *)
(*                                                                         *)
(* What an order does on its way to and from the broker is the subject of  *)
(* ExecutionRuntime.  Here it is reduced to what the strategy reads of it. *)
(* What an account holds is not known to the runtime with certainty, so    *)
(* what the inventory lets a strategy sell, whose rules do not name the    *)
(* protection of each order, is any number.                                *)
(*                                                                         *)
(* An operator commented "Faulty" is a plausible mistake in the definition *)
(* that follows it, which some property must catch; no action uses it.     *)
(***************************************************************************)
EXTENDS Naturals, FiniteSets, SequencesExt

CONSTANTS
  Strategies,   \* each is bound to one entry order
  Quantity,     \* shares of each entry order
  NoTarget,     \* target_position is None
  MaxRequests,  \* bound: revisions, exit requests and price triggers of each
  MaxExits,     \* bound: exits of each
  MaxFailures,  \* bound: passes of the pump that raise
  MaxCrashes    \* bound: crashes and stops of the process

ASSUME StrategyAssumption ==
  /\ Quantity \in Nat \ {0}
  /\ NoTarget \notin Nat
  /\ {MaxRequests, MaxExits, MaxFailures, MaxCrashes} \subseteq Nat

Shares == 0 .. Quantity

(* An exit: what was claimed, what became of it and, for the replay, what   *)
(* the journal showed when it was claimed.                                 *)
ExitStages == {"CLAIMED", "RETURNED", "UNKNOWN", "ENDED", "NOT_SENT"}

Exit ==
  [quantity : 1 .. Quantity, filled : Shares, stage : ExitStages,
   asked : 0 .. MaxRequests,   \* requests recorded before the claim
   resume : 0 .. MaxRequests,  \* resume_token of SUBMIT_NOT_SENT
   entered : Shares,           \* shares of the entry filled before the claim
   target : Shares,            \* target_position in the claim
   committed : Shares]         \* claimed and not released before the claim

Entry == [filled : Shares, bound : BOOLEAN, ended : BOOLEAN, cancelClaimed : BOOLEAN]

VARIABLES
  \* the journal: durable
  entry,    \* of each strategy, its entry order
  target,   \* target_position
  enabled,  \* rules.enabled: each order carries its protection itself
  asked,    \* revision and requests: how many were recorded
  exits,    \* the claimed child orders, oldest first
  \* the process
  phase,    \* "ONLINE", "STOPPING" or "DOWN"
  wake,     \* _strategy_wake
  pump,     \* the effect pump: where it stands and what it has left to do
  failed,   \* strategy_error
  failures, crashes

journal == <<entry, target, enabled, asked, exits>>
process == <<phase, wake, pump, failed>>
vars == <<journal, process, failures, crashes>>

Phases == {"ONLINE", "STOPPING", "DOWN"}

Waiting == [at |-> "wait", cancels |-> {}, claims |-> {}]

TypeOK ==
  /\ entry \in [Strategies -> Entry]
  /\ target \in [Strategies -> Shares \cup {NoTarget}]
  /\ enabled \in [Strategies -> BOOLEAN]
  /\ asked \in [Strategies -> 0 .. MaxRequests]
  /\ \A s \in Strategies :
       /\ Len(exits[s]) <= MaxExits
       /\ \A i \in DOMAIN exits[s] : exits[s][i] \in Exit
  /\ phase \in Phases
  /\ wake \in BOOLEAN /\ failed \in BOOLEAN
  /\ pump \in [at : {"wait", "coordinate", "effects"},
               cancels : SUBSET Strategies, claims : SUBSET Strategies]
  /\ failures \in 0 .. MaxFailures /\ crashes \in 0 .. MaxCrashes

Init ==
  /\ entry = [s \in Strategies |->
                [filled |-> 0, bound |-> FALSE, ended |-> FALSE, cancelClaimed |-> FALSE]]
  /\ target = [s \in Strategies |-> NoTarget]
  /\ enabled \in [Strategies -> BOOLEAN]
  /\ asked = [s \in Strategies |-> 0]
  /\ exits = [s \in Strategies |-> << >>]
  /\ phase = "ONLINE" /\ wake = FALSE /\ failed = FALSE
  /\ pump = Waiting
  /\ failures = 0 /\ crashes = 0

Up == phase # "DOWN"

-----------------------------------------------------------------------------
(* The projection of the orders of one strategy (quantities). *)

(* The sum of a sequence of numbers. *)
Total(v) ==
  LET upTo[i \in 0 .. Len(v)] == IF i = 0 THEN 0 ELSE upTo[i - 1] + v[i]
  IN  upTo[Len(v)]

(* Claims keep their whole quantity whatever became of them; only proof    *)
(* that an exit was not sent releases it.                                  *)
Kept(x) == IF x.stage = "NOT_SENT" THEN 0 ELSE x.quantity

Committed(s) == Total([i \in DOMAIN exits[s] |-> Kept(exits[s][i])])

Exited(s) == Total([i \in DOMAIN exits[s] |-> exits[s][i].filled])

Effective(s) == entry[s].filled - Exited(s)
Reserved(s) == Committed(s) - Exited(s)

(* Faulty: what is already claimed counts only once it is filled. *)
IgnoresReserved(s) ==
  IF target[s] = NoTarget \/ Effective(s) < target[s] THEN 0 ELSE Effective(s) - target[s]

Available(s) ==
  IF target[s] = NoTarget \/ Effective(s) < Reserved(s) + target[s]
  THEN 0 ELSE Effective(s) - Reserved(s) - target[s]

-----------------------------------------------------------------------------
(* Requests: each is one transaction, with the state it reads. *)

Recorded(s) ==
  /\ Up
  /\ asked[s] < MaxRequests
  /\ asked' = [asked EXCEPT ![s] = @ + 1]
  /\ wake' = TRUE
  /\ UNCHANGED <<entry, exits, phase, pump, failed, failures, crashes>>

(* New rules never change the target. *)
Revise(s) ==
  /\ Recorded(s)
  /\ \E b \in BOOLEAN : enabled' = [enabled EXCEPT ![s] = b]
  /\ UNCHANGED target

Targeted(s, t) ==
  /\ Recorded(s)
  /\ target' = [target EXCEPT ![s] = t]
  /\ UNCHANGED enabled

Lower(s, t) == target[s] # NoTarget => t < target[s]
LowerOrSame(s, t) == target[s] # NoTarget => t <= target[s]

(* The operator closes the position; asking again is a new request. *)
ExitAll(s) == Targeted(s, 0)

(* A reduction only lowers what is held and not claimed yet. *)
Reducible(s, t) ==
  /\ t < Effective(s) /\ t + Reserved(s) <= Effective(s)
  /\ LowerOrSame(s, t)

Reduce(s) == \E t \in 1 .. Quantity : Reducible(s, t) /\ Targeted(s, t)

(* A price: the stop, or the last of the take-profit tiers, closes the      *)
(* position; the first of two tiers sells half of what is filled by then.   *)
PriceTargets(s) == {0} \cup {entry[s].filled - entry[s].filled \div 2}

(* Faulty: the trigger does not look at the target it replaces. *)
TriggersAnyway(s, t) == entry[s].filled > 0

Triggers(s, t) == entry[s].filled > 0 /\ Lower(s, t)

PriceTrigger(s) ==
  \E t \in PriceTargets(s) :
    t < entry[s].filled /\ Triggers(s, t) /\ Targeted(s, t)

-----------------------------------------------------------------------------
(* What becomes known of the orders, by callbacks and queries. *)

(* Faulty: the callback records and does not wake the pump. *)
SaysQuietly == UNCHANGED <<target, enabled, asked, process, failures, crashes>>

BrokerSays ==
  wake' = TRUE /\ UNCHANGED <<target, enabled, asked, phase, pump, failed, failures, crashes>>

EntryBound(s) ==
  /\ Up /\ ~entry[s].bound
  /\ entry' = [entry EXCEPT ![s].bound = TRUE]
  /\ UNCHANGED <<target, enabled, asked, exits, process, failures, crashes>>

(* Also after the end: a late fill of a cancelled order counts. *)
EntryFill(s) ==
  /\ Up /\ entry[s].bound /\ entry[s].filled < Quantity
  /\ entry' = [entry EXCEPT ![s].filled = @ + 1,
                            ![s].ended = @ \/ entry[s].filled + 1 = Quantity]
  /\ BrokerSays /\ UNCHANGED exits

EntryEnds(s) ==
  /\ Up /\ entry[s].bound /\ ~entry[s].ended
  /\ entry' = [entry EXCEPT ![s].ended = TRUE]
  /\ BrokerSays /\ UNCHANGED exits

ExitFill(s, i) ==
  /\ Up
  /\ exits[s][i].stage \in {"RETURNED", "UNKNOWN", "ENDED"}
  /\ exits[s][i].filled < exits[s][i].quantity
  /\ exits' = [exits EXCEPT ![s][i].filled = @ + 1]
  /\ BrokerSays /\ UNCHANGED entry

(* Cancelled or rejected; a query may also show where an unknown one is. *)
ExitReported(s, i) ==
  /\ Up
  /\ \/ exits[s][i].stage = "UNKNOWN" /\ exits' = [exits EXCEPT ![s][i].stage = "RETURNED"]
     \/ exits[s][i].stage \in {"RETURNED", "UNKNOWN"} /\ exits' = [exits EXCEPT ![s][i].stage = "ENDED"]
  /\ BrokerSays /\ UNCHANGED entry

(* The read of each heartbeat, or any other query that succeeds. *)
Query ==
  /\ Up /\ wake' = TRUE
  /\ UNCHANGED <<journal, phase, pump, failed, failures, crashes>>

-----------------------------------------------------------------------------
(* The effect pump. *)

(* A wake is cleared before the state is read. *)
PumpTakesWake ==
  /\ phase = "ONLINE" /\ wake /\ pump.at = "wait"
  /\ wake' = FALSE
  /\ pump' = [pump EXCEPT !.at = "coordinate"]
  /\ UNCHANGED <<journal, phase, failed, failures, crashes>>

(* After an exit that was not sent the strategy waits for a new request:    *)
(* the token names the requests there were when that was recorded.          *)
Suppressed(s) ==
  /\ exits[s] # << >>
  /\ Last(exits[s]).stage = "NOT_SENT"
  /\ Last(exits[s]).resume = asked[s]

Coordinated(s) == target[s] # NoTarget /\ ~Suppressed(s)

(* Faulty: a strategy with nothing to sell has nothing to do. *)
CancelsWithExit(s) ==
  Coordinated(s) /\ Available(s) > 0
    /\ entry[s].bound /\ ~entry[s].cancelClaimed /\ ~entry[s].ended

CancelsEntry(s) ==
  /\ Coordinated(s)
  /\ entry[s].bound /\ ~entry[s].cancelClaimed /\ ~entry[s].ended

Claim(s, n) ==
  [quantity |-> n, filled |-> 0, stage |-> "CLAIMED", asked |-> asked[s], resume |-> 0,
   entered |-> entry[s].filled, target |-> target[s], committed |-> Committed(s)]

(* What one pass claims of each strategy: all that is available, or as much *)
(* of it as the inventory allows.                                          *)
ClaimPlans ==
  {plan \in [Strategies -> Shares] :
     \A s \in Strategies :
       /\ plan[s] <= Available(s)
       /\ enabled[s] /\ Coordinated(s) => plan[s] = Available(s)
       /\ ~Coordinated(s) \/ Len(exits[s]) = MaxExits => plan[s] = 0}

Claimed(plan) == {s \in Strategies : plan[s] > 0}

(* One transaction claims for every strategy; nothing is sent in it. *)
Coordinate ==
  /\ pump.at = "coordinate" /\ phase = "ONLINE"
  /\ \E plan \in ClaimPlans :
       /\ exits' = [s \in Strategies |->
                      IF s \in Claimed(plan) THEN Append(exits[s], Claim(s, plan[s])) ELSE exits[s]]
       /\ pump' = [at |-> "effects", cancels |-> {s \in Strategies : CancelsEntry(s)},
                   claims |-> Claimed(plan)]
  /\ UNCHANGED <<entry, target, enabled, asked, phase, wake, failed, failures, crashes>>

(* OFFLINE was asked for before the pass read the state: it does nothing. *)
CoordinateOffline ==
  /\ pump.at = "coordinate" /\ phase = "STOPPING"
  /\ pump' = Waiting /\ failed' = FALSE
  /\ UNCHANGED <<journal, phase, wake, failures, crashes>>

(* The exact cancel of an entry; one that ended meanwhile is left alone.    *)
(* If the entry is left with no exit to send, one query follows.            *)
CancelEntry(s) ==
  /\ pump.at = "effects" /\ s \in pump.cancels
  /\ entry' = [entry EXCEPT ![s].cancelClaimed = @ \/ ~entry[s].ended]
  /\ pump' = [pump EXCEPT !.cancels = @ \ {s}]
  /\ UNCHANGED <<target, enabled, asked, exits, phase, wake, failed, failures, crashes>>

Outcomes(s) ==
  {"RETURNED", "UNKNOWN", "ENDED"} \cup (IF enabled[s] THEN {} ELSE {"NOT_SENT"})

(* Faulty: the token names the request to come. *)
DispatchedAhead(s, outcome) ==
  [exits[s] EXCEPT ![Len(exits[s])].stage = outcome,
                   ![Len(exits[s])].resume = IF outcome = "NOT_SENT" THEN asked[s] + 1 ELSE 0]

(* The SDK call and the transaction that records what came of it; requests *)
(* and fills of other threads fall between the claim and this.             *)
Dispatched(s, outcome) ==
  [exits[s] EXCEPT ![Len(exits[s])].stage = outcome,
                   ![Len(exits[s])].resume = IF outcome = "NOT_SENT" THEN asked[s] ELSE 0]

Dispatch(s) ==
  /\ pump.at = "effects" /\ pump.cancels = {} /\ s \in pump.claims
  /\ \E outcome \in Outcomes(s) : exits' = [exits EXCEPT ![s] = Dispatched(s, outcome)]
  /\ pump' = [pump EXCEPT !.claims = @ \ {s}]
  /\ UNCHANGED <<entry, target, enabled, asked, phase, wake, failed, failures, crashes>>

PassEnds ==
  /\ pump.at = "effects" /\ pump.cancels = {} /\ pump.claims = {}
  /\ pump' = Waiting /\ failed' = FALSE
  /\ UNCHANGED <<journal, phase, wake, failures, crashes>>

(* Anything in the pass raises: what it had left to do is not done by      *)
(* anybody, and nothing wakes the pump for it.                             *)
PassRaises ==
  /\ pump.at # "wait" /\ failures < MaxFailures
  /\ pump' = Waiting /\ failed' = TRUE
  /\ failures' = failures + 1
  /\ UNCHANGED <<journal, phase, wake, crashes>>

-----------------------------------------------------------------------------
(* The process. *)

RequestOffline ==
  /\ phase = "ONLINE" /\ crashes < MaxCrashes
  /\ phase' = "STOPPING" /\ wake' = TRUE
  /\ UNCHANGED <<journal, pump, failed, failures, crashes>>

Down ==
  /\ phase' = "DOWN" /\ wake' = FALSE /\ pump' = Waiting /\ failed' = FALSE
  /\ crashes' = crashes + 1
  /\ UNCHANGED <<journal, failures>>

(* The logout takes the lane of the commands, which a pass holds. *)
Stop == phase = "STOPPING" /\ pump.at # "effects" /\ Down

Crash == Up /\ crashes < MaxCrashes /\ Down

(* The replay of one claim (_verify_strategies). *)
Backed(x) == x.committed + x.quantity + x.target <= x.entered

Verified == \A s \in Strategies : \A i \in DOMAIN exits[s] : Backed(exits[s][i])

(* Faulty: startup looks only at the orders it may have sent. *)
StartupSkipsClaims(x) == x

(* An abandoned claim is doubt, never permission to send again. *)
AfterStartup(x) == IF x.stage = "CLAIMED" THEN [x EXCEPT !.stage = "UNKNOWN"] ELSE x

Restart ==
  /\ phase = "DOWN" /\ Verified
  /\ phase' = "ONLINE" /\ wake' = TRUE
  /\ exits' = [s \in Strategies |-> [i \in DOMAIN exits[s] |-> AfterStartup(exits[s][i])]]
  /\ UNCHANGED <<entry, target, enabled, asked, pump, failed, failures, crashes>>

-----------------------------------------------------------------------------
Requests == \E s \in Strategies : Revise(s) \/ ExitAll(s) \/ Reduce(s) \/ PriceTrigger(s)

Broker ==
  \/ Query
  \/ \E s \in Strategies :
       \/ EntryBound(s) \/ EntryFill(s) \/ EntryEnds(s)
       \/ \E i \in DOMAIN exits[s] : ExitFill(s, i) \/ ExitReported(s, i)

Pump ==
  \/ PumpTakesWake \/ Coordinate \/ CoordinateOffline \/ PassEnds
  \/ \E s \in Strategies : CancelEntry(s) \/ Dispatch(s)

Next == Requests \/ Broker \/ Pump \/ PassRaises \/ RequestOffline \/ Stop \/ Crash \/ Restart

(* The pump is a thread of the process that nothing else can hold up for    *)
(* ever: the SDK calls it waits for return or raise.                        *)
Spec == Init /\ [][Next]_vars /\ WF_vars(Pump)

-----------------------------------------------------------------------------
(* Safety. *)

(* The shares the operator asked to keep are never put up for sale: every  *)
(* share claimed for an exit was filled and lies above the target, however *)
(* requests, prices, fills, failures and restarts interleave with the      *)
(* claims (_strategy_request, _native_price, _coordinate_strategies).      *)
KeepsTarget ==
  \A s \in Strategies :
    target[s] # NoTarget => Committed(s) + target[s] <= entry[s].filled

(* What the runtime writes, its own startup accepts: _verify_strategies     *)
(* finds every claim of the journal backed by the fills that came before.  *)
ReplaysCleanly == Verified

(* While no pass has raised, every claim that was not sent is either in the *)
(* hands of the pass that made it or, after a crash, in doubt: a stop, a   *)
(* second wake or a restart leaves none behind (_coordinate_strategies,     *)
(* request_offline, _open_journal).                                        *)
ClaimIsOwned ==
  failures = 0 /\ Up =>
    \A s \in Strategies : \A i \in DOMAIN exits[s] :
      exits[s][i].stage = "CLAIMED" => i = Len(exits[s]) /\ s \in pump.claims
-----------------------------------------------------------------------------
(* Liveness. *)

(* No wake is lost: what a lowered target makes available of a strategy     *)
(* that needs no inventory is claimed in the end, unless the process stops *)
(* or a pass raised and nothing has woken the pump since.                  *)
ExitIsPursued ==
  \A s \in Strategies :
    <>[](phase = "ONLINE" /\ ~failed /\ enabled[s] => Available(s) = 0 \/ Suppressed(s))

(* An entry that may still fill is cancelled once there is a target, also  *)
(* when its broker id becomes known only later, if reads keep succeeding.  *)
EntryIsCancelled ==
  \A s \in Strategies :
    ([]<><<Query>>_vars) =>
      <>[](phase = "ONLINE" /\ entry[s].bound /\ target[s] # NoTarget /\ ~Suppressed(s)
             => entry[s].ended \/ entry[s].cancelClaimed)
=============================================================================

# Open Market Intelligence: a TLA+ verification project

This directory models the parts of Open Market Intelligence (OMI) whose
correctness depends on the order in which threads, processes, crashes and a
remote broker take their steps.  It holds TLA+ modules translated from the code
under `src/`, TLC configurations that check them on small instances, and TLAPS
proofs of the most important facts for every instance.  `PROJECT.json` lists
every run with its properties, the source lines each definition stands for, one
deliberate mistake ("mutant") per property that the property must catch, the
hazards of the code, the findings and the theorems.

Contents: [1 Inventory](#1-inventory-of-the-system),
[2 Modules](#2-the-modules-and-the-code-they-stand-for),
[3 Runs](#3-what-each-run-checks),
[4 Fairness](#4-fairness),
[5 Proofs](#5-what-is-proved),
[6 Findings](#6-findings),
[7 Left out](#7-what-is-not-modelled-and-why),
[8 Plan](#8-plan),
[9 Running it](#9-running-the-checks).

## 1. Inventory of the system

OMI is one repository with several processes: a FastAPI backend
(`src/backend/app`), a separate execution runtime that alone may send orders to
the broker (`src/execution_runtime`), offline and simulated execution planes
(`src/execution`, `src/execution_simulation`, ...), launcher and control
programs (`src/scripts`), an MCP server and a frontend.  The parts that keep
state and make decisions are these.

### 1.1 Execution

| component | state it keeps | operations | interacts with |
|---|---|---|---|
| Order reducer (`execution/order_reducer.py`) | none: a pure function of one order's state, filled quantity, report sequence | `reduce_order`, `validate_order_fact` | every execution plane calls it |
| Offline plane M1 (`execution/service.py`, `state_machine.py`) | previews, challenge, order, events, in memory | `preview`, `confirm`, `apply` | reducer, draft validation |
| Runtime, order core (`execution_runtime/runtime.py`, `kgi.py`, `storage.py`) | a SQLite journal: `orders`, `observations`, `applied`, `fills`; in memory the SDK session and its retained trade objects | claim, send, bind, query, reconcile, cancel, callbacks, drain, reconnect, startup | broker SDK (calls and callbacks), reviews, strategies |
| Runtime, connection loop (`runtime.py:197-480`) | session phase, login and close deadlines, offline request | `_connection_loop`, `request_offline`, `reconnect` | order core (a query follows each login) |
| Runtime, reviews (`review.py`, `candidate.py`) | append-only review events with revision and digest | propose, revise, confirm, reject, consume | order core: a confirmation claims the command |
| Runtime, exit strategies (`strategy.py`) | strategies, reservations, request tokens | coordinate, trigger, claim children, cancel and replace | quotes, fills, order core |
| Runtime, U.S. orders (`kgi_us.py`, `us_contracts.py`) | cumulative totals per order, a bounded callback deque | as the order core | a second broker session |
| Service and supervisor (`service.py`, `launch.py`, `control.py`) | READY, STOP and receipt files, child process | launch, acknowledge stop, restart | the runtime process |
| Simulation ledger M2A (`execution_simulation`) | outbox, reservations, settlements over SQLite | admit, dispatch, apply, settle, recover at crash points | reducer, simulation gateway |

What makes these correct: a command reaches the broker at most once whatever
raises, dies or is retried; doubt about an outcome is recorded as doubt and
lifted only by evidence; a deal told twice is one fill; what the runtime shows
as an end is the broker's end; and a finished order does become known.  What
makes them hard: SDK callbacks run on their own thread and take no lane lock;
the SDK may raise after the effect; a crash may fall between any two
transactions; nobody drains observations at startup; reports may be stale.

### 1.2 Backend

| component | state it keeps | operations | interacts with |
|---|---|---|---|
| Job service (`jobs/service.py`, `cooperative.py`, `resumption.py`) | `JobRun` rows; in memory `_pending_tasks`, `_paused_tasks`, `_resuming_jobs`, `_active_enqueues`, `_enqueue_failures`, the pools | enqueue, continue, submit, run, pause, complete, scan, close and reopen admission, recover | workers, clients (requests, schedulers), runtime coordinator |
| Runtime coordinator (`runtime.py`, `runtime_admission.py`, `runtime_lock.py`) | restart lease, undo stack over all the owners, expiry | prepare, abort, commit, expire, startup | job service, HTTP admission, schedulers, collectors |
| Owned server (`owned_uvicorn.py`, `runtime_control.py`) | control conversation with the launcher | PREPARE, ABORT_PREPARE, STOP | coordinator, launcher |
| Viewer leases (`market_data/research_lease.py`) | public leases bound to provider leases | acquire, heartbeat with failover, release, expire | quote providers |
| Taiwan consumer demand (`jobs/taiwan_intraday_demand.py`) | queued demand rows with claim and deadline | enqueue, claim, finish, requeue at restart | job service |
| Scheduled dispatch (`dispatch/schedule_runs.py`, `service.py`) | schedule slots, deliveries | claim slot, send, retry, startup reconciliation | mail and chat senders |
| Crypto collectors (`crypto_market/ws_runtime.py`, ...) | pending buffer, websocket session | receive, flush, reconnect | SQLite |
| Market data gateway, domains, research, watchlists, portfolio, AI, routers, settings | mostly one transaction per request | request handlers | database, providers |

What makes these correct: closing admission for a restart loses no admitted job
and its quiescence lasts; a job has at most one future; a resumed job neither
repeats nor skips a committed period; every admitted job ends; a prepared
restart can always be undone; a slot is dispatched once; a released lease leaves
no provider lease behind.  What makes them hard: completion callbacks run on
worker threads, or on the submitting thread; decisions are taken outside the
lock that saw their reason; the pause of a job is a transaction that may fail;
an expiry races a commit.

`PROJECT.json` lists all 35 components, with the source files of each and, for
those not modelled, the reason.  Its `hazards` list has one entry per place
where the code is exposed to something a test would hardly reach, with the
properties that watch it or the planned module that will.

## 2. The modules and the code they stand for

```
OrderReducer                 one order and what one fact makes of it (constant level)
  |-- OfflineExecution       M1: preview, confirm, apply            MCOfflineExecution
  |     `-- OfflineProofs            all its invariants
  `-- ExecutionRuntime       the journal, the lane, the callbacks   MCExecutionRuntime
        `-- ExecutionRuntimeProofs   types; nothing is sent twice; doubt ends on evidence
              `-- EvidenceProofs     what the journal shows is what the broker did
StrategyExit                 exit strategies and the effect pump    MCStrategyExit
  `-- StrategyProofs                 the target is kept; journals replay; no claim is forgotten
NativeProcess                what a native process promises (abstract)
  |-- SessionLifecycle       the process, implements the promise    MCSessionLifecycle
  |     `-- SessionProofs            the refinement; one session; one late login
  `-- LaunchSupervisor       the supervisor, relies on the promise  MCLaunchSupervisor
        `-- LaunchProofs             STOPPED, final ends, nothing started twice
JobContinuation              the job service and restarts           MCJobContinuation
  `-- JobProofs                      one future, exact cursors, a quiet restart
MailDispatch                 scheduled mail                         MCMailDispatch
  `-- MailProofs                     one mail per run while passes do not overlap
```

The `MC` modules only add model values and symmetry sets; every constant gets
its value in a `.cfg`.  An operator whose comment begins with "Faulty" is the
mistaken form of the definition after it, used by the mutant of a property and
by no action.

### 2.1 OrderReducer

`Reduce(o, kind, total, quantity)` is `reduce_order`: controls (cancel
requested, timeout, reconcile) and reports (accepted, fills, cancelled,
rejected) with the checks of `validate_order_fact` as `Admits`.  An order core is
the record `[state, filled, cancelRequested]`.  Quantities are whole shares.

### 2.2 OfflineExecution (M1)

One preview.  `Preview` and `Confirm` are the two operations of
`ExecutionService`; `ApplyControlFact`, `ApplyReportFact` and `IgnoreReport` are
the outcomes of `apply`, and `Refuse` is any operation that raises (it still
moves the clock).  A fact carries an id, a kind, an instant, a sequence
number and a cumulative total, all of them chosen freely, because M1's facts come
from outside and may be repeated, out of order or contradictory.  The checks of
the draft are abstracted to "accepted": a refused draft leaves no state.

### 2.3 ExecutionRuntime

The order core of the runtime process and the broker around it.  **The lane** is
the command thread (submit, cancel, query and reconnect are serialised by one
lock); **the callback thread** runs SDK callbacks beside it.  Each action is one
SQLite transaction or one SDK call, so that a crash or the other thread may step
between any two.

| variables | code |
|---|---|
| `orders`, `stage`, `bound`, `cancelStage`, `doubtful` | columns of `orders`: the reducer's state, `submit_stage`, whether `broker_id` is set, `cancel_stage`, `reconcile_required` |
| `recorded`, `applied`, `fills` | tables `observations`, `applied`, `fills` |
| `running`, `lane`, `drainKey`, `draining` | process alive; local variables of the command in progress; the broker id a `_drain` is called for; the rows it selected |
| `trades` | trade objects retained by the SDK session (`pending_returns`) |
| `broker`, `brokerFilled`, `sends`, `cancels` | the environment, and ghost counts of effects |

| actions | code |
|---|---|
| `Claim`, `NotSent`, `SendRaises`, `Send`, `LaneUncertain`, `ReturnBinds`, `ReturnWithoutId`, `ReturnRejects`, `MarkReturned` | `_claim_command`, the submit path and `_bind`, `_rejected_return`, `_not_sent`, `_uncertain` |
| `StartQuery`, `QueryFails`, `QueryReads`, `ReturnsRaise`, `CollectBinds`, `CollectWithoutId`, `CollectRejects`, `Ingest`, `Reconcile` | `query`, `pending_returns`, `_ingest`, `_reconcile_snapshots` |
| `ClaimCancel`, `CancelRaises`, `SendCancel`, `CancelReturns` | `cancel` |
| `CallbackRecords`, `CallbackUnresolved`, `DrainSelects`, `Apply`, `AlreadyApplied`, `ApplyConflicts` | the event handler, `_record`, `_drain`, `_apply` |
| `Reconnect`, `Crash`, `Restart` | a new session in a live process, the end of the process, `_open_journal` |
| `BrokerFills`, `BrokerCancels` | the broker on its own |

Abstractions.  An order is a few shares and each deal fills exactly one, so a
cumulative quantity is a count of deals.  Money, prices and times are reduced to
whether the two tellings of a deal agree (`Disputed`).  An answer to a query is
drawn at the moment it is used from everything the broker can have said by then,
which includes all stale answers.  An observation is identified by order, kind,
deal and source: its repetitions are the same row, as the unique key of the
table makes them.  `Guarded` orders are those sent with a check immediately
before the effect (exits); only they can end as `NOT_SENT`.  A crash loses
`lane`, `drainKey`, `draining` and `trades`, and nothing else.

### 2.4 StrategyExit

Exit strategies as the runtime keeps them in its journal, with the effect pump.
The order core appears as what a strategy reads of it: whether the entry is
bound, ended or has a cancel claimed, its filled shares, and the stage of each
exit.

| variables | code |
|---|---|
| `entry`, `exits` | the entry order of a strategy and its child orders, from `orders` and `fills` |
| `target`, `enabled`, `asked` | `target_position`, `rules.enabled`, the number of requests in the journal |
| `phase`, `wake`, `pump`, `failed` | online, stopping or down; `_strategy_wake`; where `_strategy_loop` stands and the cancels and claims it has left; `strategy_error` |

| actions | code |
|---|---|
| `Revise`, `ExitAll`, `Reduce`, `PriceTrigger` | `revise_strategy`, `exit_strategy`, `_native_price` with `trigger_target` |
| `EntryBound`, `EntryFill`, `EntryEnds`, `ExitFill`, `ExitReported`, `Query` | callbacks and reads of the broker as `_bind` and `_apply` write them |
| `PumpTakesWake`, `Coordinate`, `CoordinateOffline`, `CancelEntry`, `Dispatch`, `PassEnds`, `PassRaises` | `_strategy_loop`, `_coordinate_strategies`, `_dispatch_claimed`, `_not_sent` |
| `RequestOffline`, `Stop`, `Crash`, `Restart` | `request_offline`, the end of the process, `_open_journal` with `_verify_strategies` |

Abstractions.  How much the inventory of an account lets a strategy sell is any
number (`ClaimPlans`); the creation of a strategy by a review, the age of a
price and sessions of several days are left out.

### 2.5 NativeProcess, SessionLifecycle and LaunchSupervisor

`NativeProcess` is an abstract specification: the order in which the lease, the
session and the startup receipt of a process change.  `SessionLifecycle` is the
process with its threads and implements it under the mapping
`session <- bound # 0`; `LaunchSupervisor` takes its steps as those of its child.
So what is shown of the supervisor holds of the real process.

| variables of `SessionLifecycle` | code |
|---|---|
| `process`, `lease`, `receipt` | the operating system process, `native-session.owner`, `startup-<id>.json` |
| `main`, `news`, `announced`, `raised`, `stopping` | `native_run` and `serve_runtime`: where the main thread stands and its local variables |
| `asked`, `reason`, `actual`, `started`, `lane`, `life` | `_desired` and `_lifecycle_stop`, `stop_reason`, `_actual`, the operation lock, where `_connection_loop` stands |
| `reconnect`, `stopper` | responders of the pipe: an operator reconnect, stops |
| `bound`, `lost`, `closeUnverified`, `factoryFailed` | `KgiSessionOwner` and the factory |
| `live`, `unconfirmed`, `logins`, `late` | ghosts: logins that may be alive at the broker, ... |

| actions | code |
|---|---|
| `Look` .. `SetOffline` (`ConnectionLoop`) | `_connection_loop` |
| `StopAsk`, `StopLook`, `StopWrite`, `StopPublish`, `StopUnpublished` | `request_offline` (the look and the write apart), `respond` |
| `ReconnectAdmitted`, `ReconnectLogsOut`, `ReconnectLogsIn`, `ReconnectReads` | `reconnect` of the runtime and of the owner |
| `CommandTakes`, `CommandEnds`, `Lost` | anybody else on the lane; a lost session |
| `TakeLease` .. `Exits` (`MainThread`), `ServeRaises`, `Crashes` | `native_run`, `serve_runtime`, `close`, `main` |

`LoginResults` has the seven ways a login can end (`_connect`).

| variables of `LaunchSupervisor` | code |
|---|---|
| `sup`, `knows`, `seen`, `stopSent` | where `supervise` stands, `stop_request`, `child_receipt`, whether the stop was sent |
| `handle` | `poll()` of the child, which is a launcher and not the interpreter |
| `status`, `acked` | `supervisor-status.json` |
| `request`, `ownerAlive`, `outside` | the stop file, the desktop launcher, another process with the lease |
| `final`, `launches`, `crashes` | a ghost and bounds |

`Supervise` is `supervise`, from the proof that nobody owns the session to the
spawn, the watch, the stop and the back-off; `RedirectorDies`, `SupervisorDies`,
`OwnerLost`, `Outsider`, `RequestStop` and `Launch` are its world.  An old
process becomes `outside` when a new supervisor is launched.  The launcher may end
at any time: before its process has asked for the lease, while it has it, after it.
`Unheard` is the first case as the supervisor sees it, a launcher that ended
before a receipt was read.

### 2.6 JobContinuation

The default pool of the job service and the part of a restart that concerns it.
Each action is one section under `_executor_lock` or one database transaction.

| variables | code |
|---|---|
| `status`, `saved`, `worked` | `JobRun.status`, the continuation in `result_json`, the periods whose transactions committed |
| `prepare` | `"open"`: `_accepting_jobs`; `"closed"`: after `request_job_pause`; `"prepared"`: after `jobs_paused` answered yes |
| `queue` | futures the pool has not started, part of `_pending_tasks` |
| `shelf` | `_paused_tasks`; a tag stands for the identity of a descriptor object |
| `at` | what each thread is doing, with its local variables; from it follow `_pending_tasks`, `_resuming_jobs` and `_active_enqueues` |
| `unresolved` | `_enqueue_failures` and failed pauses |

| actions | code |
|---|---|
| `Enqueue`, `Continue`, `SubmitNew`, `DeferNew`, `RefuseNew` | `enqueue_job`, `continue_job`, `submit_job_task` |
| `PersistPause`, `PersistFails`, `Publish` | `_persist_job_pause` and the publication of the descriptor |
| `Take`, `BeginHeld`, `Begin`, `Restore`, `WorkPeriod`, `Finish`, `ContextChanged`, `Complete` | `run_task`, `_restore_paused_job`, `cooperative.py`, `run_tracked_job`, the completion callback |
| `BeginScan`, `Look`, `Reserve`, `Resubmit`, `ResubmitRefused`, `PutBack`, `Release`, `Rearm`, `EndScan` | `_resume_ready_tasks` |
| `ClosePause`, `Prepared`, `Resume`, `OwnedRestart`, `ProcessDies`, `Recover` | `request_job_pause`, `jobs_paused`, `resume_jobs`, commit or crash, `mark_interrupted_jobs` and `resume_job_obligations` |

Abstractions.  Only the default pool: the market lanes, consumer demand and
dispatch tasks have state machines of their own
(`resumption.ORIGINAL_STATE_MACHINE_TASKS`).  The content of a period is data;
a job is `Periods` committed cursors, one for end-of-day jobs and repairs.  An
enqueue answered with an existing row changes nothing and is left out.  An
end-of-day job that was held counts as waiting until its callback pops it
(`Unbegun`), as its `started_at` does.  A stop
signal exists exactly while admission is closed, so it is not a variable.  A
completion callback that runs on the submitting thread, because the future was
already done, is covered by scans that run concurrently.  The terminal drain is
the same fence followed by the end of the process.  The wait of a parent for its
children is planned.

### 2.7 MailDispatch

The durable scheduler of mail (`dispatch_scheduler_v2`): runs, deliveries and
jobs in the database, and passes over them.  A pass is the tick, the
reconciliation or a request of the operator; each of its reads that another thread
can make old, and each of its commits, is an action, and what it has read in between
is in `pass`.

| variables | code |
|---|---|
| `run` | `DispatchScheduleRun`: `status`, whether the error code is DELIVERY_RESULT_UNKNOWN, whether the deadline for data is over, whether its snapshot is refused when it is read (`unreadable`, settled by the claim that writes it), `delivery_attempt_count`, `delivery_id`, `job_run_id` |
| `delivery` | `DispatchDelivery`: its run, its status and, as a ghost, the mails that went out |
| `job` | `JobRun` and where its thread stands |
| `pass` | local variables of each pass |

| actions | code |
|---|---|
| `Claim`, `Misfires` | `claim_due_schedule_slots`, `create_manual_run` |
| `Take`, `EvaluatesReady`, `EvaluatesUnready` | `process_schedule_run`, `evaluate_run_readiness` |
| `PrepareOk`, `PrepareRaises`, `SubmitOk`, `SubmitRaises` | `queue_schedule_run`, `_mark_run_queue_error` |
| `SnapshotRaises` | the part of `queue_schedule_run` before its `try`; it always raises for a run that is `unreadable` |
| `Resubmit` | `_resubmit_queued_schedule_run` |
| `ListsStale`, `StaleSending`, `StaleQueued`, `StaleDelivery`, `Recovers` | `reconcile_schedule_runs` on a stale run: the list, the branch for `sending`, the reads of the job and of the delivery, the write |
| `BreaksOff` | an error outside every `try` of a pass |
| `JobStarts`, `JobFails`, `MailGoesOut`, `SendOk`, `SendRaises` | `run_dispatch_schedule_run_job`, `send_delivery` |
| `Restart`, `DeadlinePasses` | `mark_interrupted_jobs` after the end of the process; time |

What the reconciliation sees of a stale run (`Seen`) is the status of its list, or,
once it has committed another run of that list, which makes its session read again,
the status of now.  The job and the delivery are read later still, each by a query
of its own; the write goes by the id of the run.

Abstractions.  A run that is taken up because it is due (`Take`, `Resubmit`) is read
and written in one step: nothing but another pass touches it then, since it has no job
in progress.  Time is two facts: a run may be stale at any moment (a slow
sender is not told from one that is gone), and its deadline passes once.  Whether
data is ready is any answer.  `retry_schedule_run` admits nothing, since every
terminal status comes with `retryable` false, and has no action.

## 3. What each run checks

Every run is exhaustive and takes a few minutes at most with two workers;
the `.cfg` files give the values.  Deadlock is not checked
(`CHECK_DEADLOCK FALSE`) where the system really may stop: a preview that has
taken all the facts and time there are (`offline_m1`), jobs or runs that all
ended, a process that exited.  It is checked in every run of `ExecutionRuntime`
and of `StrategyExit`: a live process can always query, and a dead one restarts.

| run | instance | what it shows |
|---|---|---|
| `offline_m1` | 2 shares, 3 fact ids, 2 sequences, instants 1..3, lifetime 2 | `StateAgreesWithFills`, `NewestReportWins`, `CancelledPreviewIsDead`: the order shows the newest report whatever was repeated, crossed or contradictory |
| `runtime_lifecycle` | one guarded order of one share, every callback kind that can change an order, 1 crash, 1 reconnect | `AtMostOneSend`, `AtMostOneCancel`, `NotSentMeansNotSent`, `NoSilentClaim`, `EndIsTrue`, `UnknownNeedsEvidence`, `EndsAreKept` |
| `runtime_fills` | one order of two shares, the second deal disputed, deal and doubt callbacks, 1 reconnect, no crash | `FillsAreReal`, `SettledMeansExplained`, `NothingForgotten`, `OnlyDisputesConflict` |
| `runtime_partials_settle` | two shares, no callbacks, 1 crash, fair | `EndingBecomesKnown` for a partial fill followed by a cancel, from queries alone |
| `strategy_passes` | one strategy of 2 shares, 2 requests, 3 exits, 1 pass that raises, 1 crash or stop | `KeepsTarget`, `ReplaysCleanly`, `ClaimIsOwned`, `ExitIsPursued`, `EntryIsCancelled` |
| `session_lifecycle` | 3 logins, one stop, 1 failure of a file or crash | `OneSession`, `OneLateLogin`, `KeepsPromise` (the refinement), `StopLetsGo`, `LossIsRepaired` |
| `launch_supervisor` | 2 launches, 1 death of the process, its launcher or the supervisor | `StoppedMeansReleased`, `EndIsFinal`, `SpawnsAlone`, `StopEndsSupervision` |
| `jobs_restart` | a repair and a yielding job of 2 periods, 1 worker, 1 client, 1 pause, 1 restart, 1 continuation, 1 failed pause | `PreparedIsQuiet`, `OneFuture`, `NoPeriodRepeated`, `PreparedLosesNothing` |
| `jobs_end` | an end-of-day job, a repair and a yielding job, 1 worker, 2 clients, fair, no restart | `EveryJobEnds` under the priority and deferral rules |
| `mail_dispatch` | 2 runs of 2 attempts, readable or not, one pass at a time, 2 deliveries, 1 fault (a restart, or a pass that breaks off), fair | `OneMailPerRun`, `StatusIsTrue`, `EveryRunEnds` |
| `session_stop_hangs`, `dispatch_doubled` | the smallest instances that show it | counterexamples, see [Findings](#6-findings) |

Why these bounds are enough for the questions.  Quantity 2 is the least that has
a partial fill, a late second deal and two rows to count twice; quantity 1 lets
the lifecycle run afford every callback kind, a crash and a reconnect at once.
A crash can fall between any two actions, and a second one finds a state the
first one could have left, because a crash keeps exactly the journal.  Strategies
meet only in the pump, which takes them one by one; two requests are the least
where one lowers what the other has set, and three exits let one that was not sent
be followed by its replacement and a further one.  Three logins are a first one,
a repair and a login after the stop; each failure of a login or logout leaves
the same few facts behind.  One death and two launches place every other death
between a process and its successor.  In the job service a worker, a client and the
control thread can all scan, so one of each lets three scans meet a submission,
and two periods are the least with a cursor that can be repeated or skipped; the
repair and end-of-day kinds bring the two priority rules; one pause, one restart
and one failure are each placed at every step.  Two mail runs share the job pool
and the faults and nothing else; two attempts are one that fails and one more, and
the one fault is placed at every step.
Symmetry is used for fact ids (`offline_m1`), whose members only ever appear in
quantifiers, and never under fairness.

`mail_dispatch` has one pass at a time because passes that overlap break
`OneMailPerRun`: that is what `dispatch_doubled` shows.  The theorems about
`MailDispatch` state the same restriction as a hypothesis.

### Properties

The statements, with the code they are about, precede each definition in the
modules.  In short:

* **AtMostOneSend / AtMostOneCancel**: effects at the broker happen at most once
  per order, whatever raises, dies or is asked again; a cancel only after a send
  and with a known broker id.
* **NoSilentClaim**: while the process is up no order is claimed and pending but
  the one in progress.
* **NotSentMeansNotSent**: `NOT_SENT` is a proof, and is never doubted again.
* **UnknownNeedsEvidence / EndsAreKept** (action properties): `UNKNOWN` is left
  on evidence only; fills are never taken back, an end is kept except that late
  deals turn a cancelled order into a filled one.
* **FillsAreReal / EndIsTrue / SettledMeansExplained**: what the journal shows
  relates to what the broker did.
* **NothingForgotten / OnlyDisputesConflict**: no callback falls between bind and
  drain; the reducer refuses nothing that an honest broker says.
* **EndingBecomesKnown** (liveness): a finished order is shown finished, with
  every fill and without doubt.
* **KeepsTarget / ReplaysCleanly / ClaimIsOwned**: no share below the target is
  put up for sale; the startup accepts what the runtime wrote; no claim is left
  to nobody while no pass has raised.
* **ExitIsPursued / EntryIsCancelled** (liveness): no wake is lost.
* **OneSession / OneLateLogin**: never two sessions at the broker, and one login
  at most after a stop.
* **KeepsPromise**: `SessionLifecycle` implements `NativeProcess`.
* **StopLetsGo / LossIsRepaired** (liveness): a stop ends the worker; a lost
  session is replaced or given up in the open.
* **StoppedMeansReleased / EndIsFinal / SpawnsAlone / StopEndsSupervision**: what
  the supervisor says of a process that let go is so, unless its launcher ended
  before it was heard of; an end is final; nothing is started beside a process that
  holds the lease; a stop request ends it.
* **PreparedIsQuiet / PreparedLosesNothing**: the quiescence a restart relies on
  lasts, and every admitted job has ended, is durably paused or is reported as
  uncertain.
* **OneFuture / NoPeriodRepeated / EveryJobEnds**: one future per job, exact
  cursors in lawful pauses, and an end for every job that is not a repair.
* **OneMailPerRun / StatusIsTrue / EveryRunEnds**: a run sends its mail once, its
  status says whether it did, and it ends.  Two exceptions are part of the
  statements: a run overwritten by a stale read waits for a retry that is refused
  (`Lost`), and one whose snapshot cannot be read is taken up for ever.  Section 6 has
  both.

## 4. Fairness

`ExecutionRuntime!Fairness`: weak fairness of the lane's remaining steps, of each
thread's drain, of the restart (the supervisor relaunches the child) and of
starting a query (the connection loop queries with each heartbeat); strong
fairness of a query that is read, of the ingestion of each report row the broker
has, and of a comparison with the broker's present answer.  The last three say
that the broker is not mute for ever: failed queries may alternate with good
ones, but good ones come again.  They are strong because a query is not
continuously enabled: the lane passes through it.  Nothing is assumed of
callbacks, clients, cancels or the broker's moves.  A retained trade that can
never be parsed would break this assumption (`kgi.py:655`).

`StrategyExit!Spec`: weak fairness of the pump, a thread of its own whose SDK
calls return or raise.  `EntryIsCancelled` assumes in its statement that reads
keep succeeding, since only a read brings a broker id that a callback lost.

`SessionLifecycle!FairSpec`: weak fairness of each thread while the process runs:
the worker, the main thread, the responders that have begun, and whoever holds
the lane.  Nobody has to stop, reconnect, lose a session or crash.

`LaunchSupervisor!FairSpec`: weak fairness of the supervisor and of the system
telling it of an exit.  That the process ends when told to is a hypothesis of
`StopEndsSupervision`, not an assumption.

`JobContinuation!FairSpec`: weak fairness of each thread's progress (the threads
of the pool run), of ending a preparation one way or the other (the coordinator
aborts, commits or expires it) and of the recovery at startup.  Nobody is obliged
to enqueue, to continue a repair or to restart.  `Take` is under the fairness of
its worker, which is all that a thread pool promises.

`MailDispatch!FairSpec`: weak fairness of each pass and of each job in progress
and of time; strong fairness of the reconciliation of each run, which is enabled
again and again between the passes of the scheduler and not all the time.  With
strong fairness for each run the one that is taken up for ever keeps no other from
its turn: that is so while such runs are fewer than the limit of the list of due runs,
which are taken oldest first (`service.py:1155-1164`).  A pass that
breaks off is a fault, of which there are finitely many; nothing is assumed of
restarts.

## 5. What is proved

Each theorem holds for every value of the constants that satisfies the one named
assumption of its module, which TLC evaluates in the runs: bounds are natural
numbers (some positive), `Guarded` is a set of orders, `NoOrder` not one of them.
The sets of orders, strategies, jobs, responders, runs and processors may be infinite and
their members anything; only the threads of `JobContinuation` are finitely many, since
its tags are (`NewTagIsTag` proves that one is always left).

Every invariant and every action property that a run checks is stated by a theorem here
(of `MailDispatch` under `OnePass`); what is left to TLC alone is liveness.

| theorem | module | statement |
|---|---|---|
| `TypeCorrect` | `ExecutionRuntimeProofs` | `Spec => []TypeOK` |
| `SentAtMostOnce` | `ExecutionRuntimeProofs` | `Spec => []AtMostOneSend` |
| `CancelledAtMostOnce` | `ExecutionRuntimeProofs` | `Spec => []AtMostOneCancel` |
| `NotSentIsProof` | `ExecutionRuntimeProofs` | `Spec => []NotSentMeansNotSent` |
| `UnknownEndsOnEvidence` | `ExecutionRuntimeProofs` | `Spec => UnknownNeedsEvidence` |
| `FillsCountedOnce` | `EvidenceProofs` | `Spec => []FillsAreReal` |
| `EndsAreTrue` | `EvidenceProofs` | `Spec => []EndIsTrue` |
| `EndsStay` | `EvidenceProofs` | `Spec => EndsAreKept` |
| `ReducerRefusesNothingElse` | `EvidenceProofs` | `Spec => []OnlyDisputesConflict` |
| `SettledIsExplained` | `EvidenceProofs` | `Spec => []SettledMeansExplained` |
| `ClaimsAreHeld` | `EvidenceProofs` | `Spec => []NoSilentClaim` |
| `NothingIsForgotten` | `EvidenceProofs` | `Spec => []NothingForgotten` |
| `OfflineTypeCorrect` | `OfflineProofs` | `Spec => []TypeOK` |
| `FillsAgree` | `OfflineProofs` | `Spec => []StateAgreesWithFills` |
| `NewestWins` | `OfflineProofs` | `Spec => []NewestReportWins` |
| `CancelledStaysDead` | `OfflineProofs` | `Spec => []CancelledPreviewIsDead` |
| `StrategyTypeCorrect` | `StrategyProofs` | `Spec => []TypeOK` |
| `TargetIsKept` | `StrategyProofs` | `Spec => []KeepsTarget` |
| `JournalsReplay` | `StrategyProofs` | `Spec => []ReplaysCleanly` |
| `ClaimsHaveOwners` | `StrategyProofs` | `Spec => []ClaimIsOwned` |
| `NoQuantityConflict` | `StrategyProofs` | `Spec => []QuantitiesAgree`: exited <= committed <= entered |
| `SessionTypeCorrect` | `SessionProofs` | `Spec => []TypeOK` |
| `NeverTwoSessions` | `SessionProofs` | `Spec => []OneSession` |
| `StopAllowsOneLogin` | `SessionProofs` | `Spec => []OneLateLogin` |
| `SessionImplementsNative` | `SessionProofs` | `Spec => KeepsPromise`, that is `Promise!NativeSpec` |
| `LaunchTypeCorrect` | `LaunchProofs` | `Spec => []TypeOK` |
| `StoppedLetsGo` | `LaunchProofs` | `Spec => []StoppedMeansReleased` |
| `EndsStayEnds` | `LaunchProofs` | `Spec => EndIsFinal` |
| `OneAtATime` | `LaunchProofs` | `Spec => SpawnsAlone` |
| `JobTypeCorrect` | `JobProofs` | `Spec => []TypeOK` |
| `PreparedStaysQuiet` | `JobProofs` | `Spec => []PreparedIsQuiet` |
| `JobsRunOnce` | `JobProofs` | `Spec => []OneFuture` |
| `NoPeriodIsRepeated` | `JobProofs` | `Spec => []NoPeriodRepeated` |
| `PreparedRestartLosesNothing` | `JobProofs` | `Spec => []PreparedLosesNothing` |
| `MailOrderKept` | `MailProofs` | `OnePass => (Spec => []MInv)`, with `TypeOK` in `MInv` |
| `OneMailAlone` | `MailProofs` | `OnePass => (Spec => []OneMailPerRun)` |
| `StatusTrueAlone` | `MailProofs` | `OnePass => (Spec => []StatusIsTrue)` |

**ExecutionRuntime.**  `TypeOK` is inductive as it stands.  It is more than a formality here: that what
an order shows as filled stays within its quantity rests on the checks of the
reducer at each of its callers, which the lemmas `StepType`, `CallersType`,
`DealType`, `AnswerType` and `AfterType` state once; `TotalType` bounds the count
of deals (finite cardinalities).

`AtMostOneSend` is not inductive.  An order in stage `CLAIMED` may or may not
have been sent; only where the lane stands tells which.  And an order that was
never sent is left alone by callbacks and queries only because no thread holds an
observation of it.  `Dispatch` is the strengthening, in
three parts: `OrderDispatch` relates the rows of one order to the calls made for
it; `LaneDispatch` says what the command in progress knows (at "claimed" nothing
was sent, at "cancelling" no cancel was, ...); `HandsDispatch` says that retained
trades and observations in hand belong to orders that were sent.  There is one
lemma per group of actions (`SubmittingKeeps`, `QueryingKeeps`,
`CancellingKeeps`, `CallbackKeeps`, `DrainingKeeps`, `LifecycleKeeps`,
`BrokerKeeps`), and the three invariants follow from `Dispatch`.
`UnknownEndsOnEvidence` uses the same invariant: a step out of `UNKNOWN` is a
binding query, a drain of a bound order, or a rejection the trade object shows.

`EvidenceProofs` relates the journal to the broker, which the code cannot see, in layers
that are each inductive on the ones before.  `Told`: whatever was recorded was said by
the broker, whatever was filled it filled, and a deal counts from one source only.
`Shown`: what an order shows as filled is the number of its deals, its state agrees with
that number and with the cancel, and a cancelled or rejected one is so at the broker (or
is proved not sent).  These two carry `FillsAreReal`, `EndIsTrue`, `EndsAreKept` and
`OnlyDisputesConflict`: the reducer refuses an honest fact only if the state it meets
could not have come about.  `Settled` adds that an order out of doubt is bound and in a
state the broker's answer has: the comparison that ends doubt leaves it in one
(`ResolvedIsSettled`), and it keeps that state until it is in doubt again (`ClearSteps`).
`Held`: a claim that shows `PENDING` is the
lane's.  `InHand`: an observation of a bound order that is recorded and not applied is
either in a thread's hands, or about to be selected, or disputed with its order in
doubt; it is said until the first crash, which drops what the threads hold.

**OfflineExecution.**  The invariants are inductive together with `PreviewOrder`: of a
preview nothing was heard, and reports have positive sequences.  The work is in the
reducer: `ControlAgrees` and `ReportAgrees` say that whatever it admits leaves a state that
agrees with the quantity.

**SessionLifecycle.**  `OneSession` counts what may be alive at the broker, which
the code never sees.  `SInv` ties it to what the code does see.  `OwnerOrder`:
until the factory has failed only the bound login may be alive, and after that
nothing is bound and nothing logs in again.  `LaneOrder`: who is in the middle of
a login holds the lane, and finds no binding.  `LateOrder`: a login after the stop
was past its check before it.  `MainOrder` and `ReceiptOrder`: how far the main
thread is tells who holds the lease and what the receipt says.  The last two are
what the refinement needs: that `Release` happens without a session, `Leave`
after it, and `Exit` only under a receipt that says so.

**LaunchSupervisor.**  What the supervisor has read is old when it uses it.
`SupervisorOrder` says what stays true meanwhile: between two children no launcher
is alive, so the last word that was heard cannot change; and a supervisor on its way
to a start has heard of no end, and of its last child that it was READY.  The proof
that the lease is free says less than it seems: the process may have given it back or
failed before it asked (`LetGo`, which cannot be undone, since a process takes the
lease once and before its first receipt), or it may have to ask yet, and then it
was never heard of (`Unheard`).  A start after a crash needs a receipt READY, so
`SpawnsAlone` holds without exception; STOPPED needs none, so `StoppedMeansReleased`
has one, and without it the statement is false (section 6).

**StrategyExit.**  `KeepsTarget` is not inductive: sending an exit rewrites it, and
only an exit that was claimed and never touched is safe to rewrite.  `SInv` adds
what the pump holds (claims only in the effects of a pass and of a process that is up,
each the last exit of its strategy and still CLAIMED), what an exit shows
(`Accounted`: no more fills than it keeps, none before it is sent) and where a strategy
starts (`Sold`: no target, no exits; the first target is measured against the entry
alone).  `SoldKeeps` says in one place why a step that only releases shares keeps the
target; `CoordinateKeeps` that a claim takes no more than `Available`, and that it is
`Backed` by what it was computed from.  A bound of the model needed strengthening too: a
process that is stopping has a crash left to count.  The same invariant gives a theorem
that no run checks: the requirement of `quantities` (`strategy.py:246`), that exits show
at most what is committed and that at most what was entered, never fails.

The shares are sums over the exits of a strategy, `Total`, a recursive function.  What a
recursive function computes is out of the provers' reach in general; what is needed of
this one is not.  `TotalSums` shows that its partial sums exist, by induction on a set of
numbers (`AllNumbers`, from the well-foundedness of the naturals: the library's own
induction theorems take a predicate).  `TotalNat`, `TotalEmpty`, `TotalAppend` and
`TotalAtMost` follow and are all that the other proofs use.

**JobContinuation.**  `OneFuture` is not inductive: a job about to be submitted must
have no future, and no thread but the one that submits it.  `JobInv` follows a job from
hand to hand.  `ThreadsAlone`, `QueueAlone`, `ShelfAlone` and `RecoverAlone` say that it is with one
thread, in one future, on the shelf or in the startup's hands, with the two overlaps the code has: a
future that ended and was not popped yet may stand beside the continuation of a repair, and
beside the shelf.  `ThreadRow`, `QueueRow` and `JobRow` say what the database holds of a job
in each of these places; with them a cursor in somebody's hands is the last one
committed, which is `NoPeriodRepeated`.  `ControlRests` is why a prepared runtime stays
quiet: the control thread is not at the shelf while admission is closed.
`PreparedLosesNothing` needs the converse too (`Owned`): a row that neither ended nor is
paused is with somebody, or is marked as unresolved.

**MailDispatch.**  `MInv` says how the three tables point to each other: the one
job of a run that is not done is its newest, a run has one delivery, and a status
fixes whether its mail may have gone out (`MailFits`).  What the reconciliation has
read is old when it writes, since jobs go on meanwhile: `StaleFits` says what its reads
still show (the job of a run listed as sending has started, one that was seen to fail is
done, a delivery that was seen to succeed stays so), and `RecoversKeeps` that what it then writes over a run
that was mailed leaves it `Lost`, never due for another mail.  `MInv` is inductive only
while no two passes overlap (`OnePass`).

Only model-checked: the liveness properties (`EndingBecomesKnown`, `EveryJobEnds`,
`ExitIsPursued`, `EntryIsCancelled`, `StopLetsGo`, `LossIsRepaired`,
`StopEndsSupervision`, `EveryRunEnds`), since fairness and ENABLED are outside the
prover; and the two violated properties of section 6, which are false.

## 6. Findings

Two disagreements, each shown by a run that TLC finds violated.

1. **A stop that never completes** (`session_stop_hangs`, `StopCompletes`;
   `execution_runtime/runtime.py:205`).  `request_offline` looks at `_actual` and
   then writes STOPPING, without a lock.  If the connection worker sees the stop,
   logs out and writes OFFLINE in between, nobody writes `_actual` again, and
   `serve_runtime` waits for OFFLINE for ever (`service.py:190-193`), with the
   lease held and no session.
2. **Two mails for one run** (`dispatch_doubled`, `OneMailPerRun`;
   `backend/app/dispatch/service.py:941`).  A run that was just claimed is due at
   once, so the reconciliation, a scheduler job of its own, may take it while the
   tick still prepares its delivery.  `queue_schedule_run` checks the status before
   it builds the preview and writes over it afterwards: both queue a delivery and
   both are sent.

Two more weaknesses are stated as exceptions of properties that hold otherwise; take an
exception out of its property, and TLC shows the trace.

* **STOPPED before the process has started** (`Unheard` in `StoppedMeansReleased`;
  `execution_runtime/launch.py:195-205`).  The proof that the owner is gone takes the
  lease of the native process and gives it back.  If the launcher of the interpreter
  ends before the interpreter has asked for that lease, and a stop is requested, the
  free lease is taken for a released one: `STOPPED`, `owner_released`, is published,
  and the process takes the lease and logs in afterwards.
* **A mail that may be out is called unsent** (`Lost` in `StatusIsTrue` and
  `EveryRunEnds`; `backend/app/dispatch/service.py:1203-1224`).  The reconciliation
  lists a run as queued; its job starts, sends and raises; the pass then reads that the
  job has failed and writes `retry_wait`, "interrupted before SMTP delivery started",
  over DELIVERY_RESULT_UNKNOWN.  `_resubmit_queued_schedule_run` refuses the delivery
  (`:1066-1069`), so no second mail goes out, but the run says what is not so and is
  refused for ever.

Observations that no run states, met while modelling:

* An enqueue refused by a closed admission publishes its pause after `resume_jobs`
  may have scanned (`jobs/service.py:1137-1141`): nobody scans again until some
  other job completes.  Likewise a scan that is refused puts its repair back outside
  the section that saw the pool busy (`:877-879`).  `EveryJobEnds` is therefore not
  said of repairs and is checked without restarts.
* `continue_job` does not count a pause that fails to commit (`:1186-1194`),
  unlike `enqueue_job`; `PreparedLosesNothing` excludes it.
* A claim of a pass that raised stays CLAIMED until the next startup
  (`runtime.py:1341`); `ClaimIsOwned` excludes it.  A refused exit
  records how many requests there were when it was refused (`_not_sent`, `:1168`), not
  when it was claimed: one made in between is skipped as if it were the refused one,
  where the comment at `:1363` only means that one ("never replay the failed intent").
* A refused login whose logout is not confirmed leaves a session that no object
  stands for, and the lease is released all the same (`native.py:219-224`).
* A process that lost its launcher and accepts a stop during the back-off of its
  supervisor is started again, since its receipt is not read a second time; `final`
  in `EndIsFinal` counts only what was said while the launcher lived.
* A schedule snapshot that cannot be read raises outside the guarded part of
  `queue_schedule_run` (`dispatch/service.py:945-956`): its run stays claimed and is
  tried for ever.  `EveryRunEnds` excludes such runs; `mail_dispatch` has them.

## 7. What is not modelled, and why

* Draft validation, gateway ranking, portfolio valuation, radar scoring, slot
  computation, readiness rules: functions of decimal, calendar or market data
  without concurrency, which unit tests reach.
* Process pipes, Windows handles, the native SDK worker, senders, the frontend,
  the MCP server, AI answers: I/O and text.
* Most of the repository by lines: market domains, presentation, migrations and
  tables, whose operations are one transaction each.  They keep no state between
  two steps that the order of steps could break.
* Market lanes and slots, the wait of a parent for its children, listing queries of
  the job service: left out of `JobContinuation`, which is therefore "partly".
* Reviews, the U.S. path, viewer leases, consumer demand, the restart coordinator
  over all its owners, the simulation ledger: they have hazards of their own
  (listed without a property) and are what the plan has left.
* A failure to record a failure of a mail: a `fail_job` that raises itself, for the
  pass that could not submit or for the job, leaves its run queued or sending until the
  next restart.
* An end-of-day job together with a pause of admission: no run has both, so that the two
  runs of the job service stay affordable; the theorems hold of both.
* Two orders on one lane: one instance with reports only was affordable and showed
  nothing that a single order does not; what is proved holds for any number.
* A checkpoint that is notified again after a rollback without advancing (a job
  running with cursor 0) is not told apart from one that did not start.

## 8. Plan

Left, in this order, because of what each protects:

1. **ViewerLease** (`research_lease.py`): acquire, heartbeat with failover and
   release, each with its provider call outside the lock; no provider lease without
   a tracked public lease once all calls have returned.
2. **RestartPreflight**: the undo stack over all owners, expiry against commit,
   PREPARE / ABORT_PREPARE / STOP; composes with `JobContinuation` as one owner.
3. **ReviewWorkflow** on top of `Claim`: revision and digest compare-and-set, one
   consumption per confirmation.
4. **OrderPromise** (abstract): an order is not sent, in doubt, working or ended;
   `ExecutionRuntime` implements it, and `StrategyExit` relies on it.
5. Job children, **ConsumerDemand**, **SimulationOutbox**, and the U.S. totals as a
   variant of `ExecutionRuntime`.

Theorems, next: the refinement of `OrderPromise` by `ExecutionRuntime` from `Dispatch`
and `Shown`, and of what `StrategyExit` assumes of an order; `MailDispatch` without
`OnePass`, for the runs of which no two passes have met.

## 9. Running the checks

```
tlasany JobContinuation.tla
tlc -workers 2 -config RuntimeLifecycle.cfg MCExecutionRuntime
tlc -workers 2 -config MailDispatch.cfg MCMailDispatch
tlapm JobProofs.tla
```

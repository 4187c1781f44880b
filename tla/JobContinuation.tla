--------------------------- MODULE JobContinuation ---------------------------
(***************************************************************************)
(* The job service (backend/app/jobs/service.py): durable JobRun rows run  *)
(* by a thread pool whose admission an owned restart can close and reopen. *)
(*                                                                         *)
(* Closing admission loses no job: what runs stops at its next safe point, *)
(* what has not started does not start, and both are saved as PAUSED rows  *)
(* and put on "the shelf" (_paused_tasks).  Whoever completes a future, or *)
(* reopens admission, scans the shelf and resubmits what it finds.         *)
(*                                                                         *)
(* Three sorts of threads run at once: the workers of the pool, which also *)
(* run the completion callbacks, the clients that enqueue (requests and    *)
(* scheduler jobs), and the control thread that prepares a restart.  Every *)
(* action is one section under _executor_lock or one database transaction. *)
(*                                                                         *)
(* An operator commented "Faulty" is a plausible mistake in the definition *)
(* that follows it, which some property must catch; no action uses it.     *)
(***************************************************************************)
EXTENDS Naturals, Sequences, FiniteSets

CONSTANTS
  Jobs, NoJob,
  Eod,          \* TW end-of-day jobs: go first, and stop only when finished
  Repairs,      \* TW historical repairs: only taken by an empty pool
  Yielding,     \* jobs that give the worker back after every period
  Periods,      \* periods of work of any job that is not Eod or a repair
  Workers, Clients, Control,
  MaxPauses,    \* bound: times admission is closed
  MaxRestarts,  \* bound: process ends, owned or not
  MaxRearms,    \* bound: times a finished repair is continued
  MaxFaults     \* bound: failed pause transactions

Threads == Workers \cup Clients \cup {Control}

ASSUME JobAssumption ==
  /\ NoJob \notin Jobs
  /\ Eod \subseteq Jobs /\ Repairs \subseteq Jobs /\ Yielding \subseteq Jobs
  /\ Eod \cap Repairs = {} /\ Yielding \cap (Eod \cup Repairs) = {}
  /\ Workers \cap Clients = {} /\ Control \notin Workers \cup Clients
  /\ IsFiniteSet(Threads) /\ Workers # {}
  /\ Periods \in Nat \ {0}
  /\ {MaxPauses, MaxRestarts, MaxRearms, MaxFaults} \subseteq Nat

(* Faulty: one period too many. *)
OneMore(j) == Periods + 1
Work(j) == IF j \in Eod \cup Repairs THEN 1 ELSE Periods

(* Only work with audited safe points reacts to a stop signal.             *)
Cooperates(j) == j \notin Eod \cup Repairs

(* A saved continuation: the status to go back to and the committed cursor.*)
(* Cursor 0 is "not_started".                                              *)
Continuation == [prev : {"queued", "running"}, cursor : 0 .. Periods]
NoContinuation == [prev |-> "none", cursor |-> 0]

(* Descriptors on the shelf are compared by identity.  Tags stand for the  *)
(* objects: 0 is no descriptor, and a new one is none that anybody holds.  *)
Tags == 1 .. Cardinality(Threads) + 2

(* Where a thread is.  From "taken" to "finished" it runs a future; from   *)
(* "rescan" to "rearmed" it scans the shelf.                               *)
Running == {"taken", "restoring", "working", "pausing", "publishing", "finished"}
Reserving == {"resubmitting", "refused", "returned", "submitted"}
Points == {"idle", "created", "rescan", "scanning", "checking", "rearmed", "recover"}
            \cup Running \cup Reserving

VARIABLES
  \* the database: durable
  status,      \* JobRun.status
  saved,       \* the continuation in result_json
  worked,      \* periods whose transaction committed
  \* the process: lost when it ends
  prepare,     \* "open", or the restart preparation: "closed", "prepared"
  queue,       \* futures the pool has not taken: <<[job, resuming], ...>>
  shelf,       \* _paused_tasks: the tag of each job's descriptor, or 0
  at,          \* what each thread is doing
  unresolved,  \* jobs whose durable outcome is uncertain (_enqueue_failures)
  pauses, restarts, rearms, faults

rows == <<status, saved, worked>>
counters == <<pauses, restarts, rearms, faults>>
vars == <<rows, prepare, queue, shelf, at, unresolved, counters>>

Thread == [point : Points, job : Jobs \cup {NoJob}, cursor : 0 .. Periods,
           resuming : BOOLEAN, rescans : BOOLEAN, tag : {0} \cup Tags,
           todo : SUBSET Jobs]

Doing(point, j) ==
  [point |-> point, job |-> j, cursor |-> 0, resuming |-> FALSE,
   rescans |-> FALSE, tag |-> 0, todo |-> {}]
Idle == Doing("idle", NoJob)

TypeOK ==
  /\ status \in [Jobs -> {"none", "queued", "running", "paused", "success", "error"}]
  /\ saved \in [Jobs -> Continuation \cup {NoContinuation}]
  /\ worked \in [Jobs -> 0 .. Periods]
  /\ prepare \in {"open", "closed", "prepared"}
  /\ queue \in Seq([job : Jobs, resuming : BOOLEAN])
  /\ shelf \in [Jobs -> {0} \cup Tags]
  /\ at \in [Threads -> Thread]
  /\ unresolved \subseteq Jobs
  /\ pauses \in 0 .. MaxPauses /\ restarts \in 0 .. MaxRestarts
  /\ rearms \in 0 .. MaxRearms /\ faults \in 0 .. MaxFaults

Init ==
  /\ status = [j \in Jobs |-> "none"]
  /\ saved = [j \in Jobs |-> NoContinuation]
  /\ worked = [j \in Jobs |-> 0]
  /\ prepare = "open" /\ queue = <<>>
  /\ shelf = [j \in Jobs |-> 0]
  /\ at = [t \in Threads |-> Idle]
  /\ unresolved = {}
  /\ pauses = 0 /\ restarts = 0 /\ rearms = 0 /\ faults = 0
-----------------------------------------------------------------------------
Open == prepare = "open"

(* _pending_tasks: futures submitted and not yet popped by their callback. *)
Queued(j) == \E i \in DOMAIN queue : queue[i].job = j
Runs(t, j) == t \in Workers /\ at[t].point \in Running /\ at[t].job = j
Pending(j) == Queued(j) \/ \E t \in Workers : Runs(t, j)
Reserved(j) == \E t \in Threads : at[t].point \in Reserving /\ at[t].job = j

(* A worker that has an end-of-day job and has not begun it.  Such a job   *)
(* pauses only before it begins, and ends its row once it has begun.       *)
Unbegun(w) ==
  \/ at[w].point \in {"taken", "pausing", "publishing"}
  \/ at[w].point = "finished" /\ status[at[w].job] \notin {"success", "error"}

(* A TW end-of-day future that has not begun: one that was held counts     *)
(* until its callback pops it.                                             *)
EodWaiting ==
  \E j \in Eod : Queued(j) \/ \E w \in Workers : Runs(w, j) /\ Unbegun(w)

(* A repair is only admitted to a pool without any pending future.         *)
Deferred(j) == j \in Repairs /\ \E k \in Jobs : Pending(k)

Submitted(j, resuming) == Append(queue, [job |-> j, resuming |-> resuming])

(* Faulty: only futures count. *)
OnlyFutures(t) == t \in Workers /\ at[t].point \in Running
(* Faulty: a completion callback is not owned work. *)
CallbackIsFree(t) == at[t].point \notin {"idle", "rescan", "scanning", "checking", "rearmed"}
(* _active_enqueues counts enqueues from admission to return, callbacks    *)
(* and recoveries; a future counts until its callback pops it.             *)
Counted(t) == at[t].point # "idle"
Quiescent == queue = <<>> /\ \A t \in Threads : ~Counted(t)

Goto(t, point) == at' = [at EXCEPT ![t].point = point]
Rest(t) == at' = [at EXCEPT ![t] = Idle]

(* A future that only its callback is left of; a scan between two jobs.    *)
Done(w) == at' = [at EXCEPT ![w] = Doing("finished", at[w].job)]
Scan(todo) == [Doing("scanning", NoJob) EXCEPT !.todo = todo]

NewTag(j) ==
  CHOOSE g \in Tags : g # shelf[j] /\ \A t \in Threads : at[t].job = j => at[t].tag # g
-----------------------------------------------------------------------------
(* Clients. *)

(* enqueue_job: admission, then the row is inserted.  Duplicates of a job  *)
(* are answered with the row that is there, which changes nothing.         *)
Enqueue(t, j) ==
  /\ t \in Clients /\ at[t] = Idle /\ Open
  /\ status[j] = "none"
  /\ status' = [status EXCEPT ![j] = "queued"]
  /\ at' = [at EXCEPT ![t] = Doing("created", j)]
  /\ UNCHANGED <<saved, worked, prepare, queue, shelf, unresolved, counters>>

(* continue_job: a finished repair is queued again for its next step.  The *)
(* update is conditional on a terminal status.  A client that is resuming  *)
(* is inside continue_job, any other inside enqueue_job.                   *)
Continue(t, j) ==
  /\ t \in Clients /\ at[t] = Idle /\ Open
  /\ j \in Repairs /\ status[j] \in {"success", "error"}
  /\ rearms < MaxRearms /\ rearms' = rearms + 1
  /\ status' = [status EXCEPT ![j] = "queued"]
  /\ worked' = [worked EXCEPT ![j] = 0]
  /\ at' = [at EXCEPT ![t] = [Doing("created", j) EXCEPT !.resuming = TRUE]]
  /\ UNCHANGED <<saved, prepare, queue, shelf, unresolved, pauses, restarts, faults>>

SubmitNew(t) ==
  LET j == at[t].job IN
  /\ at[t].point = "created" /\ Open /\ ~Deferred(j)
  /\ queue' = Submitted(j, FALSE)
  /\ Rest(t)
  /\ UNCHANGED <<rows, prepare, shelf, unresolved, counters>>

(* No room for a repair: it is saved as paused, and the shelf is scanned   *)
(* afterwards because the pool may have emptied meanwhile.                 *)
DeferNew(t) ==
  /\ at[t].point = "created" /\ Open /\ Deferred(at[t].job)
  /\ at' = [at EXCEPT ![t].point = "pausing", ![t].rescans = TRUE]
  /\ UNCHANGED <<rows, prepare, queue, shelf, unresolved, counters>>

(* Admission closed between the insert and the submit: saved as paused.    *)
RefuseNew(t) ==
  /\ at[t].point = "created" /\ ~Open
  /\ Goto(t, "pausing")
  /\ UNCHANGED <<rows, prepare, queue, shelf, unresolved, counters>>
-----------------------------------------------------------------------------
(* Saving a pause, by the worker that runs the job or the client that      *)
(* could not submit it (_persist_job_pause).                               *)

(* Faulty: a continuation paused again before it starts begins afresh. *)
Fresh(j, cursor) == [prev |-> IF saved[j] = NoContinuation THEN status[j] ELSE saved[j].prev,
                     cursor |-> cursor]
Descriptor(j, cursor) ==
  IF saved[j] = NoContinuation
    THEN [prev |-> status[j], cursor |-> cursor]
    ELSE [prev |-> saved[j].prev, cursor |-> IF cursor = 0 THEN saved[j].cursor ELSE cursor]

(* validate: "not_started" goes with a queued row, a cursor with a running *)
(* one.                                                                    *)
Lawful(d) == d.prev = (IF d.cursor = 0 THEN "queued" ELSE "running")

PersistPause(t) ==
  LET j == at[t].job
      d == Descriptor(j, at[t].cursor)
  IN
  /\ at[t].point = "pausing" /\ Lawful(d)
  /\ status' = [status EXCEPT ![j] = "paused"]
  /\ saved' = [saved EXCEPT ![j] = d]
  /\ at' = [at EXCEPT ![t].point = "publishing", ![t].cursor = 0, ![t].resuming = FALSE]
  /\ UNCHANGED <<worked, prepare, queue, shelf, unresolved, counters>>

(* The transaction fails, or the descriptor is refused: the row stays as   *)
(* it is and its outcome is uncertain.  run_task and enqueue_job count it  *)
(* as such; continue_job lets the exception pass.                          *)
PersistFails(t) ==
  LET j == at[t].job IN
  /\ at[t].point = "pausing"
  /\ IF Lawful(Descriptor(j, at[t].cursor))
       THEN faults < MaxFaults /\ faults' = faults + 1
       ELSE UNCHANGED faults
  /\ unresolved' = IF t \in Clients /\ at[t].resuming THEN unresolved
                                                    ELSE unresolved \cup {j}
  /\ IF t \in Workers THEN Done(t) ELSE Rest(t)
  /\ UNCHANGED <<rows, prepare, queue, shelf, pauses, restarts, rearms>>

Publish(t) ==
  LET j == at[t].job IN
  /\ at[t].point = "publishing"
  /\ shelf' = [shelf EXCEPT ![j] = NewTag(j)]
  /\ IF t \in Workers THEN Done(t)
     ELSE IF at[t].rescans THEN at' = [at EXCEPT ![t] = Doing("rescan", NoJob)]
     ELSE Rest(t)
  /\ UNCHANGED <<rows, prepare, queue, unresolved, counters>>
-----------------------------------------------------------------------------
(* Workers (run_task and the completion callback of submit_job_task). *)

Take(w) ==
  /\ w \in Workers /\ at[w] = Idle /\ queue # <<>>
  /\ queue' = Tail(queue)
  /\ at' = [at EXCEPT ![w] = [Doing("taken", Head(queue).job)
                                EXCEPT !.resuming = Head(queue).resuming]]
  /\ UNCHANGED <<rows, prepare, shelf, unresolved, counters>>

(* Before it starts: admission closed, or an end-of-day job waits.         *)
Hold(w) == ~Open \/ (at[w].job \notin Eod /\ EodWaiting)

BeginHeld(w) ==
  /\ at[w].point = "taken" /\ Hold(w)
  /\ at' = [at EXCEPT ![w] = Doing("pausing", at[w].job)]
  /\ UNCHANGED <<rows, prepare, queue, shelf, unresolved, counters>>

(* Faulty: a resumed future starts like a new one. *)
BeginAfresh(w) ==
  /\ at[w].point = "taken" /\ ~Hold(w)
  /\ Goto(w, "working")
  /\ UNCHANGED <<rows, prepare, queue, shelf, unresolved, counters>>
Begin(w) ==
  /\ at[w].point = "taken" /\ ~Hold(w)
  /\ Goto(w, IF at[w].resuming THEN "restoring" ELSE "working")
  /\ UNCHANGED <<rows, prepare, queue, shelf, unresolved, counters>>

(* _restore_paused_job: the row goes back to what it was, the cursor to    *)
(* the task.                                                               *)
Restorable(j) == status[j] = "paused" /\ saved[j] # NoContinuation

Restore(w) ==
  LET j == at[w].job IN
  /\ at[w].point = "restoring"
  /\ IF Restorable(j)
       THEN /\ status' = [status EXCEPT ![j] = saved[j].prev]
            /\ saved' = [saved EXCEPT ![j] = NoContinuation]
            /\ at' = [at EXCEPT ![w].point = "working", ![w].cursor = saved[j].cursor]
            /\ UNCHANGED unresolved
       ELSE /\ Done(w)
            /\ unresolved' = unresolved \cup {j}
            /\ UNCHANGED <<status, saved>>
  /\ UNCHANGED <<worked, prepare, queue, shelf, counters>>

(* One period commits; at the safe point after it the task stops if it was *)
(* asked to, or gives the worker back.  A stop is asked for exactly while  *)
(* admission is closed (request_job_pause, resume_jobs).                   *)
WorkPeriod(w) ==
  LET j == at[w].job
      done == at[w].cursor + 1
      stops == \/ Cooperates(j) /\ ~Open
               \/ j \in Yielding /\ done < Periods
  IN
  /\ at[w].point = "working" /\ at[w].cursor < Work(j)
  /\ status' = [status EXCEPT ![j] = "running"]
  /\ worked' = [worked EXCEPT ![j] = done]
  /\ at' = [at EXCEPT ![w].cursor = done, ![w].resuming = FALSE,
                      ![w].point = IF stops THEN "pausing" ELSE "working"]
  /\ UNCHANGED <<saved, prepare, queue, shelf, unresolved, counters>>

(* run_tracked_job: complete_job or fail_job.                              *)
Finish(w, outcome) ==
  /\ at[w].point = "working"
  /\ outcome = "success" => at[w].cursor = Work(at[w].job)
  /\ status' = [status EXCEPT ![at[w].job] = outcome]
  /\ Done(w)
  /\ UNCHANGED <<saved, worked, prepare, queue, shelf, unresolved, counters>>

(* A resumed task finds, before its first period, that the periods are not *)
(* those of its cursor: the pause is saved again but taken off the shelf,  *)
(* so that this process does not retry it.  The future stays pending, so   *)
(* nobody sees it in between.                                              *)
ContextChanged(w) ==
  LET j == at[w].job IN
  /\ at[w].point = "working" /\ at[w].resuming
  /\ Cooperates(j) /\ at[w].cursor > 0
  /\ faults < MaxFaults /\ faults' = faults + 1
  /\ status' = [status EXCEPT ![j] = "paused"]
  /\ saved' = [saved EXCEPT ![j] = [prev |-> "running", cursor |-> at[w].cursor]]
  /\ unresolved' = unresolved \cup {j}
  /\ Done(w)
  /\ UNCHANGED <<worked, prepare, queue, shelf, pauses, restarts, rearms>>

(* The callback pops the future and goes on to scan the shelf.             *)
Complete(w) ==
  /\ at[w].point = "finished"
  /\ at' = [at EXCEPT ![w] = Doing("rescan", NoJob)]
  /\ UNCHANGED <<rows, prepare, queue, shelf, unresolved, counters>>
-----------------------------------------------------------------------------
(* Scanning the shelf, by any thread (_resume_ready_tasks). *)

BeginScan(t) ==
  /\ at[t].point = "rescan"
  /\ at' = [at EXCEPT ![t] = Scan({j \in Jobs : shelf[j] # 0})]
  /\ UNCHANGED <<rows, prepare, queue, shelf, unresolved, counters>>

EndScan(t) ==
  /\ at[t].point = "scanning" /\ (at[t].todo = {} \/ ~Open)
  /\ Rest(t)
  /\ UNCHANGED <<rows, prepare, queue, shelf, unresolved, counters>>

(* End-of-day jobs come first.                                             *)
Look(t, j) ==
  /\ at[t].point = "scanning" /\ Open
  /\ j \in at[t].todo /\ (at[t].todo \cap Eod # {} => j \in Eod)
  /\ LET rest == at[t].todo \ {j} IN
     at' = [at EXCEPT ![t] =
              IF shelf[j] = 0 THEN Scan(rest)
              ELSE [Doing("checking", j) EXCEPT !.todo = rest, !.tag = shelf[j]]]
  /\ UNCHANGED <<rows, prepare, queue, shelf, unresolved, counters>>

(* Faulty: whatever is on the shelf may be taken. *)
OnShelf(t) == shelf[at[t].job] = at[t].tag
Takeable(t) ==
  LET j == at[t].job IN
  /\ shelf[j] = at[t].tag /\ ~Reserved(j) /\ ~Pending(j)
  /\ j \in Eod \/ ~EodWaiting

Reserve(t) ==
  LET j == at[t].job IN
  /\ at[t].point = "checking"
  /\ IF ~Open THEN Rest(t) /\ UNCHANGED shelf
     ELSE IF Takeable(t)
       THEN shelf' = [shelf EXCEPT ![j] = 0] /\ Goto(t, "resubmitting")
       ELSE at' = [at EXCEPT ![t] = Scan(at[t].todo)] /\ UNCHANGED shelf
  /\ UNCHANGED <<rows, prepare, queue, unresolved, counters>>

Resubmit(t) ==
  LET j == at[t].job IN
  /\ at[t].point = "resubmitting" /\ Open /\ ~Deferred(j)
  /\ queue' = Submitted(j, TRUE)
  /\ at' = [at EXCEPT ![t].point = "submitted", ![t].tag = 0]
  /\ UNCHANGED <<rows, prepare, shelf, unresolved, counters>>

(* Submission refused: the descriptor goes back on the shelf.  A deferred  *)
(* repair lets the scan go on, closed admission ends it.                   *)
ResubmitRefused(t) ==
  LET j == at[t].job IN
  /\ at[t].point = "resubmitting" /\ (~Open \/ Deferred(j))
  /\ at' = [at EXCEPT ![t].point = "refused", ![t].rescans = Open]
  /\ UNCHANGED <<rows, prepare, queue, shelf, unresolved, counters>>

PutBack(t) ==
  /\ at[t].point = "refused"
  /\ shelf' = [shelf EXCEPT ![at[t].job] = at[t].tag]
  /\ at' = [at EXCEPT ![t].point = "returned", ![t].tag = 0]
  /\ UNCHANGED <<rows, prepare, queue, unresolved, counters>>

Release(t) ==
  /\ \/ /\ at[t].point = "returned"
        /\ IF at[t].rescans
             THEN at' = [at EXCEPT ![t] = Scan(at[t].todo)]
             ELSE Rest(t)
     \/ /\ at[t].point = "submitted" /\ Goto(t, "rearmed")
  /\ UNCHANGED <<rows, prepare, queue, shelf, unresolved, counters>>

(* A future that paused again while its reservation was held was skipped   *)
(* by its own callback: this scan takes it up once more.                   *)
(* Faulty: it does not. *)
NeverRearmed(t) == {}
Rearmed(t) ==
  LET j == at[t].job IN
  IF shelf[j] # 0 /\ Open /\ ~Pending(j) THEN {j} ELSE {}

Rearm(t) ==
  /\ at[t].point = "rearmed"
  /\ at' = [at EXCEPT ![t] = Scan(at[t].todo \cup Rearmed(t))]
  /\ UNCHANGED <<rows, prepare, queue, shelf, unresolved, counters>>
-----------------------------------------------------------------------------
(* The restart (runtime.py: prepare, abort, commit, startup). *)

(* request_job_pause.                                                      *)
ClosePause ==
  /\ Open /\ at[Control] = Idle
  /\ pauses < MaxPauses /\ pauses' = pauses + 1
  /\ prepare' = "closed"
  /\ UNCHANGED <<rows, queue, shelf, at, unresolved, restarts, rearms, faults>>

(* jobs_paused is what the preparation waits for.                          *)
Prepared ==
  /\ prepare = "closed" /\ Quiescent
  /\ prepare' = "prepared"
  /\ UNCHANGED <<rows, queue, shelf, at, unresolved, counters>>

(* resume_jobs: the preparation failed, was aborted or expired.            *)
Resume ==
  /\ ~Open
  /\ prepare' = "open"
  /\ at' = [at EXCEPT ![Control] = Doing("rescan", NoJob)]
  /\ UNCHANGED <<rows, queue, shelf, unresolved, counters>>

(* mark_interrupted_jobs at the next startup.                              *)
Interrupted(j) == IF status[j] \in {"queued", "running"} THEN "error" ELSE status[j]

(* The process ends, and the next one cleans up and reads the obligations  *)
(* the database holds.                                                     *)
Restarts ==
  /\ restarts < MaxRestarts /\ restarts' = restarts + 1
  /\ status' = [j \in Jobs |-> Interrupted(j)]
  /\ prepare' = "open" /\ queue' = <<>>
  /\ shelf' = [j \in Jobs |-> 0]
  /\ at' = [t \in Threads |-> IF t = Control
              THEN [Doing("recover", NoJob) EXCEPT !.todo = {j \in Jobs : status[j] = "paused"}]
              ELSE Idle]
  /\ unresolved' = {}
  /\ UNCHANGED <<saved, worked, pauses, rearms, faults>>

OwnedRestart == prepare = "prepared" /\ Restarts
ProcessDies == prepare # "prepared" /\ Restarts

(* resume_job_obligations.                                                 *)
Recover ==
  /\ at[Control].point = "recover"
  /\ shelf' = [j \in Jobs |-> IF j \in at[Control].todo /\ ~Reserved(j) /\ ~Pending(j)
                                THEN NewTag(j) ELSE shelf[j]]
  /\ at' = [at EXCEPT ![Control] = Doing("rescan", NoJob)]
  /\ UNCHANGED <<rows, prepare, queue, unresolved, counters>>
-----------------------------------------------------------------------------
Enqueueing(t) ==
  \/ \E j \in Jobs : Enqueue(t, j) \/ Continue(t, j)
  \/ SubmitNew(t) \/ DeferNew(t) \/ RefuseNew(t)

Pausing(t) == PersistPause(t) \/ PersistFails(t) \/ Publish(t)

Executing(w) ==
  \/ Take(w) \/ BeginHeld(w) \/ Begin(w) \/ Restore(w) \/ WorkPeriod(w)
  \/ \E outcome \in {"success", "error"} : Finish(w, outcome)
  \/ ContextChanged(w) \/ Complete(w)

Scanning(t) ==
  \/ BeginScan(t) \/ EndScan(t) \/ \E j \in Jobs : Look(t, j)
  \/ Reserve(t) \/ Resubmit(t) \/ ResubmitRefused(t) \/ PutBack(t) \/ Release(t)
  \/ Rearm(t)

Restarting == ClosePause \/ Prepared \/ Resume \/ OwnedRestart \/ ProcessDies \/ Recover

Next ==
  \/ \E t \in Clients : Enqueueing(t)
  \/ \E t \in Threads : Pausing(t) \/ Scanning(t)
  \/ \E w \in Workers : Executing(w)
  \/ Restarting

Spec == Init /\ [][Next]_vars

(* Fairness.  Threads that are at work go on; a preparation is resumed or  *)
(* ends the process.  Nobody is obliged to enqueue or to restart.          *)
Progress(t) ==
  SubmitNew(t) \/ DeferNew(t) \/ RefuseNew(t) \/ Pausing(t) \/ Scanning(t) \/ Executing(t)

FairSpec ==
  /\ Spec
  /\ \A t \in Threads : WF_vars(Progress(t))
  /\ WF_vars(Resume \/ OwnedRestart) /\ WF_vars(Recover)
-----------------------------------------------------------------------------
(* Properties. *)

(* Once jobs_paused has answered yes, no job is run, submitted, saved or   *)
(* shelved by anybody until admission is reopened: the quiescence the      *)
(* restart relies on does not pass (jobs_paused, _enqueue_admission).      *)
PreparedIsQuiet ==
  prepare = "prepared" => queue = <<>> /\ \A t \in Threads : at[t] = Idle

(* A prepared restart interrupts nothing: every admitted job has ended or  *)
(* is a durable pause, so the next startup turns none of them into an      *)
(* error, but for those whose pause failed to commit: they keep their row  *)
(* and an "unknown" diagnosis (docs/architecture/RuntimeControl.md:1148).  *)
(* continue_job keeps no such diagnosis (PersistFails), so this is said of *)
(* a process that has not continued a repair yet.                          *)
PreparedLosesNothing ==
  prepare = "prepared" /\ rearms = 0 =>
    \A j \in Jobs : status[j] \in {"queued", "running"} => j \in unresolved

(* A job has one future at most: two scans, a scan and a continuation, or  *)
(* a scan and a recovery never run the same JobRun twice at once.          *)
OneFuture ==
  \A j \in Jobs :
    Cardinality({i \in DOMAIN queue : queue[i].job = j})
      + Cardinality({w \in Workers : Runs(w, j)}) <= 1

(* A task goes on with the period after the last one committed, neither    *)
(* repeating nor skipping one, however often it was paused, deferred, put  *)
(* back and restarted in between; and a pause about to be saved keeps that *)
(* cursor and passes its own validation (_persist_job_pause, validate).    *)
NoPeriodRepeated ==
  /\ \A w \in Workers : at[w].point = "working" => at[w].cursor = worked[at[w].job]
  /\ \A t \in Threads : at[t].point = "pausing" =>
       LET d == Descriptor(at[t].job, at[t].cursor)
       IN  Lawful(d) /\ d.cursor = worked[at[t].job]

(* Every admitted job ends, whatever the repairs do that share the pool;   *)
(* a repair that a scan puts back after the last completion has scanned is *)
(* left on the shelf (PutBack).                                            *)
EveryJobEnds ==
  \A j \in Jobs \ Repairs : status[j] = "queued" ~> status[j] \in {"success", "error"}
=============================================================================

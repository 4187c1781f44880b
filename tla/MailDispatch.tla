----------------------------- MODULE MailDispatch -----------------------------
(***************************************************************************)
(* Scheduled mail (backend/app/dispatch): a schedule, or the operator,     *)
(* makes a run; a pass looks whether its data is ready, prepares a         *)
(* delivery and hands it to a job, which sends it.  A second kind of pass, *)
(* the reconciliation, takes up what a failure or a crash has left.        *)
(*                                                                         *)
(* The passes are jobs of one scheduler, with a thread each, or requests   *)
(* of the operator.  They read a run, work, and write it later; nothing    *)
(* compares what they write over.  Processors are the passes that may go   *)
(* on at the same time.                                                    *)
(*                                                                         *)
(* An operator commented "Faulty" is a plausible mistake in the definition *)
(* that follows it, which some property must catch; no action uses it.     *)
(***************************************************************************)
EXTENDS Naturals, Sequences

CONSTANTS
  Runs,         \* slots of schedules, and requests of the operator
  Processors,   \* passes that may overlap
  MaxAttempts,  \* max_delivery_attempts of each run
  MaxFaults,    \* bound: restarts of the process, and passes that break off
  MaxDeliveries \* bound: deliveries

ASSUME DispatchAssumption ==
  /\ MaxAttempts \in Nat \ {0} /\ MaxDeliveries \in Nat \ {0} /\ MaxFaults \in Nat

VARIABLES
  run,       \* dispatch_schedule_run: durable
  delivery,  \* dispatch_delivery: durable
  job,       \* job_run: durable, and where its thread stands
  pass,      \* each processor: where it stands
  faults     \* restarts, and passes that broke off

vars == <<run, delivery, job, pass, faults>>

Unsent == {"claimed", "waiting_data", "retry_wait"}
Ended == {"success", "error", "skipped"}

\* doubt: the error code is one of DELIVERY_RESULT_UNKNOWN
\* overdue: the time to wait for data is over
\* unreadable: its snapshot of the schedule is refused each time it is read
Run == [status : Unsent \cup Ended \cup {"none", "queued", "sending"}, doubt : BOOLEAN,
        overdue : BOOLEAN, unreadable : BOOLEAN,
        attempts : Nat, delivery : Nat, job : Nat]

Delivery == [run : Runs, mails : Nat,
             status : {"queued", "sending", "success", "error", "unknown"}]

Job == [run : Runs, delivery : Nat \ {0}, status : {"active", "success", "error"},
        at : {"new", "pool", "smtp", "sent", "done"}]

Idle == [at |-> "idle"]
\* holds: the status of the run, or of its job, that it has read; or the
\* status it will write; or the job it has made
Busy(at, r, holds) == [at |-> at, run |-> r, holds |-> holds]

Pass ==
  {Idle} \cup [at : {"evaluate", "prepare"}, run : Runs, holds : Unsent]
  \cup [at : {"submit"}, run : Runs, holds : Nat \ {0}]
  \cup [at : {"stale"}, run : Runs, holds : {"queued", "sending"}]
  \cup [at : {"stalled"}, run : Runs, holds : {"active", "success", "error"}]
  \cup [at : {"recover"}, run : Runs, holds : {"success", "retry_wait"}]

TypeOK ==
  /\ run \in [Runs -> Run] /\ delivery \in Seq(Delivery) /\ job \in Seq(Job)
  /\ \A j \in DOMAIN job : job[j].delivery \in DOMAIN delivery
  /\ \A r \in Runs : run[r].delivery \in 0 .. Len(delivery) /\ run[r].job \in 0 .. Len(job)
  /\ pass \in [Processors -> Pass]
  /\ \A p \in Processors : pass[p].at = "submit" => pass[p].holds \in DOMAIN job
  /\ faults \in 0 .. MaxFaults

Init ==
  /\ run = [r \in Runs |-> [status |-> "none", doubt |-> FALSE, overdue |-> FALSE,
                            unreadable |-> FALSE, attempts |-> 0, delivery |-> 0, job |-> 0]]
  /\ delivery = << >> /\ job = << >>
  /\ pass = [p \in Processors |-> Idle]
  /\ faults = 0

-----------------------------------------------------------------------------
(* One pass over one run. *)

Goes(p, next) == pass' = [pass EXCEPT ![p] = next]
Becomes(r, status) == run' = [run EXCEPT ![r].status = status, ![r].doubt = FALSE]

(* The slot is claimed by the insert of its run, with a snapshot of its     *)
(* schedule; the pass that made it processes it, and it is due for the     *)
(* reconciliation from now on.                                             *)
Claim(p, r) ==
  /\ pass[p] = Idle /\ run[r].status = "none"
  /\ \E u \in BOOLEAN : run' = [run EXCEPT ![r].status = "claimed", ![r].unreadable = u]
  /\ Goes(p, Busy("evaluate", r, "claimed"))
  /\ UNCHANGED <<delivery, job, faults>>

(* A slot that was missed by more than its grace is only recorded. *)
Misfires(p, r) ==
  /\ pass[p] = Idle /\ run[r].status = "none" /\ Becomes(r, "skipped")
  /\ UNCHANGED <<delivery, job, pass, faults>>

(* Faulty: what waits for a retry is not due for anybody. *)
DueUnlessRetried(r) == run[r].status \in {"claimed", "waiting_data"}

Due(r) == run[r].status \in Unsent

(* A retry without a delivery starts all over.  The pass has read the run   *)
(* with its list; only another pass could have touched it since.           *)
Take(p, r) ==
  /\ pass[p] = Idle /\ Due(r)
  /\ \/ run[r].status # "retry_wait" /\ UNCHANGED run
     \/ run[r].status = "retry_wait" /\ run[r].delivery = 0 /\ Becomes(r, "claimed")
  /\ Goes(p, Busy("evaluate", r, run'[r].status))
  /\ UNCHANGED <<delivery, job, faults>>

(* The readiness was read meanwhile.  The row is written with what changed  *)
(* since the pass read it, and read again.                                 *)
EvaluatesReady(p) ==
  /\ pass[p].at = "evaluate"
  /\ LET r == pass[p].run IN
       /\ run' = IF pass[p].holds = "claimed" THEN run ELSE [run EXCEPT ![r].status = "claimed"]
       /\ Goes(p, IF run'[r].status \in {"claimed", "retry_wait"}
                  THEN Busy("prepare", r, run'[r].status) ELSE Idle)
  /\ UNCHANGED <<delivery, job, faults>>

EvaluatesUnready(p) ==
  /\ pass[p].at = "evaluate"
  /\ LET r == pass[p].run IN
       \/ /\ ~run[r].overdue
          /\ IF pass[p].holds = "waiting_data" THEN UNCHANGED run ELSE Becomes(r, "waiting_data")
       \/ Becomes(r, "skipped")
  /\ Goes(p, Idle) /\ UNCHANGED <<delivery, job, faults>>

(* The row of a delivery, its job and the run, in one commit. *)
HandsOver(p, r, d) ==
  /\ job' = Append(job, [run |-> r, delivery |-> d, status |-> "active", at |-> "new"])
  /\ run' = [run EXCEPT ![r].status = "queued", ![r].doubt = FALSE, ![r].attempts = @ + 1,
                        ![r].delivery = d, ![r].job = Len(job) + 1]
  /\ Goes(p, Busy("submit", r, Len(job) + 1))

PrepareOk(p) ==
  /\ pass[p].at = "prepare" /\ ~run[pass[p].run].unreadable
  /\ Len(delivery) < MaxDeliveries
  /\ delivery' = Append(delivery, [run |-> pass[p].run, mails |-> 0, status |-> "queued"])
  /\ HandsOver(p, pass[p].run, Len(delivery) + 1)
  /\ UNCHANGED faults

Retries(attempts) == attempts < MaxAttempts

(* The preview raises: only a ConnectionError or TimeoutError is retried.   *)
PrepareRaises(p) ==
  /\ pass[p].at = "prepare" /\ ~run[pass[p].run].unreadable
  /\ LET r == pass[p].run
         n == run[r].attempts + 1
     IN \E status \in {"error"} \cup (IF Retries(n) THEN {"retry_wait"} ELSE {}) :
          run' = [run EXCEPT ![r].status = status, ![r].doubt = FALSE, ![r].attempts = n]
  /\ Goes(p, Idle) /\ UNCHANGED <<delivery, job, faults>>

(* The snapshot is read outside the try: nothing is written, and the run    *)
(* stays due.                                                              *)
SnapshotRaises(p) ==
  /\ pass[p].at = "prepare" /\ run[pass[p].run].unreadable
  /\ Goes(p, Idle) /\ UNCHANGED <<run, delivery, job, faults>>

(* A delivery that was never handed to SMTP is used again. *)
Resubmit(p, r) ==
  /\ pass[p] = Idle /\ Due(r)
  /\ run[r].status = "retry_wait" /\ run[r].delivery # 0
  /\ delivery[run[r].delivery].status \in {"queued", "error"}
  /\ IF Retries(run[r].attempts)
     THEN /\ delivery' = [delivery EXCEPT ![run[r].delivery].status = "queued"]
          /\ HandsOver(p, r, run[r].delivery)
     ELSE Becomes(r, "error") /\ UNCHANGED <<delivery, job, pass>>
  /\ UNCHANGED faults

SubmitOk(p) ==
  /\ pass[p].at = "submit"
  /\ job' = [job EXCEPT ![pass[p].holds].at = "pool"]
  /\ Goes(p, Idle) /\ UNCHANGED <<run, delivery, faults>>

(* Admission is closed, or the pool refuses.  The failure is recorded: that *)
(* fail_job itself fails is left out.                                      *)
SubmitRaises(p) ==
  /\ pass[p].at = "submit"
  /\ job' = [job EXCEPT ![pass[p].holds].status = "error", ![pass[p].holds].at = "done"]
  /\ LET r == pass[p].run IN
       Becomes(r, IF Retries(run[r].attempts) THEN "retry_wait" ELSE "error")
  /\ Goes(p, Idle) /\ UNCHANGED <<delivery, faults>>

-----------------------------------------------------------------------------
(* The reconciliation of runs that nobody has touched for some minutes.  A *)
(* slow sender is not told from one that is gone.  The pass lists the runs, *)
(* reads the job of each one later, and its delivery after that; then it   *)
(* writes the run, whatever has become of it.                              *)

ListsStale(p, r) ==
  /\ pass[p] = Idle /\ run[r].status \in {"queued", "sending"}
  /\ Goes(p, Busy("stale", r, run[r].status))
  /\ UNCHANGED <<run, delivery, job, faults>>

(* The status of the list; or the one the run has by now, when the pass has *)
(* committed another run of its list and so reads this one again.          *)
Seen(p) ==
  LET r == pass[p].run IN
    {pass[p].holds} \cup
      (IF \E s \in Runs \ {r} : run[s].delivery # 0 THEN {run[r].status} ELSE {})

SetsSending(p, status, doubt, deliveryStatus) ==
  /\ pass[p].at = "stale" /\ "sending" \in Seen(p)
  /\ LET r == pass[p].run IN
       /\ delivery' = [delivery EXCEPT ![run[r].delivery].status = deliveryStatus]
       /\ run' = [run EXCEPT ![r].status = status, ![r].doubt = doubt]
  /\ Goes(p, Idle) /\ UNCHANGED <<job, faults>>

(* Faulty: a delivery that was interrupted is tried again. *)
RetriesSending(p) == SetsSending(p, "retry_wait", FALSE, "error")

(* Faulty: it is reported as a delivery that was not sent. *)
StaleSendingFailed(p) == SetsSending(p, "error", FALSE, "unknown")

StaleSending(p) == SetsSending(p, "error", TRUE, "unknown")

StaleQueued(p) ==
  /\ pass[p].at = "stale" /\ Seen(p) # {"sending"}
  /\ Goes(p, Busy("stalled", pass[p].run, job[run[pass[p].run].job].status))
  /\ UNCHANGED <<run, delivery, job, faults>>

StaleDelivery(p) ==
  /\ pass[p].at = "stalled"
  /\ LET r == pass[p].run IN
       Goes(p, IF delivery[run[r].delivery].status = "success" THEN Busy("recover", r, "success")
               ELSE IF pass[p].holds = "error" THEN Busy("recover", r, "retry_wait")
               ELSE Idle)
  /\ UNCHANGED <<run, delivery, job, faults>>

(* "The queued worker was interrupted before SMTP delivery started." *)
Recovers(p) ==
  /\ pass[p].at = "recover" /\ Becomes(pass[p].run, pass[p].holds)
  /\ Goes(p, Idle) /\ UNCHANGED <<delivery, job, faults>>

-----------------------------------------------------------------------------
(* The job (send_delivery). *)

Sets(j, runStatus, doubt, deliveryStatus) ==
  /\ run' = [run EXCEPT ![job[j].run].status = runStatus, ![job[j].run].doubt = doubt]
  /\ delivery' = [delivery EXCEPT ![job[j].delivery].status = deliveryStatus]

JobGoes(j, at, status) ==
  /\ job' = [job EXCEPT ![j].at = at, ![j].status = status]
  /\ UNCHANGED <<pass, faults>>

(* "sending" is committed before anything is sent. *)
JobStarts(j) ==
  /\ job[j].at = "pool"
  /\ IF delivery[job[j].delivery].status = "success"
     THEN UNCHANGED <<run, delivery>> /\ JobGoes(j, "done", "success")
     ELSE Sets(j, "sending", FALSE, "sending") /\ JobGoes(j, "smtp", "active")

(* No SMTP configuration; or the database is busy, which the run is not told. *)
JobFails(j) ==
  /\ job[j].at = "pool" /\ JobGoes(j, "done", "error")
  /\ \/ UNCHANGED <<run, delivery>>
     \/ Sets(j, "error", FALSE, "error") /\ delivery[job[j].delivery].status # "success"

MailGoesOut(j) ==
  /\ job[j].at = "smtp" /\ JobGoes(j, "sent", "active")
  /\ delivery' = [delivery EXCEPT ![job[j].delivery].mails = @ + 1]
  /\ UNCHANGED run

SendOk(j) ==
  /\ job[j].at = "sent" /\ Sets(j, "success", FALSE, "success")
  /\ \E status \in {"success", "error"} : JobGoes(j, "done", status)

(* "SMTP delivery result is unknown; automatic retry is disabled." *)
SendRaises(j) ==
  /\ job[j].at \in {"smtp", "sent"} /\ Sets(j, "error", TRUE, "unknown")
  /\ JobGoes(j, "done", "error")

-----------------------------------------------------------------------------
(* Everything that runs is gone; mark_interrupted_jobs at the next start.   *)
Restart ==
  /\ faults < MaxFaults /\ faults' = faults + 1
  /\ pass' = [p \in Processors |-> Idle]
  /\ job' = [j \in DOMAIN job |->
               IF job[j].status = "active" THEN [job[j] EXCEPT !.status = "error", !.at = "done"]
               ELSE [job[j] EXCEPT !.at = "done"]]
  /\ UNCHANGED <<run, delivery>>

(* An error outside of every try: the pass leaves the run as it is.         *)
BreaksOff(p) ==
  /\ pass[p].at \in {"evaluate", "prepare", "stale", "stalled", "recover"}
  /\ faults < MaxFaults /\ faults' = faults + 1
  /\ Goes(p, Idle) /\ UNCHANGED <<run, delivery, job>>

DeadlinePasses(r) ==
  /\ ~run[r].overdue /\ run' = [run EXCEPT ![r].overdue = TRUE]
  /\ UNCHANGED <<delivery, job, pass, faults>>

Steps(p) ==
  \/ EvaluatesReady(p) \/ EvaluatesUnready(p)
  \/ PrepareOk(p) \/ PrepareRaises(p) \/ SnapshotRaises(p)
  \/ SubmitOk(p) \/ SubmitRaises(p)
  \/ StaleSending(p) \/ StaleQueued(p) \/ StaleDelivery(p) \/ Recovers(p)

Reconcile(p, r) == Take(p, r) \/ Resubmit(p, r) \/ ListsStale(p, r)

Works(j) == JobStarts(j) \/ JobFails(j) \/ MailGoesOut(j) \/ SendOk(j) \/ SendRaises(j)

Next ==
  \/ \E p \in Processors : Steps(p) \/ BreaksOff(p) \/ \E r \in Runs : Claim(p, r) \/ Misfires(p, r) \/ Reconcile(p, r)
  \/ \E j \in DOMAIN job : Works(j)
  \/ \E r \in Runs : DeadlinePasses(r)
  \/ Restart

Spec == Init /\ [][Next]_vars

(* The scheduler keeps reconciling, a pass goes on, a job runs, time does.  *)
FairSpec ==
  /\ Spec
  /\ \A p \in Processors : WF_vars(Steps(p))
  /\ \A r \in Runs :
       /\ WF_vars(DeadlinePasses(r))
       /\ SF_vars(\E p \in Processors : Reconcile(p, r))
  /\ \A j \in 1 .. MaxDeliveries * MaxAttempts : WF_vars(j \in DOMAIN job /\ Works(j))

-----------------------------------------------------------------------------
Mailed(r) == \E d \in DOMAIN delivery : delivery[d].run = r /\ delivery[d].mails > 0

(* A retry that _resubmit_queued_schedule_run refuses, each time. *)
Lost(r) ==
  /\ run[r].status = "retry_wait" /\ run[r].delivery # 0
  /\ delivery[run[r].delivery].status = "unknown"

(* A run sends its mail once, whatever raises, faults or is slow in       *)
(* between: what may have been sent is never sent again (send_delivery,    *)
(* queue_schedule_run, _resubmit_queued_schedule_run,                      *)
(* reconcile_schedule_runs).                                               *)
OneMailPerRun ==
  \A d, e \in DOMAIN delivery :
    /\ delivery[d].mails <= 1
    /\ delivery[d].mails > 0 /\ delivery[e].mails > 0 /\ delivery[d].run = delivery[e].run => d = e

(* What the status of a run says is so: a run that is claimed, waiting,    *)
(* queued or skipped has sent nothing, nor has one that ended with an      *)
(* error that is not in doubt; and one that succeeded has sent its mail.   *)
(* A run may wait for a retry although its mail is out, since Recovers      *)
(* acts on old reads; its delivery then says "unknown", and _resubmit      *)
(* refuses it.                                                             *)
StatusIsTrue ==
  \A r \in Runs :
    /\ run[r].status \in {"none", "claimed", "waiting_data", "queued", "skipped"} => ~Mailed(r)
    /\ run[r].status = "error" /\ ~run[r].doubt => ~Mailed(r)
    /\ run[r].status = "retry_wait" /\ Mailed(r) => Lost(r)
    /\ run[r].status = "success" => Mailed(r)

(* A claimed run comes to an end, sent, skipped or given up, unless its    *)
(* snapshot cannot be read, or it waits for a retry that is refused.       *)
EveryRunEnds ==
  \A r \in Runs :
    run[r].status # "none" /\ ~run[r].unreadable ~> run[r].status \in Ended \/ Lost(r)
=============================================================================

------------------------------ MODULE MailProofs ------------------------------
(***************************************************************************)
(* What MailDispatch promises as long as its passes do not overlap, for    *)
(* any number of runs, attempts, deliveries and restarts.                  *)
(***************************************************************************)
EXTENDS MailDispatch, SequenceTheorems, TLAPS

(* The reconciliation never runs beside another pass.                      *)
OnePass == \A p, q \in Processors : p = q

InDoubt(v) == v.status = "error" /\ v.doubt

(* A job that is not done, its delivery and its run.                       *)
LiveFits(k, d, v) ==
  /\ k.status = "active"
  /\ k.at \in {"new", "pool"} => v.status = "queued"
  /\ k.at \in {"smtp", "sent"} => v.status = "sending" \/ InDoubt(v)
  /\ d.mails = IF k.at = "sent" THEN 1 ELSE 0

(* A delivery and its run.                                                 *)
MailFits(d, v) ==
  /\ d.mails \in {0, 1}
  /\ d.mails = 1 => \/ v.status \in {"sending", "success"} \/ InDoubt(v)
                    \/ v.status = "retry_wait" /\ d.status = "unknown"
  /\ v.status = "success" => d.mails = 1 /\ d.status = "success"
  /\ d.status = "success" => v.status = "success"
  /\ InDoubt(v) => d.status = "unknown"

RunFits(v) ==
  /\ v.status \in {"none", "claimed", "waiting_data", "skipped"} => v.delivery = 0
  /\ v.status \in {"queued", "sending", "success"} => v.delivery # 0 /\ v.job # 0

(* Only the newest job of a run is not done; a run has one delivery.       *)
JobOrder ==
  \A j \in DOMAIN job :
    /\ delivery[job[j].delivery].run = job[j].run
    /\ job[j].at # "done" =>
         /\ run[job[j].run].job = j /\ run[job[j].run].delivery = job[j].delivery
         /\ LiveFits(job[j], delivery[job[j].delivery], run[job[j].run])

MailOrder ==
  \A d \in DOMAIN delivery :
    run[delivery[d].run].delivery = d /\ MailFits(delivery[d], run[delivery[d].run])

RunOrder ==
  \A r \in Runs :
    /\ run[r].delivery # 0 => delivery[run[r].delivery].run = r
    /\ run[r].job # 0 => job[run[r].job].run = r
    /\ RunFits(run[r])

(* What a pass knows of a stale run, its newest job and its delivery.  The  *)
(* job may still be at work; what the pass will act upon does not change.  *)
Stale == {"stale", "stalled", "recover"}

StaleFits(q, v, k, d) ==
  /\ q.at = "stale" /\ q.holds = "sending" => k.at \notin {"new", "pool"}
  /\ q.at # "stale" \/ q.holds = "queued" => v.status # "sending" \/ k.at # "done"
  /\ q.at = "stalled" /\ q.holds = "error" => k.at = "done"
  /\ q.at = "recover" /\ q.holds = "success" => d.status = "success"
  /\ q.at = "recover" /\ q.holds = "retry_wait" => k.at = "done" /\ d.status # "success"

(* Nobody but the pass touches a run without a delivery.                   *)
PassOrder ==
  \A p \in Processors :
    /\ pass[p].at \in Stale =>
         /\ run[pass[p].run].delivery # 0 /\ run[pass[p].run].job # 0
         /\ StaleFits(pass[p], run[pass[p].run], job[run[pass[p].run].job],
                      delivery[run[pass[p].run].delivery])
    /\ pass[p].at \in {"evaluate", "prepare"} =>
         run[pass[p].run].status = pass[p].holds /\ run[pass[p].run].delivery = 0
    /\ pass[p].at = "submit" => job[pass[p].holds].run = pass[p].run /\ job[pass[p].holds].at = "new"

MInv == TypeOK /\ JobOrder /\ MailOrder /\ RunOrder /\ PassOrder

-----------------------------------------------------------------------------
(* Rows of the three tables.                                               *)

LEMMA Edited ==
  ASSUME NEW S, NEW s \in Seq(S), NEW i \in DOMAIN s, NEW e \in S
  PROVE  /\ [s EXCEPT ![i] = e] \in Seq(S)
         /\ Len([s EXCEPT ![i] = e]) = Len(s) /\ DOMAIN [s EXCEPT ![i] = e] = DOMAIN s
         /\ \A j \in DOMAIN s : [s EXCEPT ![i] = e][j] = IF j = i THEN e ELSE s[j]
BY ExceptSeq, LenProperties

LEMMA Rows ==
  ASSUME MInv
  PROVE  /\ Len(delivery) \in Nat /\ DOMAIN delivery = 1 .. Len(delivery)
         /\ Len(job) \in Nat /\ DOMAIN job = 1 .. Len(job)
         /\ \A d \in DOMAIN delivery : delivery[d] \in Delivery /\ delivery[d].run \in Runs
         /\ \A j \in DOMAIN job : job[j] \in Job /\ job[j].run \in Runs /\ job[j].delivery \in DOMAIN delivery
         /\ \A r \in Runs : run[r] \in Run
<1>1. delivery \in Seq(Delivery) /\ job \in Seq(Job) /\ run \in [Runs -> Run]
      /\ \A j \in DOMAIN job : job[j].delivery \in DOMAIN delivery
  BY DEF MInv, TypeOK
<1>2. /\ Len(delivery) \in Nat /\ DOMAIN delivery = 1 .. Len(delivery)
      /\ Len(job) \in Nat /\ DOMAIN job = 1 .. Len(job)
  BY <1>1, LenProperties
<1>3. \A d \in DOMAIN delivery : delivery[d] \in Delivery
  BY <1>1, <1>2, ElementOfSeq
<1>4. \A j \in DOMAIN job : job[j] \in Job
  BY <1>1, <1>2, ElementOfSeq
<1> QED
  BY <1>1, <1>2, <1>3, <1>4 DEF Delivery, Job

(* A step that changes one run, and only deliveries and jobs of this run,  *)
(* and neither makes a job live nor gives the run another delivery.        *)
LEMMA LocalKeeps ==
  ASSUME MInv, NEW r \in Runs, NEW v \in Run, run' = [run EXCEPT ![r] = v],
         v.delivery = run[r].delivery, v.job = run[r].job, RunFits(v),
         delivery' \in Seq(Delivery), Len(delivery') = Len(delivery), DOMAIN delivery' = DOMAIN delivery,
         \A d \in DOMAIN delivery :
           /\ delivery'[d].run = delivery[d].run
           /\ delivery[d].run # r => delivery'[d] = delivery[d]
           /\ delivery[d].run = r => MailFits(delivery'[d], v),
         job' \in Seq(Job), Len(job') = Len(job), DOMAIN job' = DOMAIN job,
         \A j \in DOMAIN job :
           /\ job'[j].run = job[j].run /\ job'[j].delivery = job[j].delivery
           /\ job[j].run # r => job'[j] = job[j]
           /\ job[j].run = r /\ job'[j].at # "done" =>
                job[j].at # "done" /\ LiveFits(job'[j], delivery'[job[j].delivery], v)
  PROVE  /\ run' \in [Runs -> Run]
         /\ \A j \in DOMAIN job' : job'[j].delivery \in DOMAIN delivery'
         /\ \A s \in Runs : run'[s].delivery \in 0 .. Len(delivery') /\ run'[s].job \in 0 .. Len(job')
         /\ JobOrder' /\ MailOrder' /\ RunOrder'
<1>0. TypeOK /\ JobOrder /\ MailOrder /\ RunOrder
  BY DEF MInv
<1>1. /\ run \in [Runs -> Run] /\ run' \in [Runs -> Run] /\ run'[r] = v
      /\ \A s \in Runs : s # r => run'[s] = run[s]
      /\ \A s \in Runs : run'[s].delivery = run[s].delivery /\ run'[s].job = run[s].job
  BY <1>0 DEF TypeOK
<1>2. \A j \in DOMAIN job' : job'[j].delivery \in DOMAIN delivery'
  BY Rows
<1>3. \A s \in Runs : run'[s].delivery \in 0 .. Len(delivery') /\ run'[s].job \in 0 .. Len(job')
  BY <1>0, <1>1 DEF TypeOK
<1>4. JobOrder'
  <2> SUFFICES ASSUME NEW j \in DOMAIN job
               PROVE  /\ delivery'[job'[j].delivery].run = job'[j].run
                      /\ job'[j].at # "done" =>
                           /\ run'[job'[j].run].job = j /\ run'[job'[j].run].delivery = job'[j].delivery
                           /\ LiveFits(job'[j], delivery'[job'[j].delivery], run'[job'[j].run])
    BY DEF JobOrder, LiveFits, InDoubt
  <2>1. job[j].delivery \in DOMAIN delivery /\ job[j].run \in Runs /\ delivery[job[j].delivery].run = job[j].run
    BY <1>0, Rows DEF JobOrder
  <2>2. job'[j].run = job[j].run /\ job'[j].delivery = job[j].delivery
        /\ delivery'[job[j].delivery].run = job[j].run
    BY <2>1
  <2>3. CASE job[j].run = r
    BY <1>0, <1>1, <2>1, <2>2, <2>3 DEF JobOrder
  <2>4. CASE job[j].run # r
    <3>1. job'[j] = job[j] /\ delivery'[job[j].delivery] = delivery[job[j].delivery]
          /\ run'[job[j].run] = run[job[j].run]
      BY <1>1, <2>1, <2>4
    <3> QED
      BY <1>0, <2>2, <3>1 DEF JobOrder
  <2> QED
    BY <2>3, <2>4
<1>5. MailOrder'
  <2> SUFFICES ASSUME NEW d \in DOMAIN delivery
               PROVE  /\ run'[delivery'[d].run].delivery = d
                      /\ MailFits(delivery'[d], run'[delivery'[d].run])
    BY DEF MailOrder, MailFits, InDoubt
  <2>1. delivery[d].run \in Runs /\ delivery'[d].run = delivery[d].run
    BY Rows
  <2>2. run[delivery[d].run].delivery = d /\ MailFits(delivery[d], run[delivery[d].run])
    BY <1>0 DEF MailOrder
  <2> QED
    BY <1>1, <2>1, <2>2
<1>6. RunOrder'
  <2> SUFFICES ASSUME NEW s \in Runs
               PROVE  /\ run'[s].delivery # 0 => delivery'[run'[s].delivery].run = s
                      /\ run'[s].job # 0 => job'[run'[s].job].run = s
                      /\ RunFits(run'[s])
    BY DEF RunOrder, RunFits
  <2>1. /\ run[s].delivery # 0 => delivery[run[s].delivery].run = s /\ run[s].delivery \in DOMAIN delivery
        /\ run[s].job # 0 => job[run[s].job].run = s /\ run[s].job \in DOMAIN job
        /\ RunFits(run[s])
    BY <1>0, Rows DEF RunOrder, TypeOK
  <2> QED
    BY <1>1, <2>1
<1> QED
  BY <1>1, <1>2, <1>3, <1>4, <1>5, <1>6

(* What LocalKeeps concludes.                                              *)
TablesKept ==
  /\ run' \in [Runs -> Run]
  /\ \A j \in DOMAIN job' : job'[j].delivery \in DOMAIN delivery'
  /\ \A s \in Runs : run'[s].delivery \in 0 .. Len(delivery') /\ run'[s].job \in 0 .. Len(job')
  /\ JobOrder' /\ MailOrder' /\ RunOrder'

(* Only the run changes, and it has no delivery yet.                       *)
LEMMA UndeliveredKeeps ==
  ASSUME MInv, NEW r \in Runs, NEW v \in Run, run' = [run EXCEPT ![r] = v], run[r].delivery = 0,
         v.delivery = 0, v.job = run[r].job, v.status \notin {"queued", "sending", "success"},
         UNCHANGED <<delivery, job>>
  PROVE  TablesKept
<1>1. RunFits(v)
  BY DEF RunFits
<1>2. \A d \in DOMAIN delivery : delivery[d].run # r
  BY Rows DEF MInv, MailOrder
<1>3. \A j \in DOMAIN job : job[j].run = r => job[j].at = "done"
  BY Rows DEF MInv, JobOrder
<1>4. delivery \in Seq(Delivery) /\ job \in Seq(Job)
  BY DEF MInv, TypeOK
<1> QED
  BY <1>1, <1>2, <1>3, <1>4, LocalKeeps DEF TablesKept

With(row, status, doubt) == [row EXCEPT !.status = status, !.doubt = doubt]

-----------------------------------------------------------------------------
(* The passes. *)

LEMMA PassOf ==
  ASSUME MInv, NEW p \in Processors
  PROVE  /\ pass[p].at \in {"evaluate", "prepare"} =>
              /\ pass[p].run \in Runs /\ pass[p].holds \in Unsent
              /\ run[pass[p].run].status = pass[p].holds /\ run[pass[p].run].delivery = 0
         /\ pass[p].at = "submit" =>
              /\ pass[p].run \in Runs /\ pass[p].holds \in DOMAIN job
              /\ job[pass[p].holds].run = pass[p].run /\ job[pass[p].holds].at = "new"
         /\ pass[p].at \in Stale =>
              /\ pass[p].run \in Runs
              /\ run[pass[p].run].delivery # 0 /\ run[pass[p].run].job # 0
              /\ StaleFits(pass[p], run[pass[p].run], job[run[pass[p].run].job],
                           delivery[run[pass[p].run].delivery])
              /\ pass[p].at = "recover" => pass[p].holds \in {"success", "retry_wait"}
              /\ pass[p].at = "stale" => pass[p].holds \in {"queued", "sending"}
<1>1. pass[p] \in Pass /\ (pass[p].at = "submit" => pass[p].holds \in DOMAIN job)
  BY DEF MInv, TypeOK
<1>2. pass[p].at \in {"evaluate", "prepare"} => pass[p].run \in Runs /\ pass[p].holds \in Unsent
  BY <1>1 DEF Pass, Idle
<1>3. pass[p].at = "submit" => pass[p].run \in Runs
  BY <1>1 DEF Pass, Idle
<1>4. pass[p].at \in Stale =>
        /\ pass[p].run \in Runs
        /\ pass[p].at = "recover" => pass[p].holds \in {"success", "retry_wait"}
        /\ pass[p].at = "stale" => pass[p].holds \in {"queued", "sending"}
  BY <1>1 DEF Pass, Idle, Stale
<1> QED
  BY <1>1, <1>2, <1>3, <1>4 DEF MInv, PassOrder

PassKept ==
  /\ pass' \in [Processors -> Pass] /\ PassOrder'
  /\ \A q \in Processors : pass'[q].at = "submit" => pass'[q].holds \in DOMAIN job'

(* A pass that goes on: what it knows of its run is still so.             *)
LEMMA PassGoes ==
  ASSUME MInv, OnePass, NEW p \in Processors, NEW next \in Pass, pass' = [pass EXCEPT ![p] = next],
         next.at \in {"evaluate", "prepare"} => run'[next.run].status = next.holds /\ run'[next.run].delivery = 0,
         next.at = "submit" => /\ next.holds \in DOMAIN job'
                               /\ job'[next.holds].run = next.run /\ job'[next.holds].at = "new",
         next.at \in Stale =>
           /\ run'[next.run].delivery # 0 /\ run'[next.run].job # 0
           /\ StaleFits(next, run'[next.run], job'[run'[next.run].job], delivery'[run'[next.run].delivery])
  PROVE  PassKept
<1>1. pass \in [Processors -> Pass] /\ \A q \in Processors : q = p
  BY DEF MInv, TypeOK, OnePass
<1>2. pass' \in [Processors -> Pass] /\ \A q \in Processors : pass'[q] = next
  BY <1>1
<1> QED
  BY <1>2 DEF PassKept, PassOrder

LEMMA IdleIsPass == Idle \in Pass /\ Idle.at = "idle"
BY DEF Idle, Pass

LEMMA BusyIsPass ==
  ASSUME NEW r \in Runs
  PROVE  /\ \A at \in {"evaluate", "prepare"}, holds \in Unsent : Busy(at, r, holds) \in Pass
         /\ \A holds \in Nat \ {0} : Busy("submit", r, holds) \in Pass
         /\ \A holds \in {"queued", "sending"} : Busy("stale", r, holds) \in Pass
         /\ \A holds \in {"active", "success", "error"} : Busy("stalled", r, holds) \in Pass
         /\ \A holds \in {"success", "retry_wait"} : Busy("recover", r, holds) \in Pass
         /\ \A at, holds : /\ Busy(at, r, holds).at = at /\ Busy(at, r, holds).run = r
                           /\ Busy(at, r, holds).holds = holds
BY DEF Busy, Pass

LEMMA ToRun ==
  ASSUME MInv, OnePass, NEW p \in Processors, NEW r \in Runs, NEW at \in {"evaluate", "prepare"},
         NEW holds \in Unsent, pass' = [pass EXCEPT ![p] = Busy(at, r, holds)],
         run'[r].status = holds, run'[r].delivery = 0
  PROVE  PassKept
<1> DEFINE next == Busy(at, r, holds)
<1>1. next \in Pass /\ next.at = at /\ next.run = r /\ next.holds = holds
  BY BusyIsPass
<1> HIDE DEF next
<1>2. pass' = [pass EXCEPT ![p] = next]
  BY DEF next
<1> QED
  BY <1>1, <1>2, PassGoes DEF Stale

LEMMA ToIdle ==
  ASSUME MInv, OnePass, NEW p \in Processors,
         \/ pass' = [pass EXCEPT ![p] = Idle]
         \/ pass[p] = Idle /\ UNCHANGED pass
  PROVE  PassKept
<1>1. pass' = [pass EXCEPT ![p] = Idle]
  BY DEF MInv, TypeOK
<1>2. \A q \in Processors : pass'[q] = Idle
  BY <1>1 DEF OnePass, MInv, TypeOK
<1> QED
  BY <1>1, <1>2, IdleIsPass DEF PassKept, PassOrder, Stale, MInv, TypeOK

LEMMA BeginKeeps ==
  ASSUME MInv, OnePass, NEW p \in Processors, NEW r \in Runs, Claim(p, r) \/ Misfires(p, r) \/ Take(p, r)
  PROVE  MInv'
<1>0. run[r] \in Run /\ run \in [Runs -> Run] /\ TypeOK /\ RunOrder /\ UNCHANGED <<delivery, job, faults>>
      /\ pass \in [Processors -> Pass] /\ pass[p] = Idle
  BY Rows DEF MInv, TypeOK, Claim, Misfires, Take
<1>1. RunFits(run[r])
  BY <1>0 DEF RunOrder
<1>2. \/ /\ UNCHANGED run /\ run[r].status \in Unsent /\ run[r].status # "retry_wait"
         /\ pass' = [pass EXCEPT ![p] = Busy("evaluate", r, run[r].status)]
      \/ \E v \in Run :
           /\ run' = [run EXCEPT ![r] = v] /\ run[r].delivery = 0
           /\ v.status \in {"claimed", "skipped"} /\ v.delivery = 0 /\ v.job = run[r].job
           /\ \/ UNCHANGED pass
              \/ v.status = "claimed" /\ pass' = [pass EXCEPT ![p] = Busy("evaluate", r, v.status)]
  <2>1. CASE Claim(p, r)
    <3>1. PICK u \in BOOLEAN : run' = [run EXCEPT ![r].status = "claimed", ![r].unreadable = u]
      BY <2>1 DEF Claim
    <3>2. run[r].delivery = 0 /\ pass' = [pass EXCEPT ![p] = Busy("evaluate", r, "claimed")]
      BY <1>1, <2>1 DEF Claim, Goes, RunFits
    <3> DEFINE v == [run[r] EXCEPT !.status = "claimed", !.unreadable = u]
    <3>3. v \in Run /\ v.status = "claimed" /\ v.delivery = 0 /\ v.job = run[r].job
      BY <1>0, <3>2 DEF Run, Unsent
    <3>4. run' = [run EXCEPT ![r] = v]
      BY <1>0, <3>1
    <3> HIDE DEF v
    <3> QED
      BY <3>2, <3>3, <3>4
  <2>2. ASSUME NEW status \in {"claimed", "skipped"}, Becomes(r, status), run[r].delivery = 0
        PROVE  LET v == With(run[r], status, FALSE) IN
               /\ v \in Run /\ run' = [run EXCEPT ![r] = v]
               /\ v.status = status /\ v.delivery = 0 /\ v.job = run[r].job
    <3>1. run' = [run EXCEPT ![r] = With(run[r], status, FALSE)]
      BY <1>0, <2>2 DEF Becomes, With
    <3> QED
      BY <1>0, <2>2, <3>1 DEF Run, With, Unsent, Ended
  <2>3. CASE Misfires(p, r)
    <3>1. run[r].delivery = 0 /\ Becomes(r, "skipped") /\ UNCHANGED pass
      BY <1>1, <2>3 DEF Misfires, RunFits
    <3> DEFINE v == With(run[r], "skipped", FALSE)
    <3>2. /\ v \in Run /\ run' = [run EXCEPT ![r] = v]
          /\ v.status = "skipped" /\ v.delivery = 0 /\ v.job = run[r].job
      BY <2>2, <3>1
    <3> HIDE DEF v
    <3> QED
      BY <3>1, <3>2
  <2>4. CASE Take(p, r)
    <3>1. CASE run[r].status # "retry_wait" /\ UNCHANGED run
      BY <2>4, <3>1 DEF Take, Due, Goes
    <3>2. CASE run[r].delivery = 0 /\ Becomes(r, "claimed")
      <4> DEFINE v == With(run[r], "claimed", FALSE)
      <4>1. /\ v \in Run /\ run' = [run EXCEPT ![r] = v]
            /\ v.status = "claimed" /\ v.delivery = 0 /\ v.job = run[r].job
        BY <2>2, <3>2
      <4> HIDE DEF v
      <4>2. run'[r] = v
        BY <1>0, <4>1
      <4>3. pass' = [pass EXCEPT ![p] = Busy("evaluate", r, v.status)]
        BY <2>4, <4>2 DEF Take, Goes
      <4> QED
        BY <3>2, <4>1, <4>3
    <3> QED
      BY <2>4, <3>1, <3>2 DEF Take
  <2> QED
    BY <2>1, <2>3, <2>4
<1>3. CASE UNCHANGED run /\ run[r].status \in Unsent /\ run[r].status # "retry_wait"
           /\ pass' = [pass EXCEPT ![p] = Busy("evaluate", r, run[r].status)]
  <2>1. run[r].delivery = 0
    BY <1>1, <1>3 DEF RunFits, Unsent
  <2>2. PassKept
    BY <1>3, <2>1, ToRun
  <2>3. JobOrder' /\ MailOrder' /\ RunOrder'
    BY <1>0, <1>3 DEF MInv, JobOrder, MailOrder, RunOrder, LiveFits, MailFits, RunFits, InDoubt
  <2> QED
    BY <1>0, <1>3, <2>2, <2>3 DEF MInv, TypeOK, PassKept
<1>4. ASSUME NEW v \in Run, run' = [run EXCEPT ![r] = v],
             v.status \in {"claimed", "skipped"}, v.delivery = 0, v.job = run[r].job,
             run[r].delivery = 0,
             \/ UNCHANGED pass
             \/ v.status = "claimed" /\ pass' = [pass EXCEPT ![p] = Busy("evaluate", r, v.status)]
      PROVE  MInv'
  <2>1. TablesKept
    BY <1>0, <1>4, UndeliveredKeeps
  <2>2. run'[r] = v
    BY <1>0, <1>4
  <2>3. PassKept
    <3>1. CASE v.status = "claimed" /\ pass' = [pass EXCEPT ![p] = Busy("evaluate", r, v.status)]
      BY <1>4, <2>2, <3>1, ToRun DEF Unsent
    <3>2. CASE UNCHANGED pass
      BY <1>0, <3>2, ToIdle
    <3> QED
      BY <1>4, <3>1, <3>2
  <2> QED
    BY <1>0, <2>1, <2>3 DEF MInv, TypeOK, TablesKept, PassKept
<1> QED
  BY <1>2, <1>3, <1>4

LEMMA UndeliveredBecomes ==
  ASSUME MInv, NEW r \in Runs, NEW status \in {"claimed", "waiting_data", "skipped"}, NEW doubt \in BOOLEAN,
         run[r].delivery = 0, run' = [run EXCEPT ![r] = With(run[r], status, doubt)],
         UNCHANGED <<delivery, job>>
  PROVE  TablesKept /\ run'[r].status = status /\ run'[r].delivery = 0
<1> DEFINE v == With(run[r], status, doubt)
<1>0. status \in Unsent \cup Ended \cup {"none", "queued", "sending"}
  BY DEF Unsent, Ended
<1>1. v \in Run /\ v.status = status /\ v.delivery = 0 /\ v.job = run[r].job
  BY <1>0, Rows DEF With, Run
<1>2. run' = [run EXCEPT ![r] = v] /\ run \in [Runs -> Run]
  BY DEF MInv, TypeOK
<1> HIDE DEF v
<1>3. TablesKept
  BY <1>1, <1>2, UndeliveredKeeps
<1> QED
  BY <1>1, <1>2, <1>3

LEMMA EvaluateKeeps ==
  ASSUME MInv, OnePass, NEW p \in Processors, EvaluatesReady(p) \/ EvaluatesUnready(p)
  PROVE  MInv'
<1> DEFINE r == pass[p].run
<1>0. /\ r \in Runs /\ run[r] \in Run /\ run \in [Runs -> Run] /\ TypeOK /\ run[r].delivery = 0
      /\ run[r].status = pass[p].holds /\ pass[p].holds \in Unsent /\ UNCHANGED <<delivery, job, faults>>
      /\ run[r].doubt \in BOOLEAN
  BY Rows, PassOf DEF MInv, TypeOK, EvaluatesReady, EvaluatesUnready, Run
<1>1. /\ TypeOK /\ JobOrder /\ MailOrder /\ RunOrder
  BY DEF MInv
<1>2. CASE UNCHANGED run
  <2>1. TablesKept
    BY <1>0, <1>1, <1>2 DEF TablesKept, TypeOK, JobOrder, MailOrder, RunOrder, LiveFits, MailFits, RunFits, InDoubt
  <2>2. \/ pass' = [pass EXCEPT ![p] = Busy("prepare", r, run[r].status)]
        \/ pass' = [pass EXCEPT ![p] = Idle]
    BY <1>2 DEF EvaluatesReady, EvaluatesUnready, Goes
  <2>3. PassKept
    BY <1>0, <1>2, <2>2, ToRun, ToIdle
  <2> QED
    BY <1>0, <2>1, <2>3 DEF MInv, TypeOK, TablesKept, PassKept
<1>3. ASSUME NEW status \in {"claimed", "waiting_data", "skipped"}, NEW doubt \in BOOLEAN,
             run' = [run EXCEPT ![r] = With(run[r], status, doubt)],
             \/ pass' = [pass EXCEPT ![p] = Idle]
             \/ status = "claimed" /\ pass' = [pass EXCEPT ![p] = Busy("prepare", r, run'[r].status)]
      PROVE  MInv'
  <2>1. TablesKept /\ run'[r].status = status /\ run'[r].delivery = 0
    <3> HIDE DEF r
    <3> QED
      BY <1>0, <1>3, UndeliveredBecomes
  <2>2. PassKept
    <3>1. CASE pass' = [pass EXCEPT ![p] = Idle]
      BY <3>1, ToIdle
    <3>2. CASE status = "claimed" /\ pass' = [pass EXCEPT ![p] = Busy("prepare", r, run'[r].status)]
      <4>1. pass' = [pass EXCEPT ![p] = Busy("prepare", r, "claimed")] /\ "claimed" \in Unsent
        BY <2>1, <3>2 DEF Unsent
      <4>2. r \in Runs /\ run'[r].status = "claimed" /\ run'[r].delivery = 0
        BY <1>0, <2>1, <3>2
      <4> HIDE DEF r
      <4> QED
        BY <4>1, <4>2, ToRun
    <3> QED
      BY <1>3, <3>1, <3>2
  <2> QED
    BY <1>0, <2>1, <2>2 DEF MInv, TypeOK, TablesKept, PassKept
<1>4. CASE EvaluatesReady(p) /\ run' # run
  <2>1. run' = [run EXCEPT ![r].status = "claimed"]
    BY <1>4 DEF EvaluatesReady
  <2>2. run' = [run EXCEPT ![r] = With(run[r], "claimed", run[r].doubt)]
    BY <1>0, <2>1 DEF With, Run
  <2>3. \/ pass' = [pass EXCEPT ![p] = Busy("prepare", r, run'[r].status)]
        \/ pass' = [pass EXCEPT ![p] = Idle]
    BY <1>4 DEF EvaluatesReady, Goes
  <2> QED
    BY <1>0, <1>3, <2>2, <2>3
<1>5. CASE EvaluatesUnready(p) /\ run' # run
  <2>1. PICK status \in {"waiting_data", "skipped"} : Becomes(r, status)
    BY <1>5 DEF EvaluatesUnready
  <2>2. run' = [run EXCEPT ![r] = With(run[r], status, FALSE)]
    BY <1>0, <2>1 DEF Becomes, With
  <2>3. pass' = [pass EXCEPT ![p] = Idle]
    BY <1>5 DEF EvaluatesUnready, Goes
  <2> QED
    BY Zenon, <1>3, <2>2, <2>3
<1> QED
  BY <1>2, <1>4, <1>5

LEMMA PrepareRaisesKeeps == ASSUME MInv, OnePass, NEW p \in Processors, PrepareRaises(p) PROVE MInv'
<1> DEFINE r == pass[p].run
           n == run[r].attempts + 1
<1>0. /\ r \in Runs /\ run[r] \in Run /\ run \in [Runs -> Run] /\ TypeOK /\ run[r].delivery = 0
      /\ UNCHANGED <<delivery, job, faults>> /\ pass' = [pass EXCEPT ![p] = Idle]
  <2>1. r \in Runs /\ run[r].delivery = 0 /\ UNCHANGED <<delivery, job, faults>> /\ pass' = [pass EXCEPT ![p] = Idle]
    <3>1. pass[p].at = "prepare" /\ UNCHANGED <<delivery, job, faults>> /\ pass' = [pass EXCEPT ![p] = Idle]
      BY DEF PrepareRaises, Goes
    <3> QED
      BY <3>1, PassOf
  <2>2. TypeOK /\ run \in [Runs -> Run]
    BY DEF MInv, TypeOK
  <2> QED
    BY <2>1, <2>2
<1>1. PICK status \in {"error", "retry_wait"} :
        run' = [run EXCEPT ![r].status = status, ![r].doubt = FALSE, ![r].attempts = n]
  BY DEF PrepareRaises
<1> DEFINE v == [run[r] EXCEPT !.status = status, !.doubt = FALSE, !.attempts = n]
<1>2. run' = [run EXCEPT ![r] = v]
  BY <1>0, <1>1
<1>3. v \in Run /\ v.status = status /\ v.delivery = 0 /\ v.job = run[r].job
  <2>1. n \in Nat
    BY <1>0 DEF Run
  <2> HIDE DEF r, n
  <2> QED
    BY <1>0, <2>1 DEF Run, Unsent, Ended
<1> HIDE DEF v, r
<1>4. TablesKept
  BY <1>0, <1>2, <1>3, UndeliveredKeeps
<1>5. PassKept
  BY <1>0, ToIdle
<1> QED
  BY <1>0, <1>4, <1>5 DEF MInv, TypeOK, TablesKept, PassKept

(* A delivery, new or never sent, is handed to a new job.                  *)
LEMMA HandsOverKeeps ==
  ASSUME MInv, OnePass, NEW p \in Processors, NEW r \in Runs, NEW d \in Nat \ {0}, HandsOver(p, r, d),
         \A j \in DOMAIN job : job[j].run = r => job[j].at = "done",
         delivery' \in Seq(Delivery), Len(delivery) <= Len(delivery'), d \in DOMAIN delivery',
         delivery'[d].run = r, delivery'[d].mails = 0, delivery'[d].status = "queued",
         \A e \in DOMAIN delivery : delivery'[e].run = delivery[e].run,
         \A e \in DOMAIN delivery' : e # d => e \in DOMAIN delivery /\ delivery'[e] = delivery[e] /\ delivery[e].run # r,
         UNCHANGED faults
  PROVE  MInv'
<1> DEFINE n == Len(job) + 1
           k == [run |-> r, delivery |-> d, status |-> "active", at |-> "new"]
           v == [run[r] EXCEPT !.status = "queued", !.doubt = FALSE, !.attempts = @ + 1, !.delivery = d, !.job = n]
<1>0. /\ TypeOK /\ JobOrder /\ MailOrder /\ RunOrder /\ run \in [Runs -> Run] /\ run[r] \in Run
      /\ job \in Seq(Job) /\ DOMAIN job = 1 .. Len(job) /\ Len(job) \in Nat
  BY Rows DEF MInv, TypeOK
<1>1. /\ k \in Job /\ k.run = r /\ k.delivery = d /\ k.status = "active" /\ k.at = "new"
      /\ v \in Run /\ v.status = "queued" /\ v.delivery = d /\ v.job = n
      /\ n \in Nat \ {0}
  <2>1. n \in Nat \ {0} /\ run[r].attempts + 1 \in Nat
    BY <1>0 DEF Run
  <2>2. k \in Job /\ k.run = r /\ k.delivery = d /\ k.status = "active" /\ k.at = "new"
    BY DEF Job
  <2> HIDE DEF n, k
  <2>3. v \in Run
    BY <1>0, <2>1 DEF Run
  <2>4. v.status = "queued" /\ v.delivery = d /\ v.job = n
    BY <1>0 DEF Run
  <2> QED
    BY <2>1, <2>2, <2>3, <2>4
<1>2. job' = Append(job, k) /\ run' = [run EXCEPT ![r] = v]
      /\ pass' = [pass EXCEPT ![p] = Busy("submit", r, n)]
  BY <1>0 DEF HandsOver, Goes
<1> HIDE DEF k, v
<1>3. /\ job' \in Seq(Job) /\ Len(job') = n /\ DOMAIN job' = 1 .. n /\ job'[n] = k
      /\ \A j \in DOMAIN job : job'[j] = job[j]
  BY <1>0, <1>1, <1>2, AppendProperties, LenProperties
<1>4. /\ run' \in [Runs -> Run] /\ run'[r] = v /\ \A s \in Runs : s # r => run'[s] = run[s]
  BY <1>0, <1>1, <1>2
<1>5. /\ DOMAIN delivery = 1 .. Len(delivery) /\ Len(delivery) \in Nat
      /\ DOMAIN delivery' = 1 .. Len(delivery') /\ Len(delivery') \in Nat
      /\ DOMAIN delivery \subseteq DOMAIN delivery'
  <2>1. DOMAIN delivery' = 1 .. Len(delivery') /\ Len(delivery') \in Nat
    BY LenProperties
  <2> QED
    BY <2>1, Rows
<1>6. \A j \in DOMAIN job' : j = n \/ j \in DOMAIN job
  BY <1>0, <1>3
<1>7. JobOrder'
  <2> SUFFICES ASSUME NEW j \in DOMAIN job'
               PROVE  /\ delivery'[job'[j].delivery].run = job'[j].run
                      /\ job'[j].at # "done" =>
                           /\ run'[job'[j].run].job = j /\ run'[job'[j].run].delivery = job'[j].delivery
                           /\ LiveFits(job'[j], delivery'[job'[j].delivery], run'[job'[j].run])
    BY DEF JobOrder, LiveFits, InDoubt
  <2>1. CASE j = n
    BY <1>1, <1>3, <1>4, <2>1 DEF LiveFits
  <2>2. CASE j \in DOMAIN job
    <3>1. job[j].delivery \in DOMAIN delivery /\ job[j].run \in Runs /\ delivery[job[j].delivery].run = job[j].run
          /\ job'[j] = job[j]
      BY <1>0, <1>3, <2>2, Rows DEF JobOrder
    <3>2. CASE job[j].run = r
      BY <3>1, <3>2, <2>2
    <3>3. CASE job[j].run # r
      <4>1. delivery'[job[j].delivery] = delivery[job[j].delivery] /\ run'[job[j].run] = run[job[j].run]
        BY <1>4, <1>5, <3>1, <3>3
      <4> QED
        BY <1>0, <2>2, <3>1, <4>1 DEF JobOrder
    <3> QED
      BY <3>2, <3>3
  <2> QED
    BY <1>6, <2>1, <2>2
<1>8. MailOrder'
  <2> SUFFICES ASSUME NEW e \in DOMAIN delivery'
               PROVE  run'[delivery'[e].run].delivery = e /\ MailFits(delivery'[e], run'[delivery'[e].run])
    BY DEF MailOrder, MailFits, InDoubt
  <2>1. CASE e = d
    BY <1>1, <1>4, <2>1 DEF MailFits, InDoubt
  <2>2. CASE e # d
    <3>1. e \in DOMAIN delivery /\ delivery'[e] = delivery[e] /\ delivery[e].run \in Runs /\ delivery[e].run # r
      BY <2>2, Rows
    <3> QED
      BY <1>0, <1>4, <3>1 DEF MailOrder
  <2> QED
    BY <2>1, <2>2
<1>9. RunOrder'
  <2> SUFFICES ASSUME NEW s \in Runs
               PROVE  /\ run'[s].delivery # 0 => delivery'[run'[s].delivery].run = s
                      /\ run'[s].job # 0 => job'[run'[s].job].run = s
                      /\ RunFits(run'[s])
    BY DEF RunOrder, RunFits
  <2>1. CASE s = r
    BY <1>1, <1>3, <1>4, <2>1 DEF RunFits
  <2>2. CASE s # r
    <3>1. /\ run[s].delivery # 0 => delivery[run[s].delivery].run = s /\ run[s].delivery \in DOMAIN delivery
          /\ run[s].job # 0 => job[run[s].job].run = s /\ run[s].job \in DOMAIN job
          /\ RunFits(run[s])
      BY <1>0, Rows DEF RunOrder, TypeOK
    <3> QED
      BY <1>3, <1>4, <2>2, <3>1
  <2> QED
    BY <2>1, <2>2
<1>10. PassKept
  <2> DEFINE next == Busy("submit", r, n)
  <2>1. next \in Pass /\ next.at = "submit" /\ next.run = r /\ next.holds = n
    BY <1>1, BusyIsPass
  <2> HIDE DEF next
  <2>2. pass' = [pass EXCEPT ![p] = next]
    BY <1>2 DEF next
  <2>3. next.holds \in DOMAIN job' /\ job'[next.holds].run = next.run /\ job'[next.holds].at = "new"
    BY <1>1, <1>3, <2>1
  <2> QED
    BY <2>1, <2>2, <2>3, PassGoes DEF Stale
<1>11. TypeOK'
  <2>1. \A j \in DOMAIN job' : job'[j].delivery \in DOMAIN delivery'
    BY <1>1, <1>3, <1>5, <1>6, Rows
  <2>2. \A s \in Runs : run'[s].delivery \in 0 .. Len(delivery') /\ run'[s].job \in 0 .. Len(job')
    <3> TAKE s \in Runs
    <3>1. CASE s = r
      BY <1>1, <1>3, <1>4, <1>5, <3>1
    <3>2. CASE s # r
      BY <1>0, <1>3, <1>4, <1>5, <3>2 DEF TypeOK
    <3> QED
      BY <3>1, <3>2
  <2> QED
    BY <1>0, <1>3, <1>4, <1>10, <2>1, <2>2 DEF TypeOK, PassKept
<1> QED
  BY <1>7, <1>8, <1>9, <1>10, <1>11 DEF MInv, PassKept

LEMMA PrepareOkKeeps == ASSUME MInv, OnePass, NEW p \in Processors, PrepareOk(p) PROVE MInv'
<1> DEFINE r == pass[p].run
           d == Len(delivery) + 1
           nd == [run |-> r, mails |-> 0, status |-> "queued"]
<1>0. r \in Runs /\ run[r].delivery = 0 /\ HandsOver(p, r, d) /\ UNCHANGED faults /\ delivery' = Append(delivery, nd)
  BY PassOf DEF PrepareOk
<1>1. nd \in Delivery /\ nd.run = r /\ nd.mails = 0 /\ nd.status = "queued"
  BY <1>0 DEF Delivery
<1>2. /\ delivery \in Seq(Delivery) /\ DOMAIN delivery = 1 .. Len(delivery) /\ Len(delivery) \in Nat
      /\ \A e \in DOMAIN delivery : delivery[e].run # r
      /\ \A j \in DOMAIN job : job[j].run = r => job[j].at = "done"
  <2> HIDE DEF r
  <2> QED
    BY <1>0, Rows DEF MInv, TypeOK, MailOrder, JobOrder
<1> HIDE DEF r, nd
<1>3. /\ delivery' \in Seq(Delivery) /\ Len(delivery') = d /\ DOMAIN delivery' = 1 .. d /\ delivery'[d] = nd
      /\ \A e \in DOMAIN delivery : delivery'[e] = delivery[e]
  BY <1>0, <1>1, <1>2, AppendProperties, LenProperties
<1>4. d \in Nat \ {0} /\ d \in DOMAIN delivery' /\ Len(delivery) <= Len(delivery')
      /\ \A e \in DOMAIN delivery' : e # d => e \in DOMAIN delivery
  BY <1>2, <1>3
<1> HIDE DEF d
<1> QED
  BY <1>0, <1>1, <1>2, <1>3, <1>4, HandsOverKeeps

-----------------------------------------------------------------------------
(* Changes of one run, its delivery and its newest job.                    *)

TablesAre(d, nd, j, nj) ==
  /\ delivery' \in Seq(Delivery) /\ Len(delivery') = Len(delivery) /\ DOMAIN delivery' = DOMAIN delivery
  /\ \A e \in DOMAIN delivery : delivery'[e] = IF e = d THEN nd ELSE delivery[e]
  /\ job' \in Seq(Job) /\ Len(job') = Len(job) /\ DOMAIN job' = DOMAIN job
  /\ \A i \in DOMAIN job : job'[i] = IF i = j THEN nj ELSE job[i]

LEMMA EditsKeep ==
  ASSUME MInv, NEW r \in Runs, NEW v \in Run, run' = [run EXCEPT ![r] = v],
         v.delivery = run[r].delivery, v.job = run[r].job, RunFits(v),
         NEW d \in DOMAIN delivery, delivery[d].run = r, NEW nd \in Delivery, nd.run = r, MailFits(nd, v),
         NEW j \in DOMAIN job, job[j].run = r, run[r].job = j,
         NEW nj \in Job, nj.run = r, nj.delivery = job[j].delivery,
         nj.at # "done" => job[j].at # "done" /\ LiveFits(nj, nd, v),
         TablesAre(d, nd, j, nj)
  PROVE  TablesKept
<1>1. run[r].delivery = d /\ \A e \in DOMAIN delivery : delivery[e].run = r => e = d
  BY DEF MInv, MailOrder
<1>2. \A i \in DOMAIN job : job[i].run = r /\ job[i].at # "done" => i = j /\ job[i].delivery = d
  BY <1>1 DEF MInv, JobOrder
<1>3. \A e \in DOMAIN delivery :
        /\ delivery'[e].run = delivery[e].run
        /\ delivery[e].run # r => delivery'[e] = delivery[e]
        /\ delivery[e].run = r => MailFits(delivery'[e], v)
  BY <1>1 DEF TablesAre
<1>4. \A i \in DOMAIN job :
        /\ job'[i].run = job[i].run /\ job'[i].delivery = job[i].delivery
        /\ job[i].run # r => job'[i] = job[i]
        /\ job[i].run = r /\ job'[i].at # "done" =>
             job[i].at # "done" /\ LiveFits(job'[i], delivery'[job[i].delivery], v)
  BY <1>2 DEF TablesAre
<1> QED
  BY <1>3, <1>4, LocalKeeps DEF TablesAre, TablesKept

(* A job that is not done stands for its run and its delivery.             *)
LEMMA LiveJob ==
  ASSUME MInv, NEW j \in DOMAIN job, job[j].at # "done"
  PROVE  /\ job[j].run \in Runs /\ job[j].delivery \in DOMAIN delivery
         /\ run[job[j].run].job = j /\ run[job[j].run].delivery = job[j].delivery
         /\ delivery[job[j].delivery].run = job[j].run /\ delivery[job[j].delivery] \in Delivery
         /\ job[j] \in Job /\ run[job[j].run] \in Run
         /\ LiveFits(job[j], delivery[job[j].delivery], run[job[j].run])
         /\ MailFits(delivery[job[j].delivery], run[job[j].run])
BY Rows DEF MInv, JobOrder, MailOrder

(* The rows that a stale run stands for.                                   *)
LEMMA StaleRows ==
  ASSUME MInv, NEW r \in Runs, run[r].delivery # 0, run[r].job # 0
  PROVE  /\ run[r] \in Run /\ run[r].delivery \in DOMAIN delivery /\ run[r].job \in DOMAIN job
         /\ job[run[r].job] \in Job /\ delivery[run[r].delivery] \in Delivery
         /\ delivery[run[r].delivery].run = r /\ job[run[r].job].run = r
         /\ MailFits(delivery[run[r].delivery], run[r])
         /\ job[run[r].job].at # "done" =>
              LiveFits(job[run[r].job], delivery[run[r].delivery], run[r])
<1>1. /\ run[r] \in Run /\ run[r].delivery \in DOMAIN delivery /\ run[r].job \in DOMAIN job
      /\ delivery[run[r].delivery].run = r /\ job[run[r].job].run = r
  BY Rows DEF MInv, TypeOK, RunOrder
<1> QED
  BY <1>1, Rows, LiveJob DEF MInv, MailOrder

(* The pass does not see what a job does: its run is not the one of a job, *)
(* unless it has made the job itself and not yet submitted it.             *)
LEMMA PassUnmoved ==
  ASSUME MInv, UNCHANGED pass, NEW j \in DOMAIN job, job[j].at \notin {"new", "done"},
         NEW r \in Runs, job[j].run = r, \A s \in Runs : s # r => run'[s] = run[s],
         run'[r].delivery = run[r].delivery, run'[r].job = run[r].job,
         \A d \in DOMAIN delivery : delivery[d].run # r => delivery'[d] = delivery[d],
         DOMAIN job' = DOMAIN job, \A i \in DOMAIN job : i # j => job'[i] = job[i],
         job'[j].at \notin {"new", "pool"}, run'[r].status = "sending" => job'[j].at # "done"
  PROVE  PassKept
<1>1. pass \in [Processors -> Pass] /\ PassOrder /\ RunOrder
  BY DEF MInv, TypeOK
<1>2. run[r].job = j /\ run[r].delivery = job[j].delivery /\ run[r].delivery # 0
      /\ delivery[run[r].delivery].status # "success"
  <2>1. run[r].job = j /\ run[r].delivery = job[j].delivery /\ job[j].delivery \in DOMAIN delivery
        /\ LiveFits(job[j], delivery[job[j].delivery], run[r]) /\ MailFits(delivery[job[j].delivery], run[r])
        /\ job[j].at \in {"pool", "smtp", "sent"}
    BY LiveJob DEF Job
  <2>2. delivery[job[j].delivery].status # "success"
    BY <2>1 DEF LiveFits, MailFits, InDoubt
  <2> QED
    BY <2>1, <2>2, Rows
<1>3. \A q \in Processors :
        /\ pass[q].at \in {"evaluate", "prepare"} => pass[q].run \in Runs /\ pass[q].run # r
        /\ pass[q].at = "submit" => pass[q].holds \in DOMAIN job /\ pass[q].holds # j
  BY <1>1, <1>2, PassOf DEF PassOrder
<1>4. ASSUME NEW q \in Processors, pass[q].at \in Stale
      PROVE  /\ run'[pass[q].run].delivery # 0 /\ run'[pass[q].run].job # 0
             /\ StaleFits(pass[q], run'[pass[q].run], job'[run'[pass[q].run].job],
                          delivery'[run'[pass[q].run].delivery])
  <2> DEFINE t == pass[q].run
  <2>1. t \in Runs /\ run[t].delivery # 0 /\ run[t].job # 0
        /\ StaleFits(pass[q], run[t], job[run[t].job], delivery[run[t].delivery])
    BY <1>4, PassOf
  <2>2. CASE t = r
    <3> DEFINE g == pass[q]
    <3>1. g.at \in Stale /\ StaleFits(g, run[r], job[j], delivery[run[r].delivery])
      BY <1>2, <1>4, <2>1, <2>2
    <3> HIDE DEF g
    <3>2. StaleFits(g, run'[r], job'[j], delivery'[run'[r].delivery])
      BY <1>2, <3>1 DEF StaleFits, Stale
    <3>3. run'[r].job = j /\ run'[r].delivery # 0 /\ j # 0
      BY <1>2, <2>1, <2>2
    <3> QED
      BY <2>2, <3>2, <3>3 DEF g
  <2>3. CASE t # r
    <3>1. /\ delivery[run[t].delivery].run = t /\ run[t].delivery \in DOMAIN delivery
          /\ job[run[t].job].run = t /\ run[t].job \in DOMAIN job
      BY <2>1, StaleRows
    <3>2. run'[t] = run[t] /\ job'[run[t].job] = job[run[t].job] /\ delivery'[run[t].delivery] = delivery[run[t].delivery]
      BY <2>1, <2>3, <3>1
    <3> QED
      BY <2>1, <3>2
  <2> QED
    BY <2>2, <2>3
<1> QED
  BY <1>1, <1>3, <1>4 DEF PassKept, PassOrder

LEMMA JobStepKeeps ==
  ASSUME MInv, NEW j \in DOMAIN job, job[j].at \in {"pool", "smtp", "sent"}, UNCHANGED <<pass, faults>>,
         NEW v \in Run, run' = [run EXCEPT ![job[j].run] = v],
         v.delivery = run[job[j].run].delivery, v.job = run[job[j].run].job,
         v.status \in {"queued", "sending", "success", "error"},
         NEW nd \in Delivery, nd.run = job[j].run, MailFits(nd, v),
         NEW nj \in Job, nj.run = job[j].run, nj.delivery = job[j].delivery,
         nj.at # "done" => LiveFits(nj, nd, v),
         nj.at \notin {"new", "pool"}, v.status = "sending" => nj.at # "done",
         delivery' = [delivery EXCEPT ![job[j].delivery] = nd],
         job' = [job EXCEPT ![j] = nj]
  PROVE  MInv'
<1> DEFINE r == job[j].run
           d == job[j].delivery
<1>1. /\ r \in Runs /\ d \in DOMAIN delivery /\ run[r].job = j /\ run[r].delivery = d /\ delivery[d].run = r
      /\ run \in [Runs -> Run] /\ delivery \in Seq(Delivery) /\ job \in Seq(Job) /\ d # 0 /\ j # 0 /\ TypeOK
  <2>1. r \in Runs /\ d \in DOMAIN delivery /\ run[r].job = j /\ run[r].delivery = d /\ delivery[d].run = r
    BY LiveJob
  <2>2. run \in [Runs -> Run] /\ delivery \in Seq(Delivery) /\ job \in Seq(Job) /\ TypeOK
    BY DEF MInv, TypeOK
  <2>3. d # 0 /\ j # 0
    BY <2>1, Rows
  <2> QED
    BY <2>1, <2>2, <2>3
<1> HIDE DEF r, d
<1>2. TablesAre(d, nd, j, nj)
  <2>0. delivery' = [delivery EXCEPT ![d] = nd]
    BY DEF d
  <2>1. /\ delivery' \in Seq(Delivery) /\ Len(delivery') = Len(delivery) /\ DOMAIN delivery' = DOMAIN delivery
        /\ \A e \in DOMAIN delivery : delivery'[e] = IF e = d THEN nd ELSE delivery[e]
    <3>1. delivery \in Seq(Delivery) /\ d \in DOMAIN delivery /\ nd \in Delivery
      BY <1>1
    <3> QED
      BY ONLY <2>0, <3>1, Edited
  <2>2. /\ job' \in Seq(Job) /\ Len(job') = Len(job) /\ DOMAIN job' = DOMAIN job
        /\ \A i \in DOMAIN job : job'[i] = IF i = j THEN nj ELSE job[i]
    BY <1>1, Edited
  <2> QED
    BY <2>1, <2>2 DEF TablesAre
<1>3. RunFits(v)
  BY <1>1 DEF RunFits, r, d
<1>4. TablesKept
  BY <1>1, <1>2, <1>3, EditsKeep DEF r, d
<1>5. PassKept
  <2>1. run'[r] = v /\ \A s \in Runs : s # r => run'[s] = run[s]
    BY <1>1 DEF r
  <2>2. DOMAIN job' = DOMAIN job /\ job'[j] = nj /\ \A i \in DOMAIN job : i # j => job'[i] = job[i]
    BY <1>2 DEF TablesAre
  <2>3. \A e \in DOMAIN delivery : delivery[e].run # r => delivery'[e] = delivery[e]
    BY <1>1, <1>2 DEF TablesAre
  <2>4. run'[r].delivery = run[r].delivery /\ run'[r].job = run[r].job /\ job[j].run = r
    BY <2>1 DEF r
  <2> QED
    BY <1>1, <2>1, <2>2, <2>3, <2>4, PassUnmoved
<1> QED
  BY <1>1, <1>2, <1>4, <1>5 DEF MInv, TypeOK, TablesKept, TablesAre, PassKept

(* A job that writes its run, its delivery and its own row.                *)
LEMMA JobSets ==
  ASSUME MInv, NEW j \in DOMAIN job, job[j].at \in {"pool", "smtp", "sent"},
         NEW rs \in {"sending", "success", "error"}, NEW doubt \in BOOLEAN,
         NEW ds \in {"sending", "success", "error", "unknown"},
         NEW at \in {"smtp", "done"}, NEW status \in {"active", "success", "error"},
         Sets(j, rs, doubt, ds), JobGoes(j, at, status),
         job[j].at = "sent" => rs = "success" \/ (rs = "error" /\ doubt),
         rs = "success" => job[j].at = "sent",
         ds = "success" <=> rs = "success",
         rs = "error" /\ doubt => ds = "unknown", rs = "sending" => at = "smtp",
         at = "smtp" => rs = "sending" /\ status = "active"
  PROVE  MInv'
<1> DEFINE r == job[j].run
           d == job[j].delivery
           v == [run[r] EXCEPT !.status = rs, !.doubt = doubt]
           nd == [delivery[d] EXCEPT !.status = ds]
           nj == [job[j] EXCEPT !.at = at, !.status = status]
<1>0. /\ r \in Runs /\ d \in DOMAIN delivery /\ delivery[d].run = r /\ delivery[d] \in Delivery /\ job[j] \in Job
      /\ run[r] \in Run /\ run \in [Runs -> Run]
      /\ delivery[d].mails = IF job[j].at = "sent" THEN 1 ELSE 0
  BY LiveJob DEF MInv, TypeOK, LiveFits
<1>1. v \in Run /\ v.status = rs /\ v.doubt = doubt /\ v.delivery = run[r].delivery /\ v.job = run[r].job
  <2> HIDE DEF r, d
  <2> QED
    BY <1>0 DEF Run, Unsent, Ended
<1>2. nd \in Delivery /\ nd.run = r /\ nd.mails = delivery[d].mails /\ nd.status = ds
  <2> HIDE DEF r, d
  <2> QED
    BY <1>0 DEF Delivery
<1>3. nj \in Job /\ nj.run = r /\ nj.delivery = d /\ nj.at = at /\ nj.status = status
  BY <1>0 DEF Job
<1>4. run' = [run EXCEPT ![r] = v] /\ delivery' = [delivery EXCEPT ![d] = nd] /\ job' = [job EXCEPT ![j] = nj]
      /\ UNCHANGED <<pass, faults>>
  BY <1>0 DEF Sets, JobGoes
<1> HIDE DEF v, nd, nj
<1>5. MailFits(nd, v)
  BY <1>0, <1>1, <1>2 DEF MailFits, InDoubt
<1>6. nj.at # "done" => LiveFits(nj, nd, v)
  BY <1>0, <1>1, <1>2, <1>3 DEF LiveFits
<1>7. nj.at \notin {"new", "pool"} /\ (v.status = "sending" => nj.at # "done")
  BY <1>1, <1>3
<1> QED
  BY <1>1, <1>2, <1>3, <1>4, <1>5, <1>6, <1>7, JobStepKeeps

LEMMA JobStartsKeeps == ASSUME MInv, NEW j \in DOMAIN job, JobStarts(j) PROVE MInv'
<1>1. job[j].at = "pool" /\ delivery[job[j].delivery].status # "success"
  BY LiveJob DEF JobStarts, LiveFits, MailFits
<1>2. Sets(j, "sending", FALSE, "sending") /\ JobGoes(j, "smtp", "active")
  BY <1>1 DEF JobStarts
<1> QED
  BY <1>1, <1>2, JobSets

LEMMA JobFailsKeeps == ASSUME MInv, NEW j \in DOMAIN job, JobFails(j) PROVE MInv'
<1>1. job[j].at = "pool" /\ JobGoes(j, "done", "error")
  BY DEF JobFails
<1>2. CASE Sets(j, "error", FALSE, "error")
  BY <1>1, <1>2, JobSets
<1>3. CASE UNCHANGED <<run, delivery>>
  <2> DEFINE r == job[j].run
             v == run[r]
             nd == delivery[job[j].delivery]
             nj == [job[j] EXCEPT !.at = "done", !.status = "error"]
  <2>1. /\ v \in Run /\ nd \in Delivery /\ nd.run = r /\ MailFits(nd, v) /\ job[j] \in Job
        /\ v.status = "queued" /\ run \in [Runs -> Run] /\ delivery \in Seq(Delivery)
    BY <1>1, LiveJob DEF LiveFits, MInv, TypeOK
  <2>2. nj \in Job /\ nj.run = r /\ nj.delivery = job[j].delivery /\ nj.at = "done"
    BY <2>1 DEF Job
  <2>3. job' = [job EXCEPT ![j] = nj] /\ UNCHANGED <<pass, faults>>
    BY <1>1, <2>1 DEF JobGoes
  <2>4. delivery' = [delivery EXCEPT ![job[j].delivery] = nd] /\ run' = [run EXCEPT ![job[j].run] = v]
    BY <1>3, <2>1
  <2>5. v.delivery = run[job[j].run].delivery /\ v.job = run[job[j].run].job /\ nd.run = job[j].run
        /\ nj.run = job[j].run
    BY <2>1, <2>2
  <2> HIDE DEF nj, v, nd, r
  <2> QED
    BY <1>1, <2>1, <2>2, <2>3, <2>4, <2>5, JobStepKeeps
<1> QED
  BY <1>2, <1>3 DEF JobFails

LEMMA MailGoesOutKeeps == ASSUME MInv, NEW j \in DOMAIN job, MailGoesOut(j) PROVE MInv'
<1> DEFINE r == job[j].run
           v == run[r]
           nd == [delivery[job[j].delivery] EXCEPT !.mails = @ + 1]
           nj == [job[j] EXCEPT !.at = "sent", !.status = "active"]
<1>1. job[j].at = "smtp" /\ JobGoes(j, "sent", "active") /\ UNCHANGED run
      /\ delivery' = [delivery EXCEPT ![job[j].delivery].mails = @ + 1]
  BY DEF MailGoesOut
<1>2. /\ v \in Run /\ job[j] \in Job /\ delivery[job[j].delivery] \in Delivery
      /\ delivery[job[j].delivery].run = r /\ run \in [Runs -> Run]
      /\ MailFits(delivery[job[j].delivery], v) /\ LiveFits(job[j], delivery[job[j].delivery], v)
  BY <1>1, LiveJob DEF MInv, TypeOK
<1>3. nj \in Job /\ nj.run = r /\ nj.delivery = job[j].delivery /\ nj.at = "sent" /\ nj.status = "active"
  BY <1>2 DEF Job
<1>4. nd \in Delivery /\ nd.run = r /\ nd.mails = 1 /\ nd.status = delivery[job[j].delivery].status
  <2>1. delivery[job[j].delivery].mails = 0
    BY <1>1, <1>2 DEF LiveFits
  <2> QED
    BY <1>2, <2>1 DEF Delivery
<1>5. job' = [job EXCEPT ![j] = nj] /\ UNCHANGED <<pass, faults>> /\ run' = [run EXCEPT ![job[j].run] = v]
      /\ delivery' = [delivery EXCEPT ![job[j].delivery] = nd]
  BY <1>1, <1>2 DEF JobGoes
<1>6. v.delivery = run[job[j].run].delivery /\ v.job = run[job[j].run].job /\ nd.run = job[j].run
      /\ nj.run = job[j].run
  BY <1>3, <1>4
<1> HIDE DEF v, nd, nj, r
<1>7. v.status = "sending" \/ InDoubt(v)
  BY <1>1, <1>2 DEF LiveFits
<1>8. MailFits(nd, v) /\ LiveFits(nj, nd, v) /\ v.status \in {"sending", "error"}
  BY <1>2, <1>3, <1>4, <1>7 DEF MailFits, LiveFits, InDoubt
<1> QED
  BY <1>1, <1>2, <1>3, <1>4, <1>5, <1>6, <1>8, JobStepKeeps

LEMMA SendsKeep == ASSUME MInv, NEW j \in DOMAIN job, SendOk(j) \/ SendRaises(j) PROVE MInv'
<1>1. CASE SendOk(j)
  <2>1. job[j].at = "sent" /\ Sets(j, "success", FALSE, "success")
    BY <1>1 DEF SendOk
  <2>2. PICK status \in {"success", "error"} : JobGoes(j, "done", status)
    BY <1>1 DEF SendOk
  <2> QED
    BY <2>1, <2>2, JobSets
<1>2. CASE SendRaises(j)
  <2>1. job[j].at \in {"smtp", "sent"} /\ Sets(j, "error", TRUE, "unknown") /\ JobGoes(j, "done", "error")
    BY <1>2 DEF SendRaises
  <2> QED
    BY <2>1, JobSets
<1> QED
  BY <1>1, <1>2

-----------------------------------------------------------------------------
(* The rest of the passes. *)

LEMMA SubmitKeeps ==
  ASSUME MInv, OnePass, NEW p \in Processors, SubmitOk(p) \/ SubmitRaises(p)
  PROVE  MInv'
<1> DEFINE j == pass[p].holds
           r == pass[p].run
           d == job[j].delivery
           nd == delivery[d]
<1>1. /\ pass[p].at = "submit" /\ j \in DOMAIN job /\ job[j].run = r /\ job[j].at = "new"
      /\ pass' = [pass EXCEPT ![p] = Idle] /\ UNCHANGED <<delivery, faults>>
  BY PassOf DEF SubmitOk, SubmitRaises, Goes
<1> HIDE DEF j
<1>2. /\ r \in Runs /\ d \in DOMAIN delivery /\ run[r].job = j /\ run[r].delivery = d /\ delivery[d].run = r
      /\ job[j] \in Job /\ run[r] \in Run /\ nd \in Delivery
      /\ LiveFits(job[j], nd, run[r]) /\ MailFits(nd, run[r])
  BY <1>1, LiveJob
<1>3. run \in [Runs -> Run] /\ delivery \in Seq(Delivery) /\ job \in Seq(Job) /\ TypeOK
  BY DEF MInv, TypeOK
<1>4. PICK k \in {[job[j] EXCEPT !.at = "pool"], [job[j] EXCEPT !.status = "error", !.at = "done"]},
           v \in {run[r]} \cup {With(run[r], status, FALSE) : status \in {"retry_wait", "error"}} :
        /\ job' = [job EXCEPT ![j] = k] /\ run' = [run EXCEPT ![r] = v]
        /\ k.at = "pool" => v = run[r]
  <2>1. CASE SubmitOk(p)
    <3> DEFINE k == [job[j] EXCEPT !.at = "pool"]
    <3>1. job' = [job EXCEPT ![j] = k] /\ run' = [run EXCEPT ![r] = run[r]]
      BY <1>2, <1>3, <2>1 DEF SubmitOk, j
    <3> QED
      BY <3>1
  <2>2. CASE SubmitRaises(p)
    <3> DEFINE k == [job[j] EXCEPT !.status = "error", !.at = "done"]
    <3>1. job' = [job EXCEPT ![j] = k] /\ k.at # "pool"
      BY <1>1, <1>2, <1>3, <2>2 DEF SubmitRaises, j, Job
    <3>2. PICK status \in {"retry_wait", "error"} : Becomes(r, status)
      BY <2>2 DEF SubmitRaises
    <3>3. run' = [run EXCEPT ![r] = With(run[r], status, FALSE)]
      BY <1>2, <1>3, <3>2 DEF Becomes, With
    <3> QED
      BY <3>1, <3>3
  <2> QED
    BY <2>1, <2>2
<1>5. k \in Job /\ k.run = r /\ k.delivery = d /\ ((k.at = "pool" /\ k.status = job[j].status) \/ k.at = "done")
  BY <1>1, <1>2, <1>4 DEF Job
<1>6. v \in Run /\ v.delivery = d /\ v.job = j /\ (v = run[r] \/ (v.status \in {"retry_wait", "error"} /\ ~v.doubt))
  <2>1. CASE v = run[r]
    BY <1>2, <2>1
  <2>2. ASSUME NEW status \in {"retry_wait", "error"}, v = With(run[r], status, FALSE)
        PROVE  v \in Run /\ v.delivery = d /\ v.job = j /\ v.status = status /\ ~v.doubt
    <3> HIDE DEF r, d
    <3> QED
      BY <1>2, <2>2 DEF Run, With, Unsent, Ended
  <2> QED
    BY <1>4, <2>1, <2>2
<1>7. run[r].status = "queued" /\ job[j].status = "active" /\ nd.mails = 0
  BY <1>1, <1>2 DEF LiveFits
<1> HIDE DEF r, d, nd
<1>8. nd.status # "success"
  BY <1>2, <1>7 DEF MailFits
<1>9. RunFits(v) /\ MailFits(nd, v)
  BY <1>1, <1>2, <1>3, <1>6, <1>7, <1>8, Rows DEF RunFits, MailFits, InDoubt, TypeOK
<1>10. k.at # "done" => job[j].at # "done" /\ LiveFits(k, nd, v)
  BY <1>1, <1>4, <1>5, <1>7 DEF LiveFits
<1>11. TablesAre(d, nd, j, k)
  <2>1. /\ job' \in Seq(Job) /\ Len(job') = Len(job) /\ DOMAIN job' = DOMAIN job
        /\ \A i \in DOMAIN job : job'[i] = IF i = j THEN k ELSE job[i]
    BY <1>1, <1>3, <1>4, <1>5, Edited
  <2> QED
    BY <1>1, <1>3, <2>1 DEF TablesAre, nd
<1>12. v.delivery = run[r].delivery /\ v.job = run[r].job /\ nd.run = r /\ k.delivery = job[j].delivery
  BY <1>2, <1>5, <1>6 DEF nd, d
<1>13. TablesKept
  <2>1. r \in Runs /\ v \in Run /\ run' = [run EXCEPT ![r] = v] /\ d \in DOMAIN delivery /\ nd \in Delivery
        /\ j \in DOMAIN job /\ k \in Job /\ job[j].run = r /\ run[r].job = j /\ delivery[d].run = r /\ k.run = r
    BY <1>1, <1>2, <1>4, <1>5, <1>6
  <2> QED
    BY <1>9, <1>10, <1>11, <1>12, <2>1, EditsKeep
<1>14. PassKept
  BY <1>1, ToIdle
<1> QED
  BY <1>1, <1>3, <1>11, <1>13, <1>14 DEF MInv, TypeOK, TablesKept, TablesAre, PassKept

LEMMA StaleSendingKeeps ==
  ASSUME MInv, OnePass, NEW p \in Processors, StaleSending(p)
  PROVE  MInv'
<1> DEFINE r == pass[p].run
           d == run[r].delivery
           j == run[r].job
           nj == job[j]
           nd == [delivery[d] EXCEPT !.status = "unknown"]
           v == With(run[r], "error", TRUE)
<1>1. /\ pass[p].at = "stale" /\ "sending" \in Seen(p) /\ UNCHANGED <<job, faults>>
      /\ pass' = [pass EXCEPT ![p] = Idle]
      /\ delivery' = [delivery EXCEPT ![d].status = "unknown"]
      /\ run' = [run EXCEPT ![r].status = "error", ![r].doubt = TRUE]
  BY DEF StaleSending, SetsSending, Goes
<1>0. /\ r \in Runs /\ d # 0 /\ j # 0 /\ StaleFits(pass[p], run[r], job[j], delivery[d])
      /\ pass[p].holds \in {"queued", "sending"}
  BY <1>1, PassOf DEF Stale
<1>2. /\ TypeOK /\ run \in [Runs -> Run] /\ run[r] \in Run /\ delivery \in Seq(Delivery) /\ job \in Seq(Job)
      /\ d \in DOMAIN delivery /\ j \in DOMAIN job /\ delivery[d].run = r /\ job[j].run = r
  <2> HIDE DEF r
  <2> QED
    BY <1>0, Rows DEF MInv, TypeOK, RunOrder
<1>4. delivery[d] \in Delivery /\ MailFits(delivery[d], run[r]) /\ job[j] \in Job
  BY <1>2, Rows DEF MInv, MailOrder
<1>5. v \in Run /\ v.status = "error" /\ v.doubt /\ v.delivery = d /\ v.job = j
  <2> HIDE DEF r
  <2> QED
    BY <1>2 DEF Run, With, Unsent, Ended
<1>6. nd \in Delivery /\ nd.run = r /\ nd.mails = delivery[d].mails /\ nd.status = "unknown"
  BY <1>2, <1>4 DEF Delivery
<1>7. run' = [run EXCEPT ![r] = v] /\ delivery' = [delivery EXCEPT ![d] = nd]
  BY <1>0, <1>1, <1>2 DEF With
<1>8. nj.at # "done" => nj.at \in {"smtp", "sent"} /\ LiveFits(nj, delivery[d], run[r])
  <2>1. nj.at # "done" => LiveFits(nj, delivery[d], run[r])
    BY <1>2, LiveJob
  <2>2. "sending" = pass[p].holds \/ "sending" = run[r].status
    BY <1>1 DEF Seen
  <2>3. CASE "sending" = pass[p].holds
    <3>1. nj.at \notin {"new", "pool"}
      BY <1>0, <1>1, <2>3 DEF StaleFits
    <3> QED
      BY <1>4, <2>1, <3>1 DEF Job
  <2>4. CASE "sending" = run[r].status
    BY <1>4, <2>1, <2>4 DEF Job, LiveFits
  <2> QED
    BY <2>2, <2>3, <2>4
<1> HIDE DEF r, d, j, nj, nd, v
<1>9. RunFits(v) /\ MailFits(nd, v)
  BY <1>4, <1>5, <1>6 DEF RunFits, MailFits, InDoubt
<1>10. nj.at # "done" => LiveFits(nj, nd, v)
  BY <1>5, <1>6, <1>8 DEF LiveFits, InDoubt
<1>11. TablesAre(d, nd, j, nj)
  <2>1. /\ delivery' \in Seq(Delivery) /\ Len(delivery') = Len(delivery) /\ DOMAIN delivery' = DOMAIN delivery
        /\ \A e \in DOMAIN delivery : delivery'[e] = IF e = d THEN nd ELSE delivery[e]
    <3>1. delivery \in Seq(Delivery) /\ d \in DOMAIN delivery /\ nd \in Delivery
      BY <1>2, <1>6
    <3> QED
      BY ONLY <1>7, <3>1, Edited
  <2> QED
    BY <1>1, <1>2, <2>1 DEF TablesAre, nj
<1>12. TablesKept
  <2>1. v.delivery = run[r].delivery /\ v.job = run[r].job /\ run[r].job = j /\ nj \in Job /\ nj.run = r
        /\ nj.delivery = job[j].delivery /\ (nj.at # "done" => job[j].at # "done")
    BY <1>2, <1>4, <1>5 DEF d, j, nj
  <2> QED
    BY <1>0, <1>2, <1>5, <1>6, <1>7, <1>9, <1>10, <1>11, <2>1, EditsKeep
<1>13. PassKept
  BY <1>1, ToIdle
<1> QED
  BY <1>1, <1>2, <1>11, <1>12, <1>13 DEF MInv, TypeOK, TablesKept, TablesAre, PassKept

(* Only the run changes, and what is live or mailed still fits.            *)
LEMMA RunOnlyKeeps ==
  ASSUME MInv, NEW r \in Runs, NEW v \in Run, run' = [run EXCEPT ![r] = v],
         v.delivery = run[r].delivery, v.job = run[r].job, RunFits(v), UNCHANGED <<delivery, job>>,
         \A d \in DOMAIN delivery : delivery[d].run = r => MailFits(delivery[d], v),
         \A j \in DOMAIN job :
           job[j].run = r /\ job[j].at # "done" => LiveFits(job[j], delivery[job[j].delivery], v)
  PROVE  TablesKept
<1>1. delivery \in Seq(Delivery) /\ job \in Seq(Job)
  BY DEF MInv, TypeOK
<1> QED
  BY <1>1, LocalKeeps DEF TablesKept

LEMMA ResubmitKeeps ==
  ASSUME MInv, OnePass, NEW p \in Processors, NEW r \in Runs, Resubmit(p, r)
  PROVE  MInv'
<1> DEFINE d == run[r].delivery
           nd == [delivery[d] EXCEPT !.status = "queued"]
           v == With(run[r], "error", FALSE)
<1>1. run[r].status = "retry_wait" /\ d # 0 /\ delivery[d].status \in {"queued", "error"} /\ pass[p] = Idle
      /\ UNCHANGED faults
  BY DEF Resubmit
<1>2. /\ TypeOK /\ run \in [Runs -> Run] /\ run[r] \in Run /\ delivery \in Seq(Delivery) /\ job \in Seq(Job)
      /\ d \in DOMAIN delivery /\ d \in Nat \ {0} /\ delivery[d].run = r /\ delivery[d] \in Delivery
      /\ MailFits(delivery[d], run[r])
      /\ \A e \in DOMAIN delivery : delivery[e].run = r => e = d
  <2>1. TypeOK /\ d \in 0 .. Len(delivery) /\ delivery[d].run = r
    BY <1>1 DEF MInv, TypeOK, RunOrder
  <2>2. d \in DOMAIN delivery
    BY <1>1, <2>1, Rows
  <2>3. /\ delivery[d] \in Delivery /\ MailFits(delivery[d], run[r])
        /\ \A e \in DOMAIN delivery : delivery[e].run = r => e = d
    BY <2>1, <2>2, Rows DEF MInv, MailOrder
  <2> QED
    BY <1>1, <2>1, <2>2, <2>3, Rows DEF TypeOK
<1>3. \A j \in DOMAIN job : job[j].run = r => job[j].at = "done"
  <2> SUFFICES ASSUME NEW j \in DOMAIN job, job[j].run = r, job[j].at # "done" PROVE FALSE
    OBVIOUS
  <2>1. LiveFits(job[j], delivery[job[j].delivery], run[r]) /\ job[j] \in Job
    BY LiveJob
  <2> QED
    BY <1>1, <2>1 DEF LiveFits, InDoubt, Job
<1>4. delivery[d].mails = 0
  BY <1>1, <1>2 DEF MailFits, InDoubt
<1>5. CASE Retries(run[r].attempts)
  <2>1. delivery' = [delivery EXCEPT ![d] = nd] /\ HandsOver(p, r, d)
    BY <1>2, <1>5 DEF Resubmit
  <2>2. nd \in Delivery /\ nd.run = r /\ nd.mails = 0 /\ nd.status = "queued"
    BY <1>2, <1>4 DEF Delivery
  <2> HIDE DEF d, nd
  <2>3. /\ delivery' \in Seq(Delivery) /\ Len(delivery') = Len(delivery) /\ DOMAIN delivery' = DOMAIN delivery
        /\ \A e \in DOMAIN delivery : delivery'[e] = IF e = d THEN nd ELSE delivery[e]
    <3>1. delivery \in Seq(Delivery) /\ d \in DOMAIN delivery /\ nd \in Delivery
      BY <1>2, <2>2
    <3> QED
      BY ONLY <2>1, <3>1, Edited
  <2>4. /\ d \in DOMAIN delivery' /\ delivery'[d].run = r /\ delivery'[d].mails = 0 /\ delivery'[d].status = "queued"
        /\ Len(delivery) <= Len(delivery')
        /\ \A e \in DOMAIN delivery : delivery'[e].run = delivery[e].run
        /\ \A e \in DOMAIN delivery' :
             e # d => e \in DOMAIN delivery /\ delivery'[e] = delivery[e] /\ delivery[e].run # r
    BY <1>2, <2>2, <2>3, Rows
  <2> QED
    BY <1>1, <1>2, <1>3, <2>1, <2>3, <2>4, HandsOverKeeps
<1>6. CASE ~Retries(run[r].attempts)
  <2>1. run' = [run EXCEPT ![r] = v] /\ UNCHANGED <<delivery, job, pass>>
    BY <1>2, <1>6 DEF Resubmit, Becomes, With
  <2>2. v \in Run /\ v.status = "error" /\ ~v.doubt /\ v.delivery = d /\ v.job = run[r].job
    BY <1>2 DEF Run, With, Unsent, Ended
  <2> HIDE DEF d, v
  <2>3. RunFits(v) /\ MailFits(delivery[d], v)
    BY <1>1, <1>2, <1>4, <2>2 DEF RunFits, MailFits, InDoubt
  <2>4. \A e \in DOMAIN delivery : delivery[e].run = r => MailFits(delivery[e], v)
    BY <1>2, <2>3
  <2>5. v.delivery = run[r].delivery
    BY <2>2 DEF d
  <2>6. TablesKept
    BY <1>3, <2>1, <2>2, <2>3, <2>4, <2>5, RunOnlyKeeps
  <2>7. PassKept
    BY <1>1, <2>1, ToIdle
  <2> QED
    BY <1>1, <1>2, <2>1, <2>6, <2>7 DEF MInv, TypeOK, TablesKept, PassKept
<1> QED
  BY <1>5, <1>6

(* A pass that goes on without writing a table.                            *)
LEMMA TablesSame ==
  ASSUME MInv, UNCHANGED <<run, delivery, job>>, PassKept, faults' \in 0 .. MaxFaults
  PROVE  MInv'
<1>1. JobOrder' /\ MailOrder' /\ RunOrder'
  BY DEF MInv, JobOrder, MailOrder, RunOrder, LiveFits, MailFits, RunFits, InDoubt
<1> QED
  BY <1>1 DEF MInv, TypeOK, PassKept

LEMMA BreaksKeep ==
  ASSUME MInv, OnePass, NEW p \in Processors, SnapshotRaises(p) \/ BreaksOff(p)
  PROVE  MInv'
<1>1. /\ UNCHANGED <<run, delivery, job>> /\ pass' = [pass EXCEPT ![p] = Idle]
      /\ faults' = faults \/ (faults < MaxFaults /\ faults' = faults + 1)
  BY DEF SnapshotRaises, BreaksOff, Goes
<1>2. PassKept
  BY <1>1, ToIdle
<1>3. faults' \in 0 .. MaxFaults
  BY <1>1, DispatchAssumption DEF MInv, TypeOK
<1> QED
  BY <1>1, <1>2, <1>3, TablesSame

(* A pass that has read of a stale run what fits it.                       *)
LEMMA ToStale ==
  ASSUME MInv, OnePass, NEW p \in Processors, NEW r \in Runs, NEW next \in Pass, next.at \in Stale, next.run = r,
         run[r].delivery # 0, run[r].job # 0,
         StaleFits(next, run[r], job[run[r].job], delivery[run[r].delivery]),
         pass' = [pass EXCEPT ![p] = next], UNCHANGED <<run, delivery, job, faults>>
  PROVE  MInv'
<1>1. next.at \notin {"evaluate", "prepare", "submit"}
  BY DEF Stale
<1>2. StaleFits(next, run'[next.run], job'[run'[next.run].job], delivery'[run'[next.run].delivery])
  OBVIOUS
<1>3. PassKept
  BY <1>1, <1>2, PassGoes
<1>4. faults' \in 0 .. MaxFaults
  BY DEF MInv, TypeOK
<1> QED
  BY <1>3, <1>4, TablesSame

LEMMA ListsStaleKeeps ==
  ASSUME MInv, OnePass, NEW p \in Processors, NEW r \in Runs, ListsStale(p, r)
  PROVE  MInv'
<1> DEFINE next == Busy("stale", r, run[r].status)
           k == job[run[r].job]
<1>1. run[r].status \in {"queued", "sending"} /\ pass' = [pass EXCEPT ![p] = next]
      /\ UNCHANGED <<run, delivery, job, faults>>
  BY DEF ListsStale, Goes
<1>2. run[r].delivery # 0 /\ run[r].job # 0
  BY <1>1 DEF MInv, RunOrder, RunFits
<1>3. next \in Pass /\ next.at = "stale" /\ next.run = r /\ next.holds = run[r].status
  BY <1>1, BusyIsPass
<1>4. k.at # "done" => LiveFits(k, delivery[run[r].delivery], run[r])
  BY <1>2, StaleRows
<1> HIDE DEF next, k
<1>5. StaleFits(next, run[r], k, delivery[run[r].delivery])
  BY <1>1, <1>3, <1>4 DEF StaleFits, LiveFits
<1> QED
  BY <1>1, <1>2, <1>3, <1>5, ToStale DEF Stale, k

LEMMA StaleQueuedKeeps ==
  ASSUME MInv, OnePass, NEW p \in Processors, StaleQueued(p)
  PROVE  MInv'
<1> DEFINE r == pass[p].run
           k == job[run[r].job]
           d == delivery[run[r].delivery]
           next == Busy("stalled", r, k.status)
<1>1. pass[p].at = "stale" /\ Seen(p) # {"sending"} /\ pass' = [pass EXCEPT ![p] = next]
      /\ UNCHANGED <<run, delivery, job, faults>>
  BY DEF StaleQueued, Goes
<1>2. r \in Runs /\ run[r].delivery # 0 /\ run[r].job # 0 /\ StaleFits(pass[p], run[r], k, d)
      /\ pass[p].holds \in {"queued", "sending"}
  BY <1>1, PassOf DEF Stale
<1>3. k \in Job /\ (k.at # "done" => LiveFits(k, d, run[r]))
  BY <1>2, StaleRows
<1>4. next \in Pass /\ next.at = "stalled" /\ next.run = r /\ next.holds = k.status
  <2>1. k.status \in {"active", "success", "error"}
    BY <1>3 DEF Job
  <2> HIDE DEF k, r
  <2> QED
    BY <1>2, <2>1, BusyIsPass
<1>5. pass[p].holds = "queued" \/ run[r].status # "sending"
  BY <1>1, <1>2 DEF Seen
<1>6. run[r].status # "sending" \/ k.at # "done"
  BY <1>1, <1>2, <1>5 DEF StaleFits
<1> HIDE DEF r, k, d, next
<1>7. StaleFits(next, run[r], k, d)
  BY <1>3, <1>4, <1>6 DEF StaleFits, LiveFits
<1> QED
  BY <1>1, <1>2, <1>4, <1>7, ToStale DEF Stale, k, d

LEMMA StaleDeliveryKeeps ==
  ASSUME MInv, OnePass, NEW p \in Processors, StaleDelivery(p)
  PROVE  MInv'
<1> DEFINE r == pass[p].run
           k == job[run[r].job]
           d == delivery[run[r].delivery]
<1>1. pass[p].at = "stalled" /\ UNCHANGED <<run, delivery, job, faults>>
      /\ \/ d.status = "success" /\ pass' = [pass EXCEPT ![p] = Busy("recover", r, "success")]
         \/ /\ d.status # "success" /\ pass[p].holds = "error"
            /\ pass' = [pass EXCEPT ![p] = Busy("recover", r, "retry_wait")]
         \/ pass' = [pass EXCEPT ![p] = Idle]
  BY DEF StaleDelivery, Goes
<1>2. r \in Runs /\ run[r].delivery # 0 /\ run[r].job # 0 /\ StaleFits(pass[p], run[r], k, d)
  BY <1>1, PassOf DEF Stale
<1>3. (run[r].status # "sending" \/ k.at # "done") /\ (pass[p].holds = "error" => k.at = "done")
  BY <1>1, <1>2 DEF StaleFits
<1>4. ASSUME NEW holds \in {"success", "retry_wait"}, pass' = [pass EXCEPT ![p] = Busy("recover", r, holds)],
             holds = "success" => d.status = "success",
             holds = "retry_wait" => k.at = "done" /\ d.status # "success"
      PROVE  MInv'
  <2> DEFINE next == Busy("recover", r, holds)
  <2>1. next \in Pass /\ next.at = "recover" /\ next.run = r /\ next.holds = holds
    <3> HIDE DEF r
    <3> QED
      BY <1>2, BusyIsPass
  <2>2. pass' = [pass EXCEPT ![p] = next]
    BY <1>4
  <2> HIDE DEF r, k, d, next
  <2>3. StaleFits(next, run[r], k, d)
    BY <1>3, <1>4, <2>1 DEF StaleFits
  <2> QED
    BY <1>1, <1>2, <2>1, <2>2, <2>3, ToStale DEF Stale, k, d
<1>5. CASE pass' = [pass EXCEPT ![p] = Idle]
  <2>1. PassKept
    BY <1>5, ToIdle
  <2> QED
    BY <1>1, <2>1, TablesSame DEF MInv, TypeOK
<1> HIDE DEF r, k, d
<1> QED
  BY <1>1, <1>3, <1>4, <1>5

LEMMA RecoversKeeps ==
  ASSUME MInv, OnePass, NEW p \in Processors, Recovers(p)
  PROVE  MInv'
<1> DEFINE r == pass[p].run
           k == job[run[r].job]
           d == delivery[run[r].delivery]
           v == With(run[r], pass[p].holds, FALSE)
<1>1. pass[p].at = "recover" /\ Becomes(r, pass[p].holds) /\ pass' = [pass EXCEPT ![p] = Idle]
      /\ UNCHANGED <<delivery, job, faults>>
  BY DEF Recovers, Goes
<1>2. r \in Runs /\ run[r].delivery # 0 /\ run[r].job # 0 /\ StaleFits(pass[p], run[r], k, d)
      /\ pass[p].holds \in {"success", "retry_wait"}
  BY <1>1, PassOf DEF Stale
<1>3. run[r] \in Run /\ MailFits(d, run[r]) /\ run \in [Runs -> Run] /\ TypeOK /\ d \in Delivery
      /\ (k.at # "done" => LiveFits(k, d, run[r]))
  BY <1>2, StaleRows DEF MInv, TypeOK
<1>4. run' = [run EXCEPT ![r] = v] /\ v \in Run /\ v.status = pass[p].holds /\ ~v.doubt
      /\ v.delivery = run[r].delivery /\ v.job = run[r].job
  <2> HIDE DEF r
  <2> QED
    BY <1>1, <1>2, <1>3 DEF Becomes, With, Run, Unsent, Ended
<1>5. /\ \A e \in DOMAIN delivery : delivery[e].run = r => delivery[e] = d
      /\ \A i \in DOMAIN job : job[i].run = r /\ job[i].at # "done" => job[i] = k
  BY LiveJob DEF MInv, MailOrder
<1>6. /\ v.status = "success" => d.status = "success"
      /\ v.status = "retry_wait" => k.at = "done" /\ d.status # "success" /\ run[r].status # "sending"
  BY <1>1, <1>2, <1>4 DEF StaleFits
<1> HIDE DEF r, k, d, v
<1>7. RunFits(v)
  BY <1>2, <1>4 DEF RunFits
<1>8. MailFits(d, v)
  BY <1>2, <1>3, <1>4, <1>6 DEF MailFits, InDoubt
<1>9. k.at = "done"
  BY <1>2, <1>3, <1>4, <1>6 DEF LiveFits, MailFits, InDoubt
<1>10. TablesKept
  BY <1>1, <1>2, <1>4, <1>5, <1>7, <1>8, <1>9, RunOnlyKeeps
<1>11. PassKept
  BY <1>1, ToIdle
<1> QED
  BY <1>1, <1>3, <1>10, <1>11 DEF MInv, TypeOK, TablesKept, PassKept

LEMMA DeadlineKeeps == ASSUME MInv, NEW r \in Runs, DeadlinePasses(r) PROVE MInv'
<1> DEFINE v == [run[r] EXCEPT !.overdue = TRUE]
<1>1. UNCHANGED <<delivery, job, pass, faults>> /\ TypeOK /\ run[r] \in Run /\ run \in [Runs -> Run]
      /\ run' = [run EXCEPT ![r] = v]
  BY Rows DEF DeadlinePasses, MInv, TypeOK
<1>2. /\ v \in Run /\ v.status = run[r].status /\ v.doubt = run[r].doubt
      /\ v.delivery = run[r].delivery /\ v.job = run[r].job
  BY <1>1 DEF Run
<1> HIDE DEF v
<1>3. RunFits(v)
  BY <1>2 DEF RunFits, MInv, RunOrder
<1>4. \A d \in DOMAIN delivery : delivery[d].run = r => MailFits(delivery[d], v)
  BY <1>2 DEF MInv, MailOrder, MailFits, InDoubt
<1>5. \A j \in DOMAIN job :
        job[j].run = r /\ job[j].at # "done" => LiveFits(job[j], delivery[job[j].delivery], v)
  BY <1>2 DEF MInv, JobOrder, LiveFits, InDoubt
<1>6. TablesKept
  BY <1>1, <1>2, <1>3, <1>4, <1>5, RunOnlyKeeps
<1>7. \A s \in Runs : /\ run'[s].status = run[s].status
                       /\ run'[s].delivery = run[s].delivery /\ run'[s].job = run[s].job
  BY <1>1, <1>2
<1>8. PassKept
  <2>1. \A p \in Processors : pass[p].at \in {"evaluate", "prepare"} \cup Stale => pass[p].run \in Runs
    BY PassOf
  <2>2. PassOrder'
    <3> SUFFICES ASSUME NEW p \in Processors
                 PROVE  /\ pass[p].at \in Stale =>
                             /\ run'[pass[p].run].delivery # 0 /\ run'[pass[p].run].job # 0
                             /\ StaleFits(pass[p], run'[pass[p].run], job[run'[pass[p].run].job],
                                          delivery[run'[pass[p].run].delivery])
                        /\ pass[p].at \in {"evaluate", "prepare"} =>
                             run'[pass[p].run].status = pass[p].holds /\ run'[pass[p].run].delivery = 0
                        /\ pass[p].at = "submit" =>
                             job[pass[p].holds].run = pass[p].run /\ job[pass[p].holds].at = "new"
      BY <1>1 DEF PassOrder
    <3>1. CASE pass[p].at \in Stale
      BY <1>7, <2>1, <3>1, PassOf DEF StaleFits, Stale
    <3>2. CASE pass[p].at \notin Stale
      BY <1>7, <2>1, <3>2, PassOf
    <3> QED
      BY <3>1, <3>2
  <2> QED
    BY <1>1, <2>2 DEF PassKept, MInv, TypeOK
<1> QED
  BY <1>1, <1>6, <1>8 DEF MInv, TypeOK, TablesKept, PassKept

LEMMA RestartKeeps == ASSUME MInv, Restart PROVE MInv'
<1> DEFINE ended(j) == IF job[j].status = "active" THEN [job[j] EXCEPT !.status = "error", !.at = "done"]
                        ELSE [job[j] EXCEPT !.at = "done"]
<1>0. /\ UNCHANGED <<run, delivery>> /\ faults < MaxFaults /\ faults' = faults + 1
      /\ pass' = [p \in Processors |-> Idle] /\ job' = [j \in DOMAIN job |-> ended(j)]
  BY Zenon DEF Restart
<1>e. ASSUME NEW j \in DOMAIN job
      PROVE  ended(j) \in Job /\ ended(j).at = "done" /\ ended(j).run = job[j].run /\ ended(j).delivery = job[j].delivery
  <2>1. job[j] \in Job
    BY Rows
  <2> QED
    BY <2>1 DEF Job
<1> HIDE DEF ended
<1>1. TypeOK /\ faults' \in 0 .. MaxFaults
  <2>1. TypeOK /\ faults \in 0 .. MaxFaults /\ MaxFaults \in Nat
    BY DispatchAssumption DEF MInv, TypeOK
  <2> QED
    BY <1>0, <2>1
<1>2. /\ DOMAIN job' = DOMAIN job
      /\ \A j \in DOMAIN job :
           job'[j] \in Job /\ job'[j].at = "done" /\ job'[j].run = job[j].run /\ job'[j].delivery = job[j].delivery
  BY <1>0, <1>e
<1>3. job' \in Seq(Job) /\ Len(job') = Len(job)
  <2>1. job' \in [1 .. Len(job) -> Job] /\ Len(job) \in Nat
    BY <1>0, <1>2, Rows
  <2> QED
    BY <2>1, SeqDef, LenProperties
<1>4. TypeOK'
  <2>1. pass' \in [Processors -> Pass] /\ \A p \in Processors : pass'[p].at = "idle"
    BY <1>0, IdleIsPass
  <2> QED
    BY <1>0, <1>1, <1>2, <1>3, <2>1 DEF TypeOK
<1>5. JobOrder'
  <2>1. \A j \in DOMAIN job : delivery[job[j].delivery].run = job[j].run
    BY DEF MInv, JobOrder
  <2> QED
    BY <1>0, <1>2, <2>1 DEF JobOrder
<1>6. MailOrder'
  BY <1>0 DEF MInv, MailOrder, MailFits, InDoubt
<1>7. RunOrder'
  <2>1. \A r \in Runs : run[r].job # 0 => run[r].job \in DOMAIN job
    BY <1>1, Rows DEF TypeOK
  <2> QED
    BY <1>0, <1>2, <2>1 DEF MInv, RunOrder, RunFits
<1>8. PassOrder'
  BY <1>0, IdleIsPass DEF PassOrder, Stale
<1> QED
  BY <1>4, <1>5, <1>6, <1>7, <1>8 DEF MInv

-----------------------------------------------------------------------------
LEMMA MInvStarts == Init => MInv
<1> SUFFICES ASSUME Init PROVE MInv
  OBVIOUS
<1> DEFINE v == [status |-> "none", doubt |-> FALSE, overdue |-> FALSE, unreadable |-> FALSE, attempts |-> 0, delivery |-> 0, job |-> 0]
<1>1. /\ v \in Run /\ v.status = "none" /\ v.delivery = 0 /\ v.job = 0
      /\ run = [r \in Runs |-> v] /\ delivery = << >> /\ job = << >> /\ pass = [p \in Processors |-> Idle] /\ faults = 0
  BY DEF Init, Run
<1>0. \A r \in Runs : run[r] = v
  BY Zenon, <1>1
<1> HIDE DEF v
<1>2. /\ delivery \in Seq(Delivery) /\ Len(delivery) = 0 /\ DOMAIN delivery = {}
      /\ job \in Seq(Job) /\ Len(job) = 0 /\ DOMAIN job = {}
  BY <1>1
<1>3. \A p \in Processors : pass[p] \in Pass /\ pass[p].at = "idle"
  BY <1>1, IdleIsPass
<1>4. TypeOK
  BY <1>1, <1>2, <1>3, DispatchAssumption DEF TypeOK
<1>5. JobOrder /\ MailOrder /\ PassOrder
  BY <1>2, <1>3 DEF JobOrder, MailOrder, PassOrder, Stale
<1>6. RunOrder
  <2>1. RunFits(v)
    BY <1>1 DEF RunFits
  <2>2. \A r \in Runs : run[r].delivery = 0 /\ run[r].job = 0 /\ RunFits(run[r])
    BY Zenon, <1>0, <1>1, <2>1
  <2> QED
    BY Zenon, <2>2 DEF RunOrder
<1> QED
  BY <1>4, <1>5, <1>6 DEF MInv

LEMMA MInvStays == ASSUME OnePass, MInv, [Next]_vars PROVE MInv'
<1>1. CASE \E p \in Processors : Steps(p) \/ BreaksOff(p)
  BY <1>1, EvaluateKeeps, PrepareOkKeeps, PrepareRaisesKeeps, BreaksKeep, SubmitKeeps,
     StaleSendingKeeps, StaleQueuedKeeps, StaleDeliveryKeeps, RecoversKeeps DEF Steps
<1>2. CASE \E p \in Processors, r \in Runs : Claim(p, r) \/ Misfires(p, r) \/ Reconcile(p, r)
  BY <1>2, BeginKeeps, ResubmitKeeps, ListsStaleKeeps DEF Reconcile
<1>3. CASE \E j \in DOMAIN job : Works(j)
  BY <1>3, JobStartsKeeps, JobFailsKeeps, MailGoesOutKeeps, SendsKeep DEF Works
<1>4. CASE \E r \in Runs : DeadlinePasses(r)
  BY <1>4, DeadlineKeeps
<1>5. CASE Restart
  BY <1>5, RestartKeeps
<1>6. CASE UNCHANGED vars
  <2>1. PassOrder'
    BY <1>6 DEF vars, MInv, PassOrder
  <2>2. PassKept /\ faults' \in 0 .. MaxFaults
    BY <1>6, <2>1 DEF vars, MInv, TypeOK, PassKept
  <2> QED
    BY <1>6, <2>2, TablesSame DEF vars
<1> QED
  BY <1>1, <1>2, <1>3, <1>4, <1>5, <1>6 DEF Next

(* As long as passes do not overlap, the tables of runs, deliveries and    *)
(* jobs point to each other as MInv says: a job that is not done is the    *)
(* newest of its run, and a run has one delivery (queue_schedule_run,      *)
(* send_delivery, reconcile_schedule_runs).                                *)
THEOREM MailOrderKept == OnePass => (Spec => []MInv)
<1> SUFFICES ASSUME OnePass PROVE Spec => []MInv
  OBVIOUS
<1>1. MInv /\ [Next]_vars => MInv'
  BY MInvStays
<1> QED
  BY <1>1, MInvStarts, PTL DEF Spec

(* Then a run sends its mail once, whatever raises, faults or is slow.    *)
THEOREM OneMailAlone == OnePass => (Spec => []OneMailPerRun)
<1>1. MInv => OneMailPerRun
  <2> SUFFICES ASSUME MInv, NEW d \in DOMAIN delivery, NEW e \in DOMAIN delivery
               PROVE  delivery[d].mails <= 1 /\ (delivery[d].run = delivery[e].run => d = e)
    BY DEF OneMailPerRun
  <2> QED
    BY DEF MInv, MailOrder, MailFits
<1> QED
  BY <1>1, MailOrderKept, PTL

(* Then the status of a run tells the truth about its mail; and where the  *)
(* reconciliation calls a run unsent whose mail may be out, its delivery   *)
(* is "unknown", which no retry takes.                                     *)
THEOREM StatusTrueAlone == OnePass => (Spec => []StatusIsTrue)
<1>1. MInv => StatusIsTrue
  <2> SUFFICES ASSUME MInv, NEW r \in Runs
               PROVE  /\ run[r].status \in {"none", "claimed", "waiting_data", "queued", "skipped"} => ~Mailed(r)
                      /\ run[r].status = "error" /\ ~run[r].doubt => ~Mailed(r)
                      /\ run[r].status = "retry_wait" /\ Mailed(r) => Lost(r)
                      /\ run[r].status = "success" => Mailed(r)
    BY Zenon DEF StatusIsTrue
  <2>1. Mailed(r) => run[r].status \in {"sending", "success"} \/ InDoubt(run[r]) \/ Lost(r)
    <3> SUFFICES ASSUME NEW d \in DOMAIN delivery, delivery[d].run = r, delivery[d].mails > 0
                 PROVE  run[r].status \in {"sending", "success"} \/ InDoubt(run[r]) \/ Lost(r)
      BY DEF Mailed
    <3>1. run[r].delivery = d /\ MailFits(delivery[d], run[r]) /\ d # 0
      BY Rows DEF MInv, MailOrder
    <3> QED
      BY <3>1 DEF MailFits, Lost
  <2>2. ASSUME run[r].status = "success" PROVE Mailed(r)
    <3> DEFINE d == run[r].delivery
    <3>1. d # 0 /\ delivery[d].run = r /\ d \in 0 .. Len(delivery)
      BY <2>2 DEF MInv, RunOrder, RunFits, TypeOK
    <3>2. d \in DOMAIN delivery
      BY <3>1, Rows
    <3>3. delivery[d].mails = 1
      BY <2>2, <3>1, <3>2 DEF MInv, MailOrder, MailFits
    <3> QED
      BY <3>1, <3>2, <3>3 DEF Mailed
  <2>3. InDoubt(run[r]) => run[r].status = "error" /\ run[r].doubt
    BY DEF InDoubt
  <2>4. Lost(r) => run[r].status = "retry_wait"
    BY DEF Lost
  <2> QED
    BY <2>1, <2>2, <2>3, <2>4
<1> QED
  BY <1>1, MailOrderKept, PTL
=============================================================================

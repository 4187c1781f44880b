------------------------------ MODULE JobProofs ------------------------------
(***************************************************************************)
(* What holds of JobContinuation for any jobs, workers, clients, periods,  *)
(* and any number of pauses, restarts, continuations and faults.           *)
(*                                                                         *)
(* That a job has one future is not inductive: a job that is about to be   *)
(* submitted must have none.  The invariant follows a job from hand to     *)
(* hand (Alone), and says of each hand which row the database holds for it *)
(* (ThreadRow, QueueRow), which is also why no period is repeated.         *)
(***************************************************************************)
EXTENDS JobContinuation, FiniteSetTheorems, SequenceTheorems, TLAPS

(* Where a thread has a job in its hands, and nobody else may. *)
Holding ==
  {"created", "taken", "restoring", "working", "pausing", "publishing", "resubmitting", "refused"}

Has(t, j) == at[t].point \in Holding /\ at[t].job = j
Left(t, j) == at[t].point = "finished" /\ at[t].job = j

(* Who may stand where. *)
Role(t) ==
  /\ at[t].point = "idle" => at[t] = Idle
  /\ at[t].point \in {"taken", "restoring", "working", "finished"} => t \in Workers
  /\ at[t].point = "created" => t \in Clients
  /\ at[t].point \in {"pausing", "publishing"} => t \in Workers \cup Clients
  /\ at[t].point = "recover" => t = Control
  /\ at[t].point = "checking" => at[t].tag # 0
  /\ at[t].point \in {"created", "checking", "rearmed"} \cup Running \cup Reserving => at[t].job \in Jobs

(* What the database holds of a job. *)
JobRow(j) ==
  /\ status[j] \in {"none", "queued"} => worked[j] = 0
  /\ status[j] = "paused" <=> saved[j] # NoContinuation
  /\ status[j] = "paused" => Lawful(saved[j]) /\ saved[j].cursor = worked[j]

(* ... and of the job that a thread has. *)
ThreadRow(t) ==
  LET j == at[t].job
      c == at[t].cursor
  IN  /\ at[t].point = "created" => status[j] = "queued" /\ c = 0
      /\ at[t].point = "taken" => status[j] = (IF at[t].resuming THEN "paused" ELSE "queued") /\ c = 0
      /\ at[t].point \in {"restoring", "publishing", "resubmitting", "refused"} => status[j] = "paused"
      /\ at[t].point = "working" => c = worked[j] /\ status[j] = (IF c = 0 THEN "queued" ELSE "running")
      /\ at[t].point = "pausing" =>
           \/ c = 0 /\ status[j] = "queued"
           \/ c = 0 /\ status[j] = "paused" /\ t \in Workers
           \/ c > 0 /\ status[j] = "running" /\ c = worked[j]
      /\ at[t].point = "finished" => status[j] # "none"

QueueRow(i) == status[queue[i].job] = (IF queue[i].resuming THEN "paused" ELSE "queued")

(* A job is in one place: with one thread, in one future of the queue, or  *)
(* on the shelf.  A future whose callback has not popped it stands beside  *)
(* the continuation of a repair, and beside the shelf.                     *)
ThreadsAlone ==
  /\ \A s, t \in Threads, j \in Jobs : Has(s, j) /\ Has(t, j) => s = t
  /\ \A s, t \in Threads, j \in Jobs : Left(s, j) /\ Left(t, j) => s = t
  /\ \A s, t \in Threads, j \in Jobs : Left(s, j) /\ Has(t, j) => t \in Clients /\ j \in Repairs

QueueAlone ==
  /\ \A i, k \in DOMAIN queue : queue[i].job = queue[k].job => i = k
  /\ \A i \in DOMAIN queue, t \in Threads : ~Has(t, queue[i].job) /\ ~Left(t, queue[i].job)

ShelfAlone ==
  \A j \in Jobs : shelf[j] # 0 =>
    status[j] = "paused" /\ ~Queued(j) /\ \A t \in Threads : ~Has(t, j)

(* What the startup recovers is with nobody until it has. *)
RecoverAlone ==
  at[Control].point = "recover" => \A j \in at[Control].todo :
    status[j] = "paused" /\ shelf[j] = 0 /\ ~Queued(j) /\ \A t \in Threads : ~Has(t, j)

(* The control thread is not at the shelf while admission is closed.       *)
ControlRests == ~Open => at[Control] = Idle

(* A row that is not paused or ended is with somebody, or its outcome is   *)
(* known to be uncertain.                                                  *)
Owned ==
  rearms = 0 =>
    /\ \A t \in Clients : at[t].point \in {"created", "pausing"} => ~at[t].resuming
    /\ \A j \in Jobs : status[j] \in {"queued", "running"} =>
         j \in unresolved \/ Queued(j) \/ \E t \in Threads : Has(t, j)

JobInv ==
  /\ TypeOK
  /\ \A t \in Threads : Role(t) /\ ThreadRow(t)
  /\ \A j \in Jobs : JobRow(j)
  /\ \A i \in DOMAIN queue : QueueRow(i)
  /\ ThreadsAlone /\ QueueAlone /\ ShelfAlone /\ RecoverAlone
  /\ ControlRests /\ PreparedIsQuiet

-----------------------------------------------------------------------------
(* A tag that nobody holds is left: each thread holds one, and the shelf   *)
(* one of the job.                                                         *)
LEMMA NewTagIsTag ==
  ASSUME TypeOK, NEW j \in Jobs
  PROVE  NewTag(j) \in Tags
<1> DEFINE tagOf == [t \in Threads |-> at[t].tag]
           held == {at[t].tag : t \in Threads}
<1>0. IsFiniteSet(Threads)
  BY JobAssumption
<1>1. IsFiniteSet(Threads) /\ Cardinality(Threads) \in Nat
  BY <1>0, FS_CardinalityType
<1>2. tagOf \in Surjection(Threads, held)
  BY DEF Surjection
<1> HIDE DEF tagOf, held
<1>3. IsFiniteSet(held) /\ Cardinality(held) <= Cardinality(Threads) /\ Cardinality(held) \in Nat
  BY <1>1, <1>2, FS_Surjection, FS_CardinalityType
<1>4. /\ IsFiniteSet(held \cup {shelf[j]})
      /\ Cardinality(held \cup {shelf[j]}) \in Nat
      /\ Cardinality(held \cup {shelf[j]}) <= Cardinality(Threads) + 1
  <2>1. /\ IsFiniteSet(held \cup {shelf[j]})
        /\ Cardinality(held \cup {shelf[j]})
             = IF shelf[j] \in held THEN Cardinality(held) ELSE Cardinality(held) + 1
    BY <1>3, FS_AddElement
  <2> QED
    BY <1>1, <1>3, <2>1
<1>5. Cardinality(Tags) = Cardinality(Threads) + 2
  BY <1>1, FS_Interval DEF Tags
<1>6. ~(Tags \subseteq held \cup {shelf[j]})
  <2> SUFFICES ASSUME Tags \subseteq held \cup {shelf[j]} PROVE FALSE
    OBVIOUS
  <2>1. Cardinality(Tags) <= Cardinality(held \cup {shelf[j]})
    BY <1>4, FS_Subset
  <2> QED
    BY <1>1, <1>4, <1>5, <2>1
<1>7. PICK g \in Tags : g \notin held /\ g # shelf[j]
  BY <1>6
<1>8. \A t \in Threads : at[t].tag # g
  BY <1>7 DEF held
<1> QED
  BY <1>7, <1>8 DEF NewTag

-----------------------------------------------------------------------------
(* Who has a job has it alone. *)

(* No other thread, no future and no recovery has job j. *)
Alone(t, j) ==
  /\ \A s \in Threads : Has(s, j) => s = t
  /\ ~Queued(j)
  /\ at[Control].point = "recover" => j \notin at[Control].todo

LEMMA HolderIsAlone ==
  ASSUME JobInv, NEW t \in Threads, NEW j \in Jobs, Has(t, j)
  PROVE  /\ Alone(t, j) /\ shelf[j] = 0
         /\ \A s \in Threads : Left(s, j) => t \in Clients /\ j \in Repairs
<1>1. \A s \in Threads : Has(s, j) => s = t
  BY DEF JobInv, ThreadsAlone
<1>2. ~Queued(j)
  BY DEF JobInv, QueueAlone, Queued
<1>3. shelf[j] = 0
  BY DEF JobInv, ShelfAlone
<1>4. at[Control].point = "recover" => j \notin at[Control].todo
  BY DEF JobInv, RecoverAlone
<1>5. \A s \in Threads : Left(s, j) => t \in Clients /\ j \in Repairs
  BY DEF JobInv, ThreadsAlone
<1> QED
  BY <1>1, <1>2, <1>3, <1>4, <1>5 DEF Alone

(* Nobody has a job that was never admitted, or that has ended.            *)
LEMMA EndedIsAlone ==
  ASSUME JobInv, NEW t \in Threads, NEW j \in Jobs, status[j] \in {"none", "success", "error"}
  PROVE  Alone(t, j) /\ shelf[j] = 0
<1>1. ASSUME NEW s \in Threads PROVE ~Has(s, j)
  <2>1. ThreadRow(s)
    BY DEF JobInv
  <2> QED
    BY <2>1 DEF ThreadRow, Has, Holding
<1>2. ~Queued(j)
  BY DEF JobInv, QueueRow, Queued
<1>3. shelf[j] = 0
  BY DEF JobInv, ShelfAlone
<1>4. at[Control].point = "recover" => j \notin at[Control].todo
  BY DEF JobInv, RecoverAlone
<1> QED
  BY <1>1, <1>2, <1>3, <1>4 DEF Alone

-----------------------------------------------------------------------------
(* What a step of one thread keeps. *)

Futures == [job : Jobs, resuming : BOOLEAN]

LEMMA QueueHolds ==
  ASSUME TypeOK
  PROVE  /\ Len(queue) \in Nat /\ DOMAIN queue = 1 .. Len(queue)
         /\ \A i \in DOMAIN queue : queue[i] \in Futures /\ queue[i].job \in Jobs
<1>1. queue \in Seq(Futures)
  BY DEF TypeOK, Futures
<1>2. /\ Len(queue) \in Nat /\ DOMAIN queue = 1 .. Len(queue)
      /\ \A i \in DOMAIN queue : queue[i] \in Futures
  BY <1>1, LenProperties, ElementOfSeq
<1> QED
  BY <1>2 DEF Futures

(* Thread t moves, and of the rows at most that of job j changes. *)
Moves(t) ==
  /\ at' = [at EXCEPT ![t] = at'[t]]
  /\ prepare' = prepare /\ prepare # "prepared"
  /\ at'[t].point # "recover"
  /\ t = Control => Open

RowsBut(j) ==
  \A k \in Jobs \ {j} : status'[k] = status[k] /\ saved'[k] = saved[k] /\ worked'[k] = worked[k]

LEMMA Others ==
  ASSUME TypeOK, NEW t \in Threads, Moves(t)
  PROVE  /\ \A s \in Threads \ {t} : at'[s] = at[s]
         /\ \A s \in Threads \ {t}, k \in Jobs : (Has(s, k)' <=> Has(s, k)) /\ (Left(s, k)' <=> Left(s, k))
         /\ \A s \in Threads \ {t} : Role(s) => Role(s)'
<1>1. \A s \in Threads \ {t} : at'[s] = at[s]
  BY DEF Moves, TypeOK
<1> QED
  BY <1>1 DEF Has, Left, Role

(* The row of a job that nobody else has may change.                       *)
LEMMA RowOfOthers ==
  ASSUME JobInv, NEW t \in Threads, Moves(t), NEW j \in Jobs, RowsBut(j),
         status'[j] # "none", \A s \in Threads : Has(s, j) => s = t
  PROVE  \A s \in Threads \ {t} : ThreadRow(s)'
<1> SUFFICES ASSUME NEW s \in Threads \ {t} PROVE ThreadRow(s)'
  OBVIOUS
<1>1. at'[s] = at[s] /\ Role(s) /\ ThreadRow(s) /\ ~Has(s, j)
  BY Others DEF JobInv
<1>2. CASE at[s].job = j
  <2>1. at'[s].point \notin Holding
    BY <1>1, <1>2 DEF Has
  <2> QED
    BY <1>1, <1>2, <2>1 DEF ThreadRow, Holding
<1>3. CASE at[s].job # j /\ at[s].point \in Holding \cup {"finished"}
  <2>1. at[s].job \in Jobs
    BY <1>1, <1>3 DEF Role, Holding, Running, Reserving
  <2> QED
    BY <1>1, <1>3, <2>1 DEF ThreadRow, RowsBut
<1>4. CASE at[s].point \notin Holding \cup {"finished"}
  BY <1>1, <1>4 DEF ThreadRow, Holding
<1> QED
  BY <1>2, <1>3, <1>4

(* A thread works on a job that it has alone, before or since.             *)
LEMMA WorkKeeps ==
  ASSUME JobInv, TypeOK', NEW t \in Threads, Moves(t), NEW j \in Jobs, Alone(t, j),
         RowsBut(j), queue' = queue, \A k \in Jobs \ {j} : shelf'[k] = shelf[k],
         shelf'[j] # 0 => status'[j] = "paused" /\ ~Has(t, j)',
         \A k \in Jobs : Has(t, k)' \/ Left(t, k)' => k = j,
         \A s \in Threads : Left(s, j) => Left(t, j)' = FALSE /\ (Has(t, j)' => t \in Clients /\ j \in Repairs),
         Role(t)', ThreadRow(t)', JobRow(j)', status'[j] # "none"
  PROVE  JobInv'
<1> DEFINE same ==
      /\ \A s \in Threads \ {t} : at'[s] = at[s]
      /\ \A s \in Threads \ {t}, k \in Jobs : (Has(s, k)' <=> Has(s, k)) /\ (Left(s, k)' <=> Left(s, k))
      /\ \A s \in Threads \ {t} : Role(s) => Role(s)'
      /\ \A i \in DOMAIN queue : queue[i].job \in Jobs
<1>0. same /\ TypeOK
  BY Others, QueueHolds DEF JobInv
<1>1. \A s \in Threads : Role(s)' /\ ThreadRow(s)'
  BY <1>0, RowOfOthers DEF JobInv, Alone
<1>2. \A k \in Jobs : JobRow(k)'
  BY DEF JobInv, JobRow, RowsBut
<1>3. \A i \in DOMAIN queue' : QueueRow(i)'
  <2> SUFFICES ASSUME NEW i \in DOMAIN queue PROVE QueueRow(i)'
    OBVIOUS
  <2>1. queue[i].job \in Jobs \ {j}
    BY <1>0 DEF Alone, Queued
  <2> QED
    BY <2>1 DEF JobInv, QueueRow, RowsBut
<1>4. ThreadsAlone'
  <2>1. \A r, s \in Threads, k \in Jobs : Has(r, k)' /\ Has(s, k)' => r = s
    BY <1>0 DEF JobInv, ThreadsAlone, Alone
  <2>2. \A r, s \in Threads, k \in Jobs : Left(r, k)' /\ Left(s, k)' => r = s
    BY <1>0 DEF JobInv, ThreadsAlone, Alone
  <2>3. \A k \in Jobs : ~(Left(t, k)' /\ Has(t, k)')
    BY DEF Left, Has, Holding
  <2>4. \A r, s \in Threads, k \in Jobs : Left(r, k)' /\ Has(s, k)' => s \in Clients /\ k \in Repairs
    BY <1>0, <2>3 DEF JobInv, ThreadsAlone, Alone
  <2> QED
    BY <2>1, <2>2, <2>4 DEF ThreadsAlone
<1>5. QueueAlone'
  <2>1. \A i \in DOMAIN queue : queue[i].job \in Jobs \ {j}
    BY <1>0 DEF Alone, Queued
  <2> QED
    BY <1>0, <2>1 DEF JobInv, QueueAlone
<1>6. ShelfAlone'
  <2> SUFFICES ASSUME NEW k \in Jobs, shelf'[k] # 0
               PROVE  status'[k] = "paused" /\ ~Queued(k)' /\ \A s \in Threads : ~Has(s, k)'
    BY DEF ShelfAlone
  <2>1. CASE k = j
    BY <1>0, <2>1 DEF Alone, Queued
  <2>2. CASE k # j
    <3>1. shelf[k] # 0
      BY <2>2
    <3>2. ~Queued(k)'
      BY <3>1 DEF Queued, JobInv, ShelfAlone
    <3> QED
      BY <1>0, <2>2, <3>1, <3>2 DEF JobInv, ShelfAlone, RowsBut
  <2> QED
    BY <2>1, <2>2
<1>7. RecoverAlone'
  <2> SUFFICES ASSUME at'[Control].point = "recover", NEW k \in at'[Control].todo
               PROVE  /\ status'[k] = "paused" /\ shelf'[k] = 0 /\ ~Queued(k)'
                      /\ \A s \in Threads : ~Has(s, k)'
    BY DEF RecoverAlone
  <2>1. t # Control /\ at'[Control] = at[Control]
    BY <1>0 DEF Moves, Threads
  <2>2. k \in Jobs /\ k # j
    BY <2>1 DEF Alone, JobInv, TypeOK, Thread, Threads
  <2>3. ~Queued(k)'
    BY <2>1 DEF Queued, JobInv, RecoverAlone
  <2> QED
    BY <1>0, <2>1, <2>2, <2>3 DEF JobInv, RecoverAlone, RowsBut
<1>8. ControlRests' /\ PreparedIsQuiet'
  <2>1. t # Control => at'[Control] = at[Control]
    BY <1>0 DEF Threads
  <2> QED
    BY <2>1 DEF Moves, ControlRests, PreparedIsQuiet, JobInv, Open
<1> QED
  BY <1>1, <1>2, <1>3, <1>4, <1>5, <1>6, <1>7, <1>8 DEF JobInv

(* A thread lets go of what it had, and of the state nothing else changes. *)
LEMMA RestKeeps ==
  ASSUME JobInv, TypeOK', NEW t \in Threads, Moves(t),
         UNCHANGED <<rows, queue, shelf>>,
         at'[t].point \notin Holding \cup {"finished"}, Role(t)'
  PROVE  JobInv'
<1> DEFINE same ==
      /\ \A s \in Threads \ {t} : at'[s] = at[s]
      /\ \A s \in Threads \ {t}, k \in Jobs : (Has(s, k)' <=> Has(s, k)) /\ (Left(s, k)' <=> Left(s, k))
      /\ \A s \in Threads \ {t} : Role(s) => Role(s)'
      /\ \A i \in DOMAIN queue : queue[i].job \in Jobs
<1>0. same /\ TypeOK
  BY Others, QueueHolds DEF JobInv
<1>1. UNCHANGED <<status, saved, worked>> /\ \A k \in Jobs : ~Has(t, k)' /\ ~Left(t, k)'
  BY DEF rows, Has, Left
<1>2. ASSUME NEW s \in Threads PROVE Role(s)' /\ ThreadRow(s)'
  <2>1. CASE s = t
    BY <2>1 DEF ThreadRow, Holding
  <2>2. CASE s # t
    BY <1>1, <2>2, <1>0 DEF JobInv, ThreadRow
  <2> QED
    BY <2>1, <2>2
<1>3. \A k \in Jobs : JobRow(k)'
  BY <1>1 DEF JobInv, JobRow
<1>4. \A i \in DOMAIN queue' : QueueRow(i)'
  BY <1>1 DEF JobInv, QueueRow
<1>5. ThreadsAlone'
  BY <1>0, <1>1 DEF JobInv, ThreadsAlone
<1>6. QueueAlone'
  BY <1>0, <1>1 DEF JobInv, QueueAlone, TypeOK
<1>7. ShelfAlone' /\ RecoverAlone'
  <2>1. \A k \in Jobs, s \in Threads : Has(s, k)' => Has(s, k)
    BY <1>0, <1>1
  <2>2. \A k : Queued(k)' <=> Queued(k)
    BY DEF Queued
  <2>3. at'[Control].point = "recover" => at'[Control] = at[Control]
    BY <1>0 DEF Moves, Threads
  <2>4. at[Control].todo \subseteq Jobs
    BY DEF JobInv, TypeOK, Thread, Threads
  <2>5. ShelfAlone'
    BY <1>1, <2>1, <2>2 DEF JobInv, ShelfAlone
  <2>6. RecoverAlone'
    BY <1>1, <2>1, <2>2, <2>3, <2>4 DEF JobInv, RecoverAlone
  <2> QED
    BY <2>5, <2>6
<1>8. ControlRests' /\ PreparedIsQuiet'
  <2>1. t # Control => at'[Control] = at[Control]
    BY <1>0 DEF Threads
  <2> QED
    BY <2>1 DEF Moves, ControlRests, PreparedIsQuiet, JobInv, Open
<1> QED
  BY <1>2, <1>3, <1>4, <1>5, <1>6, <1>7, <1>8 DEF JobInv

-----------------------------------------------------------------------------
(* Every step keeps the invariant. *)

LEMMA Before ==
  ASSUME JobInv, NEW t \in Threads
  PROVE  /\ TypeOK /\ at[t] \in Thread /\ Role(t) /\ ThreadRow(t)
         /\ prepare = "prepared" => at[t] = Idle /\ queue = <<>>
         /\ ~Open /\ t = Control => at[t] = Idle
         /\ at[t].point # "idle" => prepare # "prepared" /\ (t = Control => Open)
         /\ at[t].job \in Jobs => JobRow(at[t].job)
         /\ Idle.point = "idle"
BY DEF JobInv, TypeOK, PreparedIsQuiet, ControlRests, Idle, Doing

LEMMA DoingIsThread ==
  ASSUME NEW point \in Points, NEW j \in Jobs \cup {NoJob}
  PROVE  Doing(point, j) \in Thread
BY JobAssumption DEF Doing, Thread

LEMMA IdleIsThread == Idle \in Thread /\ Idle.point = "idle"
BY DoingIsThread DEF Idle, Doing, Points

LEMMA ScanIsThread ==
  ASSUME NEW todo \in SUBSET Jobs
  PROVE  Scan(todo) \in Thread /\ Scan(todo).point = "scanning" /\ Scan(todo).todo = todo
<1>1. Doing("scanning", NoJob) \in Thread /\ Doing("scanning", NoJob).point = "scanning"
  BY DoingIsThread DEF Doing, Points
<1> QED
  BY <1>1 DEF Scan, Thread

LEMMA EnqueueKeeps ==
  ASSUME JobInv, NEW t \in Threads, NEW j \in Jobs, Enqueue(t, j)
  PROVE  JobInv'
<1> USE Before
<1>1. at' = [at EXCEPT ![t] = Doing("created", j)] /\ at'[t] = Doing("created", j)
  BY DEF Enqueue, TypeOK
<1>2. TypeOK'
  <2>1. Doing("created", j) \in Thread
    BY DoingIsThread DEF Points
  <2>2. at' \in [Threads -> Thread]
    BY <1>1, <2>1 DEF TypeOK
  <2> QED
    BY <2>2 DEF Enqueue, TypeOK, counters
<1>3. Moves(t)
  <2>1. at'[t].point = "created"
    BY <1>1 DEF Doing
  <2> QED
    BY <1>1, <2>1 DEF Moves, Enqueue, Open
<1>4. RowsBut(j) /\ JobRow(j)' /\ status'[j] # "none"
  BY DEF RowsBut, Enqueue, TypeOK, JobInv, JobRow
<1>5. Role(t)' /\ ThreadRow(t)'
  BY <1>1 DEF Role, ThreadRow, Doing, Enqueue, TypeOK, Holding, Running, Reserving
<1>6. \A k \in Jobs : Has(t, k)' \/ Left(t, k)' => k = j
  BY <1>1 DEF Has, Left, Doing
<1>7. \A s \in Threads : ~Left(s, j)
  BY DEF JobInv, ThreadRow, Enqueue, Left
<1>8. Alone(t, j) /\ shelf[j] = 0
  BY EndedIsAlone DEF Enqueue
<1> QED
  BY <1>2, <1>3, <1>4, <1>5, <1>6, <1>7, <1>8, WorkKeeps DEF Enqueue

LEMMA ContinueKeeps ==
  ASSUME JobInv, NEW t \in Threads, NEW j \in Jobs, Continue(t, j)
  PROVE  JobInv'
<1> USE Before
<1> DEFINE next == [Doing("created", j) EXCEPT !.resuming = TRUE]
<1>1. at' = [at EXCEPT ![t] = next] /\ at'[t] = next
  BY DEF Continue, TypeOK
<1>2. TypeOK'
  <2>1. next \in Thread
    <3>1. Doing("created", j) \in Thread
      BY DoingIsThread DEF Points
    <3> QED
      BY <3>1 DEF Thread
  <2> HIDE DEF next
  <2>2. at' \in [Threads -> Thread]
    BY <1>1, <2>1 DEF TypeOK
  <2>3. worked' \in [Jobs -> 0 .. Periods]
    BY JobAssumption DEF Continue, TypeOK
  <2>4. rearms' \in 0 .. MaxRearms
    BY JobAssumption DEF Continue, TypeOK
  <2> QED
    BY <2>2, <2>3, <2>4 DEF Continue, TypeOK
<1>3. Moves(t)
  BY <1>1 DEF Moves, Continue, Open, JobInv, PreparedIsQuiet, Doing
<1>4. RowsBut(j) /\ JobRow(j)' /\ status'[j] # "none"
  BY DEF RowsBut, Continue, TypeOK, JobInv, JobRow
<1>5. Role(t)' /\ ThreadRow(t)'
  BY <1>1 DEF Role, ThreadRow, Doing, Continue, TypeOK, Holding, Running, Reserving
<1>6. \A k \in Jobs : Has(t, k)' \/ Left(t, k)' => k = j
  BY <1>1 DEF Has, Left, Doing
<1>7. \A s \in Threads : Left(s, j) => Left(t, j)' = FALSE /\ (Has(t, j)' => t \in Clients /\ j \in Repairs)
  BY <1>1 DEF Continue, Left, Doing
<1>8. Alone(t, j) /\ shelf[j] = 0
  BY EndedIsAlone DEF Continue
<1> QED
  BY <1>2, <1>3, <1>4, <1>5, <1>6, <1>7, <1>8, WorkKeeps DEF Continue

(* A thread goes on with the job that it has.                              *)
LEMMA HolderKeeps ==
  ASSUME JobInv, TypeOK', NEW t \in Threads, Moves(t), NEW j \in Jobs, Has(t, j),
         RowsBut(j), queue' = queue, shelf' = shelf,
         at'[t].point \in Holding \cup {"finished"} => at'[t].job = j,
         at'[t].point = "finished" => t \notin Clients,
         Role(t)', ThreadRow(t)', JobRow(j)', status'[j] # "none"
  PROVE  JobInv'
<1>1. Alone(t, j) /\ shelf[j] = 0 /\ \A s \in Threads : Left(s, j) => t \in Clients /\ j \in Repairs
  BY HolderIsAlone
<1>2. \A k \in Jobs : Has(t, k)' \/ Left(t, k)' => k = j
  BY DEF Has, Left
<1>3. \A s \in Threads : Left(s, j) => Left(t, j)' = FALSE /\ (Has(t, j)' => t \in Clients /\ j \in Repairs)
  BY <1>1 DEF Left
<1> QED
  BY <1>1, <1>2, <1>3, WorkKeeps

(* Nothing but thread t moves. *)
Only(t) ==
  /\ UNCHANGED <<rows, prepare, queue, shelf, unresolved, counters>>
  /\ at' = [at EXCEPT ![t] = at'[t]] /\ at'[t] \in Thread
  /\ at[t].point # "idle" /\ at'[t].point # "recover"

LEMMA OnlyMoves ==
  ASSUME JobInv, NEW t \in Threads, Only(t)
  PROVE  /\ TypeOK' /\ Moves(t)
         /\ UNCHANGED <<status, saved, worked, queue, shelf>>
<1>1. at' \in [Threads -> Thread]
  BY Before DEF Only, TypeOK
<1>2. UNCHANGED <<status, saved, worked, prepare, queue, shelf, unresolved, pauses, restarts, rearms, faults>>
  BY DEF Only, rows, counters
<1>3. TypeOK'
  BY <1>1, <1>2, Before DEF TypeOK
<1>4. Moves(t)
  BY <1>2, Before DEF Only, Moves
<1> QED
  BY <1>2, <1>3, <1>4

LEMMA StillHolds ==
  ASSUME JobInv, NEW t \in Threads, Only(t),
         at[t].point \in Holding, at'[t].point \in Holding, at'[t].job = at[t].job,
         Role(t)', ThreadRow(t)'
  PROVE  JobInv'
<1> DEFINE j == at[t].job
<1>1. j \in Jobs /\ Has(t, j)
  BY Before DEF Role, Has, Holding, Running, Reserving
<1>2. status[j] # "none"
  BY Before DEF ThreadRow, Holding
<1>3. JobRow(j)' /\ RowsBut(j) /\ status'[j] # "none"
  BY <1>1, <1>2, OnlyMoves DEF JobInv, JobRow, RowsBut
<1>4. at'[t].point # "finished"
  BY DEF Holding
<1> QED
  BY <1>1, <1>3, <1>4, HolderKeeps, OnlyMoves

LEMMA LetsGo ==
  ASSUME JobInv, NEW t \in Threads, Only(t),
         at'[t].point \notin Holding \cup {"finished"}, Role(t)'
  PROVE  JobInv'
<1>1. UNCHANGED <<rows, queue, shelf>>
  BY DEF Only
<1> QED
  BY <1>1, RestKeeps, OnlyMoves

(* A holder goes on to its next point, with its job. *)
Aside(t) ==
  DeferNew(t) \/ RefuseNew(t) \/ BeginHeld(t) \/ Begin(t) \/ ResubmitRefused(t)

AsideTo(t) ==
  /\ at[t].point \in {"created", "taken", "resubmitting"}
  /\ at'[t].point \in {"pausing", "restoring", "working", "refused"}
  /\ at[t].point = "created" => at'[t].point = "pausing"
  /\ at[t].point = "taken" => at'[t].point \in {"pausing", "restoring", "working"}
  /\ at[t].point = "resubmitting" <=> at'[t].point = "refused"
  /\ at'[t].point = "restoring" => at[t].resuming
  /\ at'[t].point = "working" => ~at[t].resuming
  /\ at'[t].resuming => at[t].resuming
  /\ at'[t].job = at[t].job
  /\ at'[t].cursor = at[t].cursor \/ at'[t].cursor = 0
  /\ at' = [at EXCEPT ![t] = at'[t]] /\ at'[t] \in Thread
  /\ UNCHANGED <<rows, prepare, queue, shelf, unresolved, counters>>

LEMMA AsideStep ==
  ASSUME JobInv, NEW t \in Threads, Aside(t)
  PROVE  AsideTo(t)
<1>0. at[t] \in Thread /\ at \in [Threads -> Thread]
  BY Before DEF TypeOK
<1>a. ASSUME DeferNew(t) PROVE AsideTo(t)
  <2> DEFINE next == [at[t] EXCEPT !.point = "pausing", !.rescans = TRUE]
  <2>1. at' = [at EXCEPT ![t] = next] /\ at'[t] = next
    BY <1>0, <1>a DEF DeferNew
  <2>2. next \in Thread /\ next.point = "pausing" /\ next.job = at[t].job /\ next.cursor = at[t].cursor
        /\ next.resuming = at[t].resuming
    BY <1>0, <1>a DEF DeferNew, Thread, Points, Running, Reserving
  <2> HIDE DEF next
  <2> QED
    BY <1>a, <2>1, <2>2 DEF AsideTo, DeferNew
<1>b. ASSUME RefuseNew(t) PROVE AsideTo(t)
  <2> DEFINE next == [at[t] EXCEPT !.point = "pausing"]
  <2>1. at' = [at EXCEPT ![t] = next] /\ at'[t] = next
    BY <1>0, <1>b DEF RefuseNew, Goto
  <2>2. next \in Thread /\ next.point = "pausing" /\ next.job = at[t].job /\ next.cursor = at[t].cursor
        /\ next.resuming = at[t].resuming
    BY <1>0, <1>b DEF RefuseNew, Thread, Points, Running, Reserving
  <2> HIDE DEF next
  <2> QED
    BY <1>b, <2>1, <2>2 DEF AsideTo, RefuseNew
<1>c. ASSUME BeginHeld(t) PROVE AsideTo(t)
  <2>1. at' = [at EXCEPT ![t] = Doing("pausing", at[t].job)] /\ at'[t] = Doing("pausing", at[t].job)
    BY <1>0, <1>c DEF BeginHeld
  <2>2. Doing("pausing", at[t].job) \in Thread
    BY <1>0, DoingIsThread DEF Thread, Points, Running
  <2>3. /\ at'[t].point = "pausing" /\ at'[t].job = at[t].job /\ at'[t].cursor = 0 /\ at'[t].resuming = FALSE
    BY <2>1 DEF Doing
  <2> QED
    BY <1>c, <2>1, <2>2, <2>3 DEF AsideTo, BeginHeld
<1>d. ASSUME Begin(t) PROVE AsideTo(t)
  <2> DEFINE next == [at[t] EXCEPT !.point = IF at[t].resuming THEN "restoring" ELSE "working"]
  <2>1. at' = [at EXCEPT ![t] = next] /\ at'[t] = next
    BY <1>0, <1>d DEF Begin, Goto
  <2>2. next \in Thread /\ next.point = (IF at[t].resuming THEN "restoring" ELSE "working") /\ next.job = at[t].job /\ next.cursor = at[t].cursor
        /\ next.resuming = at[t].resuming
    BY <1>0, <1>d DEF Begin, Thread, Points, Running, Reserving
  <2> HIDE DEF next
  <2> QED
    BY <1>d, <2>1, <2>2 DEF AsideTo, Begin
<1>e. ASSUME ResubmitRefused(t) PROVE AsideTo(t)
  <2> DEFINE next == [at[t] EXCEPT !.point = "refused", !.rescans = Open]
  <2>1. at' = [at EXCEPT ![t] = next] /\ at'[t] = next
    BY <1>0, <1>e DEF ResubmitRefused
  <2>2. next \in Thread /\ next.point = "refused" /\ next.job = at[t].job /\ next.cursor = at[t].cursor
        /\ next.resuming = at[t].resuming
    BY <1>0, <1>e DEF ResubmitRefused, Thread, Points, Running, Reserving, Open
  <2> HIDE DEF next
  <2> QED
    BY <1>e, <2>1, <2>2 DEF AsideTo, ResubmitRefused
<1> QED
  BY <1>a, <1>b, <1>c, <1>d, <1>e DEF Aside

LEMMA SavedAside ==
  ASSUME JobInv, NEW t \in Threads, Aside(t)
  PROVE  JobInv'
<1>0. at[t] \in Thread
  BY Before
<1>1. AsideTo(t)
  BY AsideStep
<1>3. Only(t)
  BY <1>1 DEF Only, AsideTo
<1>4. Role(t)'
  BY <1>1, Before DEF AsideTo, Role, Running, Reserving
<1>5. ThreadRow(t)'
  <2>1. at[t].cursor \in Nat /\ at'[t].cursor \in Nat
    BY <1>0, <1>1 DEF AsideTo, Thread
  <2>2. UNCHANGED <<status, saved, worked>> /\ at[t].job \in Jobs
    BY <1>1, Before DEF AsideTo, rows, Role, Running, Reserving
  <2>3. status[at[t].job] = "queued" => worked[at[t].job] = 0
    BY <2>2, Before DEF JobRow
  <2>4. ThreadRow(t) /\ (at[t].point = "taken" => t \in Workers)
    BY Before DEF Role
  <2>5. CASE at[t].point = "created"
    BY <1>1, <2>1, <2>2, <2>4, <2>5 DEF AsideTo, ThreadRow
  <2>6. CASE at[t].point = "taken"
    BY <1>1, <2>1, <2>2, <2>3, <2>4, <2>6 DEF AsideTo, ThreadRow
  <2>7. CASE at[t].point = "resubmitting"
    BY <1>1, <2>1, <2>2, <2>4, <2>7 DEF AsideTo, ThreadRow
  <2> QED
    BY <1>1, <2>5, <2>6, <2>7 DEF AsideTo
<1> QED
  BY <1>1, <1>3, <1>4, <1>5, StillHolds DEF AsideTo, Holding

(* A thread that has no job goes on with its scan. *)
LooksOn(t) ==
  \/ BeginScan(t) \/ EndScan(t) \/ Release(t) \/ Rearm(t) \/ Complete(t)
  \/ \E j \in Jobs : Look(t, j)
  \/ Reserve(t) /\ ~(Open /\ Takeable(t))

LooksTo(t) ==
  /\ UNCHANGED <<rows, prepare, queue, shelf, unresolved, counters>>
  /\ at' = [at EXCEPT ![t] = at'[t]] /\ at'[t] \in Thread
  /\ at[t].point \notin Holding \cup {"idle"}
  /\ at'[t].point \in {"idle", "rescan", "scanning", "checking", "rearmed"}
  /\ at'[t].point = "idle" => at'[t] = Idle
  /\ at'[t].point \in {"checking", "rearmed"} => at'[t].job \in Jobs
  /\ at'[t].point = "checking" => at'[t].tag # 0

LEMMA LookStep ==
  ASSUME JobInv, NEW t \in Threads, LooksOn(t)
  PROVE  LooksTo(t)
<1>0. at[t] \in Thread /\ at \in [Threads -> Thread] /\ Role(t)
  BY Before DEF TypeOK
<1>1. ASSUME BeginScan(t) PROVE LooksTo(t)
  <2> DEFINE todo == {j \in Jobs : shelf[j] # 0}
  <2>1. at' = [at EXCEPT ![t] = Scan(todo)] /\ at'[t] = Scan(todo)
    BY <1>0, <1>1 DEF BeginScan
  <2>2. Scan(todo) \in Thread /\ Scan(todo).point = "scanning"
    BY ScanIsThread
  <2> HIDE DEF todo
  <2> QED
    BY <1>1, <2>1, <2>2 DEF LooksTo, Holding, BeginScan
<1>2. ASSUME EndScan(t) PROVE LooksTo(t)
  <2>1. at' = [at EXCEPT ![t] = Idle] /\ at'[t] = Idle
    BY <1>0, <1>2 DEF EndScan, Rest
  <2> QED
    BY <1>2, <2>1, IdleIsThread DEF LooksTo, Holding, EndScan
<1>3. ASSUME Release(t) PROVE LooksTo(t)
  <2>1. at[t].todo \in SUBSET Jobs /\ at[t].job \in Jobs
    BY <1>0, <1>3 DEF Thread, Release, Role, Reserving
  <2>2. CASE at[t].point = "returned" /\ at[t].rescans
    <3>1. at' = [at EXCEPT ![t] = Scan(at[t].todo)] /\ at'[t] = Scan(at[t].todo)
      BY <1>0, <1>3, <2>2 DEF Release
    <3> QED
      BY <1>3, <2>1, <2>2, <3>1, ScanIsThread DEF LooksTo, Holding, Release
  <2>3. CASE at[t].point = "returned" /\ ~at[t].rescans
    <3>1. at' = [at EXCEPT ![t] = Idle] /\ at'[t] = Idle
      BY <1>0, <1>3, <2>3 DEF Release, Rest
    <3> QED
      BY <1>3, <2>3, <3>1, IdleIsThread DEF LooksTo, Holding, Release
  <2>4. CASE at[t].point = "submitted"
    <3> DEFINE next == [at[t] EXCEPT !.point = "rearmed"]
    <3>1. at' = [at EXCEPT ![t] = next] /\ at'[t] = next
      BY <1>0, <1>3, <2>4 DEF Release, Goto
    <3>2. next \in Thread /\ next.point = "rearmed" /\ next.job \in Jobs
      BY <1>0, <2>1 DEF Thread, Points
    <3> HIDE DEF next
    <3> QED
      BY <1>3, <2>4, <3>1, <3>2 DEF LooksTo, Holding, Release
  <2> QED
    BY <1>3, <2>2, <2>3, <2>4 DEF LooksTo, Holding, Release
<1>4. ASSUME Rearm(t) PROVE LooksTo(t)
  <2> DEFINE todo == at[t].todo \cup Rearmed(t)
  <2>1. todo \in SUBSET Jobs
    BY <1>0, <1>4 DEF Rearm, Rearmed, Thread, Role
  <2> HIDE DEF todo
  <2>2. at' = [at EXCEPT ![t] = Scan(todo)] /\ at'[t] = Scan(todo)
    BY <1>0, <1>4 DEF Rearm, todo
  <2>3. Scan(todo) \in Thread /\ Scan(todo).point = "scanning"
    BY <2>1, ScanIsThread
  <2> QED
    BY <1>4, <2>2, <2>3 DEF LooksTo, Holding, Rearm
<1>5. ASSUME Complete(t) PROVE LooksTo(t)
  <2>1. at' = [at EXCEPT ![t] = Doing("rescan", NoJob)] /\ at'[t] = Doing("rescan", NoJob)
    BY <1>0, <1>5 DEF Complete
  <2>2. Doing("rescan", NoJob) \in Thread /\ Doing("rescan", NoJob).point = "rescan"
    BY DoingIsThread DEF Doing, Points
  <2> QED
    BY <1>5, <2>1, <2>2 DEF LooksTo, Holding, Complete
<1>6. ASSUME NEW j \in Jobs, Look(t, j) PROVE LooksTo(t)
  <2> DEFINE rest == at[t].todo \ {j}
             next == [Doing("checking", j) EXCEPT !.todo = rest, !.tag = shelf[j]]
  <2>1. rest \in SUBSET Jobs
    BY <1>0 DEF Thread
  <2>2. CASE shelf[j] = 0
    <3>1. at' = [at EXCEPT ![t] = Scan(rest)] /\ at'[t] = Scan(rest)
      BY <1>0, <1>6, <2>2 DEF Look
    <3> HIDE DEF rest
    <3> QED
      BY <1>6, <2>1, <3>1, ScanIsThread DEF LooksTo, Holding, Look
  <2>3. CASE shelf[j] # 0
    <3>1. at' = [at EXCEPT ![t] = next] /\ at'[t] = next
      BY <1>0, <1>6, <2>3 DEF Look
    <3>2. shelf[j] \in {0} \cup Tags
      BY Before DEF TypeOK
    <3>3. Doing("checking", j) \in Thread /\ Doing("checking", j).point = "checking"
          /\ Doing("checking", j).job = j
      BY DoingIsThread DEF Doing, Points
    <3>4. next \in Thread /\ next.point = "checking" /\ next.job = j /\ next.tag = shelf[j]
      BY <2>1, <3>2, <3>3 DEF Thread
    <3> HIDE DEF next
    <3> QED
      BY <1>6, <2>3, <3>1, <3>4 DEF LooksTo, Holding, Look
  <2> QED
    BY <2>2, <2>3
<1>7. ASSUME Reserve(t), ~(Open /\ Takeable(t)) PROVE LooksTo(t)
  <2>1. at[t].todo \in SUBSET Jobs
    BY <1>0 DEF Thread
  <2>2. CASE ~Open
    <3>1. at' = [at EXCEPT ![t] = Idle] /\ at'[t] = Idle
      BY <1>0, <1>7, <2>2 DEF Reserve, Rest
    <3> QED
      BY <1>7, <2>2, <3>1, IdleIsThread DEF LooksTo, Holding, Reserve
  <2>3. CASE Open
    <3>1. at' = [at EXCEPT ![t] = Scan(at[t].todo)] /\ at'[t] = Scan(at[t].todo)
      BY <1>0, <1>7, <2>3 DEF Reserve
    <3> QED
      BY <1>7, <2>1, <2>3, <3>1, ScanIsThread DEF LooksTo, Holding, Reserve
  <2> QED
    BY <2>2, <2>3
<1> QED
  BY <1>1, <1>2, <1>3, <1>4, <1>5, <1>6, <1>7 DEF LooksOn

LEMMA LooksOnKeeps ==
  ASSUME JobInv, NEW t \in Threads, LooksOn(t)
  PROVE  JobInv'
<1>1. LooksTo(t)
  BY LookStep
<1>2. Only(t)
  BY <1>1 DEF Only, LooksTo
<1>3. Role(t)'
  BY <1>1 DEF Role, LooksTo, Running, Reserving
<1> QED
  BY <1>1, <1>2, <1>3, LetsGo DEF LooksTo, Holding

(* A pause about to be saved passes its own validation, and its cursor is  *)
(* the number of periods committed.                                        *)
LEMMA DescriptorIsRight ==
  ASSUME JobInv, NEW t \in Threads, at[t].point = "pausing"
  PROVE  LET d == Descriptor(at[t].job, at[t].cursor)
         IN  d \in Continuation /\ Lawful(d) /\ d.cursor = worked[at[t].job]
<1> DEFINE j == at[t].job
           c == at[t].cursor
           d == Descriptor(j, c)
<1>1. /\ j \in Jobs /\ c \in 0 .. Periods
      /\ saved[j] \in Continuation \cup {NoContinuation} /\ worked[j] \in 0 .. Periods
  BY Before DEF Role, Running, Thread, TypeOK
<1>2. /\ status[j] \in {"none", "queued"} => worked[j] = 0
      /\ status[j] = "paused" <=> saved[j] # NoContinuation
      /\ status[j] = "paused" => Lawful(saved[j]) /\ saved[j].cursor = worked[j]
  BY <1>1, Before DEF JobRow
<1>3. \/ c = 0 /\ status[j] = "queued"
      \/ c = 0 /\ status[j] = "paused"
      \/ c > 0 /\ status[j] = "running" /\ c = worked[j]
  BY Before DEF ThreadRow
<1>4. CASE status[j] = "paused"
  <2>1. saved[j] \in Continuation /\ c = 0
    BY <1>1, <1>2, <1>3, <1>4
  <2>2. d.prev = saved[j].prev /\ d.cursor = saved[j].cursor /\ d = [prev |-> saved[j].prev, cursor |-> saved[j].cursor]
    BY <1>2, <1>4, <2>1 DEF Descriptor
  <2> QED
    BY <1>2, <1>4, <2>1, <2>2 DEF Lawful, Continuation
<1>5. CASE status[j] # "paused"
  <2>1. d = [prev |-> status[j], cursor |-> c]
    BY <1>2, <1>5 DEF Descriptor
  <2>2. status[j] = (IF c = 0 THEN "queued" ELSE "running") /\ c = worked[j]
    BY <1>1, <1>2, <1>3, <1>5
  <2> QED
    BY <1>1, <2>1, <2>2 DEF Lawful, Continuation
<1> QED
  BY <1>4, <1>5

LEMMA PersistPauseKeeps ==
  ASSUME JobInv, NEW t \in Threads, PersistPause(t)
  PROVE  JobInv'
<1>0. at[t].job \in Jobs
  BY Before DEF PersistPause, Role, Running
<1> SUFFICES ASSUME NEW j \in Jobs, j = at[t].job PROVE JobInv'
  BY <1>0
<1> DEFINE d == Descriptor(j, at[t].cursor)
           next == [at[t] EXCEPT !.point = "publishing", !.cursor = 0, !.resuming = FALSE]
<1>1. at[t] \in Thread /\ at \in [Threads -> Thread] /\ at[t].point = "pausing" /\ j \in Jobs
  BY Before DEF TypeOK, PersistPause, Role, Running
<1>2. d \in Continuation /\ Lawful(d) /\ d.cursor = worked[j]
  BY <1>1, DescriptorIsRight
<1>3. at' = [at EXCEPT ![t] = next] /\ at'[t] = next
  BY <1>1 DEF PersistPause
<1>4. next \in Thread /\ next.point = "publishing" /\ next.job = j
  <2>1. 0 \in 0 .. Periods
    BY JobAssumption
  <2> QED
    BY <1>1, <2>1 DEF Thread, Points, Running
<1>5. /\ status' = [status EXCEPT ![j] = "paused"] /\ saved' = [saved EXCEPT ![j] = d]
      /\ UNCHANGED <<worked, prepare, queue, shelf, unresolved, pauses, restarts, rearms, faults>>
  BY DEF PersistPause, counters
<1> HIDE DEF next, d
<1>6. TypeOK'
  <2>1. at' \in [Threads -> Thread]
    BY <1>1, <1>3, <1>4
  <2> QED
    BY <1>2, <1>5, <2>1, Before DEF TypeOK
<1>7. Moves(t)
  BY <1>1, <1>3, <1>4, <1>5, Before DEF Moves
<1>8. RowsBut(j) /\ status'[j] = "paused"
  BY <1>1, <1>5, Before DEF TypeOK, RowsBut
<1>9. JobRow(j)'
  <2>1. saved'[j] = d /\ worked'[j] = worked[j]
    BY <1>1, <1>5, Before DEF TypeOK
  <2>2. d # NoContinuation
    BY <1>2 DEF Continuation, NoContinuation
  <2> QED
    BY <1>2, <1>8, <2>1, <2>2 DEF JobRow
<1>10. Role(t)' /\ ThreadRow(t)'
  BY <1>1, <1>3, <1>4, <1>8, Before DEF Role, ThreadRow, Running, Reserving
<1>11. Has(t, j)
  BY <1>1 DEF Has, Holding
<1> QED
  BY <1>1, <1>3, <1>4, <1>5, <1>6, <1>7, <1>8, <1>9, <1>10, <1>11, HolderKeeps

(* A future ends, with a row or without. *)
LEMMA DoneIsThread ==
  ASSUME NEW j \in Jobs
  PROVE  Doing("finished", j) \in Thread /\ Doing("finished", j).point = "finished"
         /\ Doing("finished", j).job = j
BY DoingIsThread DEF Doing, Points, Running

LEMMA PersistFailsKeeps ==
  ASSUME JobInv, NEW t \in Threads, PersistFails(t)
  PROVE  JobInv'
<1>0. at[t].job \in Jobs
  BY Before DEF PersistFails, Role, Running
<1> SUFFICES ASSUME NEW j \in Jobs, j = at[t].job PROVE JobInv'
  BY <1>0
<1>1. /\ at[t] \in Thread /\ at \in [Threads -> Thread] /\ at[t].point = "pausing" /\ j \in Jobs
      /\ t \in Workers \cup Clients
  BY Before DEF TypeOK, PersistFails, Role, Running
<1>2. Lawful(Descriptor(j, at[t].cursor))
  BY <1>1, DescriptorIsRight
<1>3. /\ faults < MaxFaults /\ faults' = faults + 1 /\ unresolved' \in {unresolved, unresolved \cup {j}}
      /\ UNCHANGED <<status, saved, worked, prepare, queue, shelf, pauses, restarts, rearms>>
  BY <1>2 DEF PersistFails, rows
<1>4. at' = [at EXCEPT ![t] = at'[t]] /\ at'[t] = IF t \in Workers THEN Doing("finished", j) ELSE Idle
  BY <1>1 DEF PersistFails, Done, Rest
<1>5. /\ at'[t] \in Thread
      /\ t \in Workers => at'[t].point = "finished" /\ at'[t].job = j
      /\ t \notin Workers => at'[t] = Idle /\ at'[t].point = "idle"
  BY <1>1, <1>4, DoneIsThread, IdleIsThread
<1>6. TypeOK'
  <2>1. at' \in [Threads -> Thread]
    BY <1>1, <1>4, <1>5
  <2>2. faults' \in 0 .. MaxFaults
    BY <1>3, Before, JobAssumption DEF TypeOK
  <2> QED
    BY <1>1, <1>3, <2>1, <2>2, Before DEF TypeOK
<1>7. Moves(t)
  BY <1>1, <1>3, <1>4, <1>5, Before DEF Moves
<1>8. RowsBut(j) /\ JobRow(j)' /\ status'[j] # "none"
  <2>1. status[j] # "none"
    BY <1>1, Before DEF ThreadRow
  <2> QED
    BY <1>3, <2>1 DEF RowsBut, JobInv, JobRow
<1>9. Role(t)' /\ ThreadRow(t)'
  BY <1>1, <1>3, <1>5, <1>8, Before DEF Role, ThreadRow, Running, Reserving
<1>10. Has(t, j)
  BY <1>1 DEF Has, Holding
<1>11. t \in Workers => t \notin Clients
  BY JobAssumption
<1> QED
  BY <1>1, <1>3, <1>5, <1>6, <1>7, <1>8, <1>9, <1>10, <1>11, HolderKeeps DEF Holding

LEMMA WorkersHold ==
  ASSUME JobInv, NEW w \in Workers
  PROVE  /\ w \in Threads /\ w \notin Clients /\ w # Control
         /\ at[w] \in Thread /\ at \in [Threads -> Thread]
         /\ at[w].point \in Running =>
              /\ at[w].job \in Jobs /\ at[w].point # "idle"
              /\ at[w].point # "finished" => Has(w, at[w].job)
<1>1. w \in Threads /\ w \notin Clients /\ w # Control
  BY JobAssumption DEF Threads
<1> QED
  BY <1>1, Before DEF TypeOK, Role, Running, Has, Holding

LEMMA RestoreKeeps ==
  ASSUME JobInv, NEW w \in Workers, Restore(w)
  PROVE  JobInv'
<1>0. at[w].job \in Jobs
  BY WorkersHold DEF Restore, Running
<1> SUFFICES ASSUME NEW j \in Jobs, j = at[w].job PROVE JobInv'
  BY <1>0
<1> DEFINE next == [at[w] EXCEPT !.point = "working", !.cursor = saved[j].cursor]
<1>1. /\ at[w] \in Thread /\ at \in [Threads -> Thread] /\ at[w].point = "restoring"
      /\ w \in Threads /\ w \notin Clients /\ w # Control /\ Has(w, j)
  BY WorkersHold DEF Restore, Running
<1>2. /\ status[j] = "paused" /\ saved[j] \in Continuation /\ Lawful(saved[j])
      /\ saved[j].cursor = worked[j]
  BY <1>1, Before DEF ThreadRow, JobRow, TypeOK
<1>3. /\ status' = [status EXCEPT ![j] = saved[j].prev] /\ saved' = [saved EXCEPT ![j] = NoContinuation]
      /\ at' = [at EXCEPT ![w] = next] /\ at'[w] = next
      /\ UNCHANGED <<worked, prepare, queue, shelf, unresolved, pauses, restarts, rearms, faults>>
  <2>1. saved[j] # NoContinuation
    BY <1>2 DEF Continuation, NoContinuation
  <2> QED
    BY <1>1, <1>2, <2>1 DEF Restore, Restorable, counters
<1>4. next \in Thread /\ next.point = "working" /\ next.job = j /\ next.cursor = worked[j]
  BY <1>1, <1>2 DEF Thread, Points, Running, Continuation
<1> HIDE DEF next
<1>5. status'[j] = IF worked[j] = 0 THEN "queued" ELSE "running"
  BY <1>2, <1>3, <1>1, Before DEF TypeOK, Lawful
<1>6. TypeOK'
  <2>1. at' \in [Threads -> Thread]
    BY <1>1, <1>3, <1>4
  <2> QED
    BY <1>1, <1>2, <1>3, <2>1, Before DEF TypeOK, Continuation
<1>7. Moves(w)
  BY <1>1, <1>3, <1>4, Before DEF Moves
<1>8. RowsBut(j) /\ JobRow(j)'
  BY <1>1, <1>3, <1>5, Before DEF TypeOK, RowsBut, JobRow
<1>9. Role(w)' /\ ThreadRow(w)'
  BY <1>1, <1>3, <1>4, <1>5 DEF Role, ThreadRow, Running, Reserving
<1> QED
  BY <1>1, <1>3, <1>4, <1>5, <1>6, <1>7, <1>8, <1>9, HolderKeeps

LEMMA WorkPeriodKeeps ==
  ASSUME JobInv, NEW w \in Workers, WorkPeriod(w)
  PROVE  JobInv'
<1>0. at[w].job \in Jobs
  BY WorkersHold DEF WorkPeriod, Running
<1> SUFFICES ASSUME NEW j \in Jobs, j = at[w].job PROVE JobInv'
  BY <1>0
<1> DEFINE done == at[w].cursor + 1
           stops == \/ Cooperates(j) /\ ~Open
                    \/ j \in Yielding /\ done < Periods
           next == [at[w] EXCEPT !.cursor = done, !.resuming = FALSE,
                                 !.point = IF stops THEN "pausing" ELSE "working"]
<1>1. /\ at[w] \in Thread /\ at \in [Threads -> Thread] /\ at[w].point = "working"
      /\ w \in Threads /\ w \notin Clients /\ w # Control /\ Has(w, j)
  BY WorkersHold DEF WorkPeriod, Running
<1>2. done \in 1 .. Periods
  BY <1>1, JobAssumption DEF WorkPeriod, Work, Thread
<1>3. /\ status' = [status EXCEPT ![j] = "running"] /\ worked' = [worked EXCEPT ![j] = done]
      /\ at' = [at EXCEPT ![w] = next] /\ at'[w] = next
      /\ UNCHANGED <<saved, prepare, queue, shelf, unresolved, pauses, restarts, rearms, faults>>
  BY <1>1 DEF WorkPeriod, counters
<1>4. /\ next \in Thread /\ next.point \in {"pausing", "working"} /\ next.job = j /\ next.cursor = done
  <2>1. done \in 0 .. Periods
    BY <1>2, JobAssumption
  <2> HIDE DEF done, stops
  <2> QED
    BY <1>1, <2>1 DEF Thread, Points, Running
<1>5. saved[j] = NoContinuation
  BY <1>1, Before DEF ThreadRow, JobRow
<1> HIDE DEF next, done
<1>6. TypeOK'
  <2>1. at' \in [Threads -> Thread] /\ done \in 0 .. Periods
    BY <1>1, <1>2, <1>3, <1>4, JobAssumption
  <2> QED
    BY <1>1, <1>3, <2>1, Before DEF TypeOK
<1>7. Moves(w)
  BY <1>1, <1>3, <1>4, Before DEF Moves
<1>8. /\ RowsBut(j) /\ JobRow(j)' /\ status'[j] = "running" /\ worked'[j] = done
  BY <1>1, <1>3, <1>5, Before DEF TypeOK, RowsBut, JobRow
<1>9. Role(w)' /\ ThreadRow(w)'
  BY <1>1, <1>2, <1>3, <1>4, <1>8, JobAssumption DEF Role, ThreadRow, Running, Reserving
<1> QED
  BY <1>1, <1>3, <1>4, <1>6, <1>7, <1>8, <1>9, HolderKeeps

(* A future ends: the row is another's business from now on. *)
LEMMA EndsKeep ==
  ASSUME JobInv, NEW w \in Workers, NEW j \in Jobs, Has(w, j), TypeOK',
         at' = [at EXCEPT ![w] = Doing("finished", j)],
         RowsBut(j), JobRow(j)', status'[j] # "none",
         UNCHANGED <<prepare, queue, shelf>>
  PROVE  JobInv'
<1>1. at[w].point # "idle" /\ w \in Threads /\ w \notin Clients /\ w # Control
  BY WorkersHold DEF Has, Holding
<1>2. /\ at'[w] = Doing("finished", j) /\ at'[w].point = "finished" /\ at'[w].job = j
  BY <1>1, Before, DoneIsThread DEF TypeOK
<1>3. Moves(w)
  BY <1>1, <1>2, Before DEF Moves
<1>4. Role(w)' /\ ThreadRow(w)'
  BY <1>1, <1>2 DEF Role, ThreadRow
<1> QED
  BY <1>1, <1>2, <1>3, <1>4, HolderKeeps

LEMMA FinishKeeps ==
  ASSUME JobInv, NEW w \in Workers, NEW outcome \in {"success", "error"}, Finish(w, outcome)
  PROVE  JobInv'
<1>0. at[w].job \in Jobs
  BY WorkersHold DEF Finish, Running
<1> SUFFICES ASSUME NEW j \in Jobs, j = at[w].job PROVE JobInv'
  BY <1>0
<1>1. /\ at \in [Threads -> Thread] /\ at[w].point = "working" /\ w \in Threads /\ Has(w, j)
  BY WorkersHold DEF Finish, Running
<1>2. /\ status' = [status EXCEPT ![j] = outcome] /\ at' = [at EXCEPT ![w] = Doing("finished", j)]
      /\ UNCHANGED <<saved, worked, prepare, queue, shelf, unresolved, pauses, restarts, rearms, faults>>
  BY <1>1 DEF Finish, Done, counters
<1>3. saved[j] = NoContinuation
  BY <1>1, Before DEF ThreadRow, JobRow
<1>4. TypeOK'
  <2>1. at' \in [Threads -> Thread]
    BY <1>1, <1>2, DoneIsThread
  <2> QED
    BY <1>1, <1>2, <2>1, Before DEF TypeOK
<1>5. RowsBut(j) /\ JobRow(j)' /\ status'[j] # "none"
  BY <1>1, <1>2, <1>3, Before DEF TypeOK, RowsBut, JobRow
<1> QED
  BY <1>1, <1>2, <1>4, <1>5, EndsKeep

LEMMA ContextChangedKeeps ==
  ASSUME JobInv, NEW w \in Workers, ContextChanged(w)
  PROVE  JobInv'
<1>0. at[w].job \in Jobs
  BY WorkersHold DEF ContextChanged, Running
<1> SUFFICES ASSUME NEW j \in Jobs, j = at[w].job PROVE JobInv'
  BY <1>0
<1> DEFINE d == [prev |-> "running", cursor |-> at[w].cursor]
<1>1. /\ at[w] \in Thread /\ at \in [Threads -> Thread] /\ at[w].point = "working"
      /\ w \in Threads /\ Has(w, j)
  BY WorkersHold DEF ContextChanged, Running
<1>2. at[w].cursor \in 1 .. Periods /\ at[w].cursor = worked[j]
  BY <1>1, Before, JobAssumption DEF ContextChanged, Thread, ThreadRow
<1>3. d \in Continuation /\ d # NoContinuation /\ Lawful(d) /\ d.cursor = worked[j]
  BY <1>2, JobAssumption DEF Continuation, NoContinuation, Lawful
<1>4. /\ status' = [status EXCEPT ![j] = "paused"] /\ saved' = [saved EXCEPT ![j] = d]
      /\ at' = [at EXCEPT ![w] = Doing("finished", j)]
      /\ faults' = faults + 1 /\ faults < MaxFaults /\ unresolved' = unresolved \cup {j}
      /\ UNCHANGED <<worked, prepare, queue, shelf, pauses, restarts, rearms>>
  BY <1>1 DEF ContextChanged, Done
<1> HIDE DEF d
<1>5. TypeOK'
  <2>1. at' \in [Threads -> Thread]
    BY <1>1, <1>4, DoneIsThread
  <2>2. faults' \in 0 .. MaxFaults
    BY <1>4, <1>1, Before, JobAssumption DEF TypeOK
  <2> QED
    BY <1>1, <1>3, <1>4, <2>1, <2>2, Before DEF TypeOK
<1>6. RowsBut(j) /\ JobRow(j)' /\ status'[j] # "none"
  BY <1>1, <1>3, <1>4, Before DEF TypeOK, RowsBut, JobRow
<1> QED
  BY <1>1, <1>4, <1>5, <1>6, EndsKeep

-----------------------------------------------------------------------------
(* A job goes from hand to hand. *)

(* Submitting it: from a thread into the queue. *)
LEMMA QueuesIt ==
  ASSUME JobInv, NEW t \in Threads, NEW j \in Jobs, NEW resuming \in BOOLEAN, Has(t, j),
         status[j] = (IF resuming THEN "paused" ELSE "queued"),
         t \in Clients /\ j \in Repairs => \A s \in Threads : ~Left(s, j),
         queue' = Submitted(j, resuming), at' \in [Threads -> Thread], Moves(t),
         UNCHANGED <<rows, shelf, unresolved, counters>>,
         at'[t].point \notin Holding \cup {"finished"}, Role(t)'
  PROVE  JobInv'
<1> DEFINE len == Len(queue)
<1>0. /\ TypeOK /\ len \in Nat /\ DOMAIN queue = 1 .. len
      /\ \A i \in DOMAIN queue : queue[i] \in Futures /\ queue[i].job \in Jobs
  BY QueueHolds DEF JobInv
<1>1. /\ queue' \in Seq(Futures) /\ DOMAIN queue' = 1 .. (len + 1)
      /\ \A i \in DOMAIN queue : queue'[i] = queue[i]
      /\ queue'[len + 1] = [job |-> j, resuming |-> resuming]
  <2>1. queue \in Seq(Futures) /\ [job |-> j, resuming |-> resuming] \in Futures
    BY <1>0 DEF TypeOK, Futures
  <2>2. /\ Submitted(j, resuming) \in Seq(Futures) /\ Len(Submitted(j, resuming)) = len + 1
        /\ \A i \in 1 .. len : Submitted(j, resuming)[i] = queue[i]
        /\ Submitted(j, resuming)[len + 1] = [job |-> j, resuming |-> resuming]
    BY <2>1, AppendProperties DEF Submitted
  <2>3. DOMAIN Submitted(j, resuming) = 1 .. (len + 1)
    BY <2>2, LenProperties
  <2> QED
    BY <1>0, <2>2, <2>3
<1> HIDE DEF len
<1>2. \A i \in DOMAIN queue' :
        \/ i \in DOMAIN queue /\ queue'[i] = queue[i]
        \/ i = len + 1 /\ queue'[i].job = j /\ queue'[i].resuming = resuming
  BY <1>0, <1>1
<1>3. UNCHANGED <<status, saved, worked, shelf, unresolved, pauses, restarts, rearms, faults, prepare>>
  BY DEF rows, counters, Moves
<1>4. TypeOK'
  BY <1>0, <1>1, <1>3 DEF TypeOK, Futures
<1>5. /\ \A s \in Threads \ {t} : at'[s] = at[s]
      /\ \A s \in Threads \ {t}, k \in Jobs : (Has(s, k)' <=> Has(s, k)) /\ (Left(s, k)' <=> Left(s, k))
      /\ \A s \in Threads \ {t} : Role(s) => Role(s)'
      /\ \A k \in Jobs : ~Has(t, k)' /\ ~Left(t, k)'
  BY <1>0, Others DEF Has, Left
<1>6. Alone(t, j) /\ shelf[j] = 0 /\ \A s \in Threads : ~Left(s, j)
  BY HolderIsAlone
<1>7. \A k \in Jobs : Queued(k)' <=> Queued(k) \/ k = j
  BY <1>0, <1>1, <1>2 DEF Queued
<1>8. ASSUME NEW s \in Threads PROVE Role(s)' /\ ThreadRow(s)'
  <2>1. CASE s = t
    BY <2>1 DEF ThreadRow, Holding
  <2>2. CASE s # t
    BY <1>3, <1>5, <2>2 DEF JobInv, ThreadRow
  <2> QED
    BY <2>1, <2>2
<1>9. \A k \in Jobs : JobRow(k)'
  BY <1>3 DEF JobInv, JobRow
<1>10. \A i \in DOMAIN queue' : QueueRow(i)'
  BY <1>2, <1>3 DEF JobInv, QueueRow
<1>11. ThreadsAlone'
  BY <1>5 DEF JobInv, ThreadsAlone
<1>12. QueueAlone'
  <2>1. \A i, k \in DOMAIN queue' : queue'[i].job = queue'[k].job => i = k
    BY <1>2, <1>6 DEF JobInv, QueueAlone, Alone, Queued
  <2>2. ASSUME NEW k \in Jobs, NEW s \in Threads, k = j \/ Queued(k) PROVE ~Has(s, k)' /\ ~Left(s, k)'
    BY <1>5, <1>6, <2>2 DEF JobInv, QueueAlone, Alone, Queued
  <2>3. ASSUME NEW i \in DOMAIN queue', NEW s \in Threads
        PROVE  ~Has(s, queue[i].job)' /\ ~Left(s, queue[i].job)'
    <3>1. PICK k \in Jobs : k = queue'[i].job /\ (k = j \/ Queued(k))
      BY <1>0, <1>2 DEF Queued
    <3>2. ~Has(s, k)' /\ ~Left(s, k)'
      BY <2>2, <3>1
    <3> QED
      BY <3>1, <3>2 DEF Has, Left
  <2> QED
    BY <2>1, <2>3 DEF QueueAlone
<1>13. ShelfAlone'
  BY <1>3, <1>5, <1>6, <1>7 DEF JobInv, ShelfAlone, Alone
<1>14. RecoverAlone'
  <2>1. at'[Control].point = "recover" => at'[Control] = at[Control]
    BY <1>5 DEF Moves, Threads
  <2>2. at[Control].todo \subseteq Jobs
    BY <1>0 DEF TypeOK, Thread, Threads
  <2> QED
    BY <1>3, <1>5, <1>6, <1>7, <2>1, <2>2 DEF JobInv, RecoverAlone, Alone
<1>15. ControlRests' /\ PreparedIsQuiet'
  <2>1. t # Control => at'[Control] = at[Control]
    BY <1>5 DEF Threads
  <2> QED
    BY <2>1 DEF Moves, ControlRests, PreparedIsQuiet, JobInv, Open
<1> QED
  BY <1>4, <1>8, <1>9, <1>10, <1>11, <1>12, <1>13, <1>14, <1>15 DEF JobInv

LEMMA SubmitKeeps ==
  ASSUME JobInv, NEW t \in Threads, SubmitNew(t) \/ Resubmit(t)
  PROVE  JobInv'
<1>0. /\ at[t].point \in {"created", "resubmitting"} /\ at[t].job \in Jobs
      /\ at[t] \in Thread /\ at \in [Threads -> Thread]
  BY Before DEF SubmitNew, Resubmit, Role, Reserving, TypeOK
<1> SUFFICES ASSUME NEW j \in Jobs, j = at[t].job PROVE JobInv'
  BY <1>0
<1>1. Has(t, j) /\ ~Deferred(j) /\ Open
  BY <1>0 DEF Has, Holding, SubmitNew, Resubmit
<1>2. UNCHANGED <<rows, prepare, shelf, unresolved, counters>>
  BY DEF SubmitNew, Resubmit
<1>3. j \in Repairs => \A s \in Threads : ~Left(s, j)
  <2> SUFFICES ASSUME j \in Repairs, NEW s \in Threads, Left(s, j) PROVE FALSE
    OBVIOUS
  <2>1. s \in Workers /\ Runs(s, j)
    BY Before DEF Left, Role, Runs, Running
  <2> QED
    BY <1>1, <2>1 DEF Deferred, Pending
<1>4. CASE SubmitNew(t)
  <2>1. at' = [at EXCEPT ![t] = Idle] /\ at'[t] = Idle
    BY <1>0, <1>4 DEF SubmitNew, Rest
  <2>2. at' \in [Threads -> Thread] /\ at'[t].point = "idle"
    BY <1>0, <2>1, IdleIsThread
  <2>3. queue' = Submitted(j, FALSE) /\ status[j] = "queued"
    BY <1>4, Before DEF SubmitNew, ThreadRow
  <2>4. Moves(t) /\ Role(t)'
    BY <1>0, <1>1, <1>2, <2>1, <2>2, Before DEF Moves, Role, Open, Running, Reserving
  <2> QED
    BY <1>1, <1>2, <1>3, <2>2, <2>3, <2>4, QueuesIt DEF Holding
<1>5. CASE Resubmit(t)
  <2> DEFINE next == [at[t] EXCEPT !.point = "submitted", !.tag = 0]
  <2>1. at' = [at EXCEPT ![t] = next] /\ at'[t] = next
    BY <1>0, <1>5 DEF Resubmit
  <2>2. next \in Thread /\ next.point = "submitted" /\ next.job = j
    BY <1>0 DEF Thread, Points, Reserving
  <2> HIDE DEF next
  <2>3. at' \in [Threads -> Thread]
    BY <1>0, <2>1, <2>2
  <2>4. queue' = Submitted(j, TRUE) /\ status[j] = "paused"
    BY <1>5, Before DEF Resubmit, ThreadRow
  <2>5. Moves(t) /\ Role(t)'
    BY <1>0, <1>1, <1>2, <2>1, <2>2, Before DEF Moves, Role, Open, Running, Reserving
  <2> QED
    BY <1>1, <1>2, <1>3, <2>1, <2>2, <2>3, <2>4, <2>5, QueuesIt DEF Holding
<1> QED
  BY <1>4, <1>5

(* Shelving it: from a thread onto the shelf. *)
LEMMA ShelvesIt ==
  ASSUME JobInv, NEW t \in Threads, NEW j \in Jobs, Has(t, j), status[j] = "paused",
         NEW g \in {0} \cup Tags, shelf' = [shelf EXCEPT ![j] = g],
         UNCHANGED <<rows, prepare, queue, unresolved, counters>>,
         at' = [at EXCEPT ![t] = at'[t]], at'[t] \in Thread, at'[t].point \notin Holding \cup {"recover"},
         at'[t].point = "finished" => at'[t].job = j /\ t \notin Clients,
         Role(t)'
  PROVE  JobInv'
<1>1. UNCHANGED <<status, saved, worked, prepare, queue, unresolved, pauses, restarts, rearms, faults>>
  BY DEF rows, counters
<1>2. at[t].point # "idle"
  BY DEF Has, Holding
<1>3. TypeOK'
  <2>1. at' \in [Threads -> Thread]
    BY Before DEF TypeOK
  <2> QED
    BY <1>1, <2>1, Before DEF TypeOK
<1>4. Moves(t)
  BY <1>1, <1>2, Before DEF Moves
<1>5. /\ Alone(t, j)
      /\ \A s \in Threads : Left(s, j) => t \in Clients /\ j \in Repairs
  BY HolderIsAlone
<1>6. RowsBut(j) /\ JobRow(j)' /\ status'[j] = "paused"
  BY <1>1 DEF RowsBut, JobInv, JobRow
<1>7. ThreadRow(t)'
  BY <1>6 DEF ThreadRow, Holding
<1>8. /\ \A k \in Jobs : ~Has(t, k)' /\ (Left(t, k)' => k = j)
      /\ Left(t, j)' => t \notin Clients
  BY DEF Has, Left
<1>9. \A s \in Threads : Left(s, j) => Left(t, j)' = FALSE /\ (Has(t, j)' => t \in Clients /\ j \in Repairs)
  BY <1>5, <1>8
<1>10. \A k \in Jobs \ {j} : shelf'[k] = shelf[k]
  BY Before DEF TypeOK
<1> QED
  BY <1>1, <1>3, <1>4, <1>5, <1>6, <1>7, <1>8, <1>9, <1>10, WorkKeeps

LEMMA PublishKeeps ==
  ASSUME JobInv, NEW t \in Threads, Publish(t)
  PROVE  JobInv'
<1>0. /\ at[t].point = "publishing" /\ at[t].job \in Jobs /\ t \in Workers \cup Clients
      /\ at[t] \in Thread /\ at \in [Threads -> Thread]
  BY Before DEF Publish, Role, Running, TypeOK
<1> SUFFICES ASSUME NEW j \in Jobs, j = at[t].job PROVE JobInv'
  BY <1>0
<1>1. Has(t, j) /\ status[j] = "paused"
  BY <1>0, Before DEF Has, Holding, ThreadRow
<1>2. /\ shelf' = [shelf EXCEPT ![j] = NewTag(j)] /\ NewTag(j) \in Tags
      /\ UNCHANGED <<rows, prepare, queue, unresolved, counters>>
  BY Before, NewTagIsTag DEF Publish
<1>3. /\ at' = [at EXCEPT ![t] = at'[t]]
      /\ \/ t \in Workers /\ at'[t] = Doing("finished", j)
         \/ at'[t] \in {Doing("rescan", NoJob), Idle}
  BY <1>0 DEF Publish, Done, Rest
<1>4. /\ Doing("rescan", NoJob) \in Thread /\ Doing("rescan", NoJob).point = "rescan"
  BY DoingIsThread DEF Doing, Points
<1>5. /\ at'[t] \in Thread /\ at'[t].point \in {"finished", "rescan", "idle"}
      /\ at'[t].point = "finished" => at'[t].job = j /\ t \in Workers
      /\ at'[t].point = "idle" => at'[t] = Idle
  BY <1>3, <1>4, DoneIsThread, IdleIsThread
<1>6. Role(t)' /\ (t \in Workers => t \notin Clients)
  BY <1>5, JobAssumption DEF Role, Running, Reserving
<1> SUFFICES ASSUME NEW g \in {0} \cup Tags, g = NewTag(j) PROVE JobInv'
  BY <1>2
<1> QED
  BY <1>1, <1>2, <1>3, <1>5, <1>6, ShelvesIt DEF Holding

LEMMA PutBackKeeps ==
  ASSUME JobInv, NEW t \in Threads, PutBack(t)
  PROVE  JobInv'
<1>0. /\ at[t].point = "refused" /\ at[t].job \in Jobs /\ at[t].tag \in {0} \cup Tags
      /\ at[t] \in Thread /\ at \in [Threads -> Thread]
  BY Before DEF PutBack, Role, Reserving, TypeOK, Thread
<1> SUFFICES ASSUME NEW j \in Jobs, j = at[t].job, NEW g \in {0} \cup Tags, g = at[t].tag PROVE JobInv'
  BY <1>0
<1> DEFINE next == [at[t] EXCEPT !.point = "returned", !.tag = 0]
<1>1. Has(t, j) /\ status[j] = "paused"
  BY <1>0, Before DEF Has, Holding, ThreadRow
<1>2. /\ shelf' = [shelf EXCEPT ![j] = g] /\ at' = [at EXCEPT ![t] = next] /\ at'[t] = next
      /\ UNCHANGED <<rows, prepare, queue, unresolved, counters>>
  BY <1>0 DEF PutBack
<1>3. next \in Thread /\ next.point = "returned" /\ next.job = j
  BY <1>0 DEF Thread, Points, Reserving
<1> HIDE DEF next
<1>4. Role(t)'
  BY <1>2, <1>3 DEF Role, Running, Reserving
<1> QED
  BY <1>1, <1>2, <1>3, <1>4, ShelvesIt DEF Holding

(* Reserving it: from the shelf to the thread that scans. *)
LEMMA ReserveKeeps ==
  ASSUME JobInv, NEW t \in Threads, Reserve(t), Open, Takeable(t)
  PROVE  JobInv'
<1>0. /\ at[t].point = "checking" /\ at[t].job \in Jobs /\ at[t].tag # 0
      /\ at[t] \in Thread /\ at \in [Threads -> Thread]
  BY Before DEF Reserve, Role, TypeOK
<1> SUFFICES ASSUME NEW j \in Jobs, j = at[t].job PROVE JobInv'
  BY <1>0
<1> DEFINE next == [at[t] EXCEPT !.point = "resubmitting"]
<1>1. /\ shelf[j] # 0 /\ ~Pending(j)
      /\ shelf' = [shelf EXCEPT ![j] = 0] /\ at' = [at EXCEPT ![t] = next] /\ at'[t] = next
      /\ UNCHANGED <<status, saved, worked, prepare, queue, unresolved, pauses, restarts, rearms, faults>>
  BY <1>0 DEF Reserve, Takeable, Goto, rows, counters
<1>2. next \in Thread /\ next.point = "resubmitting" /\ next.job = j
  BY <1>0 DEF Thread, Points, Reserving
<1> HIDE DEF next
<1>3. TypeOK'
  <2>1. at' \in [Threads -> Thread] /\ shelf' \in [Jobs -> {0} \cup Tags]
    BY <1>0, <1>1, <1>2, Before DEF TypeOK
  <2> QED
    BY <1>1, <2>1, Before DEF TypeOK
<1>4. Moves(t)
  BY <1>0, <1>1, <1>2, Before DEF Moves
<1>5. status[j] = "paused" /\ ~Queued(j) /\ \A s \in Threads : ~Has(s, j)
  BY <1>1 DEF JobInv, ShelfAlone
<1>6. Alone(t, j)
  BY <1>1, <1>5 DEF Alone, JobInv, RecoverAlone
<1>7. \A s \in Threads : ~Left(s, j)
  <2> SUFFICES ASSUME NEW s \in Threads, Left(s, j) PROVE FALSE
    OBVIOUS
  <2>1. s \in Workers /\ Runs(s, j)
    BY Before DEF Left, Role, Runs, Running
  <2> QED
    BY <1>1, <2>1 DEF Pending
<1>8. RowsBut(j) /\ JobRow(j)' /\ status'[j] = "paused"
  BY <1>1, <1>5 DEF RowsBut, JobInv, JobRow
<1>9. Role(t)' /\ ThreadRow(t)'
  BY <1>1, <1>2, <1>8 DEF Role, ThreadRow, Running, Reserving
<1>10. \A k \in Jobs : Has(t, k)' \/ Left(t, k)' => k = j
  BY <1>1, <1>2 DEF Has, Left
<1>11. shelf'[j] = 0 /\ \A k \in Jobs \ {j} : shelf'[k] = shelf[k]
  BY <1>1, Before DEF TypeOK
<1> QED
  BY <1>1, <1>3, <1>4, <1>6, <1>7, <1>8, <1>9, <1>10, <1>11, WorkKeeps

(* A worker takes the next future. *)
LEMMA TakeKeeps ==
  ASSUME JobInv, NEW w \in Workers, Take(w)
  PROVE  JobInv'
<1>0. /\ TypeOK /\ Len(queue) \in Nat /\ DOMAIN queue = 1 .. Len(queue)
      /\ \A i \in DOMAIN queue : queue[i] \in Futures /\ queue[i].job \in Jobs
      /\ w \in Threads /\ w # Control /\ at \in [Threads -> Thread] /\ at[w] = Idle
  BY QueueHolds, WorkersHold DEF JobInv, Take
<1>1. queue \in Seq(Futures) /\ queue # <<>>
  BY <1>0 DEF TypeOK, Futures, Take
<1>2. /\ Len(queue) >= 1 /\ 1 \in DOMAIN queue /\ Head(queue) = queue[1]
      /\ queue' \in Seq(Futures) /\ DOMAIN queue' = 1 .. (Len(queue) - 1)
      /\ \A i \in DOMAIN queue' : queue'[i] = queue[i + 1] /\ i + 1 \in DOMAIN queue
  <2>1. Len(queue) \in Nat \ {0}
    BY <1>1, EmptySeq
  <2>2. /\ Tail(queue) \in Seq(Futures) /\ Len(Tail(queue)) = Len(queue) - 1
        /\ \A i \in 1 .. Len(Tail(queue)) : Tail(queue)[i] = queue[i + 1]
    BY <1>1, HeadTailProperties
  <2>3. DOMAIN Tail(queue) = 1 .. Len(Tail(queue))
    BY <2>2, LenProperties
  <2>4. queue' = Tail(queue)
    BY DEF Take
  <2>5. Head(queue) = queue[1]
    BY <1>1
  <2> QED
    BY <1>0, <2>1, <2>2, <2>3, <2>4, <2>5
<1> SUFFICES ASSUME NEW j \in Jobs, j = queue[1].job, NEW resuming \in BOOLEAN, resuming = queue[1].resuming
             PROVE  JobInv'
  BY <1>0, <1>2 DEF Futures
<1> DEFINE next == [Doing("taken", j) EXCEPT !.resuming = resuming]
<1>3. /\ at' = [at EXCEPT ![w] = next] /\ at'[w] = next
      /\ UNCHANGED <<status, saved, worked, prepare, shelf, unresolved, pauses, restarts, rearms, faults>>
  BY <1>0, <1>2 DEF Take, rows, counters
<1>4. /\ next \in Thread /\ next.point = "taken" /\ next.job = j /\ next.cursor = 0
      /\ next.resuming = resuming
  <2>1. Doing("taken", j) \in Thread
    BY DoingIsThread DEF Points, Running
  <2> QED
    BY <2>1 DEF Doing, Thread
<1> HIDE DEF next
<1>5. TypeOK'
  <2>1. at' \in [Threads -> Thread]
    BY <1>0, <1>3, <1>4
  <2> QED
    BY <1>0, <1>2, <1>3, <2>1 DEF TypeOK, Futures
<1>6. Moves(w)
  BY <1>0, <1>1, <1>3, <1>4, Before DEF Moves
<1>7. /\ \A s \in Threads \ {w} : at'[s] = at[s]
      /\ \A s \in Threads \ {w}, k \in Jobs : (Has(s, k)' <=> Has(s, k)) /\ (Left(s, k)' <=> Left(s, k))
      /\ \A s \in Threads \ {w} : Role(s) => Role(s)'
      /\ \A k \in Jobs : (Has(w, k)' => k = j) /\ ~Left(w, k)'
  BY <1>0, <1>3, <1>4, <1>6, Others DEF Has, Left
<1>8. /\ status[j] = (IF resuming THEN "paused" ELSE "queued")
      /\ \A s \in Threads : ~Has(s, j) /\ ~Left(s, j)
      /\ Queued(j)
  BY <1>2 DEF JobInv, QueueRow, QueueAlone, Queued
<1>9. ASSUME NEW s \in Threads PROVE Role(s)' /\ ThreadRow(s)'
  <2>1. CASE s = w
    BY <1>3, <1>4, <1>8, <2>1 DEF Role, ThreadRow, Reserving
  <2>2. CASE s # w
    BY <1>3, <1>7, <2>2 DEF JobInv, ThreadRow
  <2> QED
    BY <2>1, <2>2
<1>10. \A k \in Jobs : JobRow(k)'
  BY <1>3 DEF JobInv, JobRow
<1>11. \A i \in DOMAIN queue' : QueueRow(i)'
  BY <1>2, <1>3 DEF JobInv, QueueRow
<1>12. ThreadsAlone'
  BY <1>7, <1>8 DEF JobInv, ThreadsAlone
<1>13. QueueAlone'
  <2>1. \A i, k \in DOMAIN queue' : queue'[i].job = queue'[k].job => i = k
    <3> SUFFICES ASSUME NEW i \in DOMAIN queue', NEW k \in DOMAIN queue', queue'[i].job = queue'[k].job
                 PROVE  i = k
      OBVIOUS
    <3>1. i + 1 = k + 1
      BY <1>2 DEF JobInv, QueueAlone
    <3> QED
      BY <1>0, <1>2, <3>1
  <2>2. ASSUME NEW i \in DOMAIN queue', NEW s \in Threads
        PROVE  ~Has(s, queue[i].job)' /\ ~Left(s, queue[i].job)'
    <3>1. i + 1 \in DOMAIN queue /\ queue'[i] = queue[i + 1] /\ i + 1 # 1
      BY <1>0, <1>2
    <3>2. PICK k \in Jobs : k = queue[i + 1].job
      BY <1>0, <3>1
    <3>3. k # j
      BY <1>2, <3>1, <3>2 DEF JobInv, QueueAlone
    <3>4. ~Has(s, k) /\ ~Left(s, k)
      BY <3>1, <3>2 DEF JobInv, QueueAlone
    <3>5. ~Has(s, k)' /\ ~Left(s, k)'
      BY <1>7, <3>3, <3>4
    <3> QED
      BY <3>1, <3>2, <3>5 DEF Has, Left
  <2> QED
    BY <2>1, <2>2 DEF QueueAlone
<1>14. \A k \in Jobs : (Queued(k)' => Queued(k))
  BY <1>2 DEF Queued
<1>15. ShelfAlone'
  BY <1>3, <1>7, <1>8, <1>14 DEF JobInv, ShelfAlone
<1>16. RecoverAlone'
  <2>1. at'[Control] = at[Control] /\ at[Control].todo \subseteq Jobs
    BY <1>0, <1>7 DEF Threads, Thread
  <2> QED
    BY <1>3, <1>7, <1>8, <1>14, <2>1 DEF JobInv, RecoverAlone
<1>17. ControlRests' /\ PreparedIsQuiet'
  <2>1. at'[Control] = at[Control]
    BY <1>0, <1>7 DEF Threads
  <2> QED
    BY <1>3, <1>6, <2>1 DEF Moves, ControlRests, PreparedIsQuiet, JobInv, Open
<1> QED
  BY <1>5, <1>9, <1>10, <1>11, <1>12, <1>13, <1>15, <1>16, <1>17 DEF JobInv

-----------------------------------------------------------------------------
(* The control thread. *)

LEMMA AdmissionKeeps ==
  ASSUME JobInv, ClosePause \/ Prepared
  PROVE  JobInv'
<1>1. /\ UNCHANGED <<status, saved, worked, queue, shelf, at, unresolved, restarts, rearms, faults>>
      /\ prepare' \in {"closed", "prepared"} /\ pauses' \in 0 .. MaxPauses
  BY JobAssumption DEF ClosePause, Prepared, rows, counters, JobInv, TypeOK
<1>2. TypeOK'
  BY <1>1 DEF JobInv, TypeOK
<1>3. at[Control] = Idle
  BY DEF ClosePause, Prepared, JobInv, ControlRests, Open
<1>4. prepare' = "prepared" => queue = <<>> /\ \A t \in Threads : at[t] = Idle
  BY DEF ClosePause, Prepared, Quiescent, Counted, JobInv, Role
<1>5. \A t \in Threads : Role(t)' /\ ThreadRow(t)'
  BY <1>1 DEF JobInv, Role, ThreadRow
<1>6. /\ \A j \in Jobs : JobRow(j)'
      /\ \A i \in DOMAIN queue' : QueueRow(i)'
  BY <1>1 DEF JobInv, JobRow, QueueRow
<1>7. /\ \A t, j : (Has(t, j)' <=> Has(t, j)) /\ (Left(t, j)' <=> Left(t, j))
      /\ \A j : Queued(j)' <=> Queued(j)
  BY <1>1 DEF Has, Left, Queued
<1>8. ThreadsAlone' /\ QueueAlone' /\ ShelfAlone' /\ RecoverAlone'
  BY <1>1 DEF JobInv, ThreadsAlone, QueueAlone, ShelfAlone, RecoverAlone, Has, Left, Queued
<1>9. ControlRests' /\ PreparedIsQuiet'
  BY <1>1, <1>3, <1>4 DEF ControlRests, PreparedIsQuiet
<1> QED
  BY <1>2, <1>5, <1>6, <1>8, <1>9 DEF JobInv

(* What a step of the control thread keeps that only fills the shelf.      *)
LEMMA ControlKeeps ==
  ASSUME JobInv, UNCHANGED <<rows, queue, unresolved, counters>>,
         at' = [at EXCEPT ![Control] = Doing("rescan", NoJob)],
         prepare' = "open", shelf' \in [Jobs -> {0} \cup Tags],
         \A j \in Jobs : shelf'[j] # shelf[j] =>
           status[j] = "paused" /\ ~Queued(j) /\ \A t \in Threads : ~Has(t, j)
  PROVE  JobInv'
<1>1. /\ UNCHANGED <<status, saved, worked, unresolved, pauses, restarts, rearms, faults>>
      /\ Control \in Threads /\ at \in [Threads -> Thread] /\ TypeOK
      /\ \A i \in DOMAIN queue : queue[i].job \in Jobs
  BY QueueHolds DEF rows, counters, Threads, JobInv, TypeOK
<1>2. /\ Doing("rescan", NoJob) \in Thread /\ Doing("rescan", NoJob).point = "rescan"
  BY DoingIsThread DEF Doing, Points
<1>3. /\ at'[Control].point = "rescan" /\ \A s \in Threads \ {Control} : at'[s] = at[s]
      /\ at' \in [Threads -> Thread]
  BY <1>1, <1>2
<1>4. TypeOK'
  BY <1>1, <1>3 DEF TypeOK
<1>5. /\ \A s \in Threads \ {Control}, k \in Jobs : (Has(s, k)' <=> Has(s, k)) /\ (Left(s, k)' <=> Left(s, k))
      /\ \A k \in Jobs : ~Has(Control, k)' /\ ~Left(Control, k)'
  BY <1>3 DEF Has, Left, Holding
<1>6. ASSUME NEW s \in Threads PROVE Role(s)' /\ ThreadRow(s)'
  <2>1. CASE s = Control
    BY <1>3, <2>1 DEF Role, ThreadRow, Running, Reserving
  <2>2. CASE s # Control
    BY <1>1, <1>3, <2>2 DEF JobInv, Role, ThreadRow
  <2> QED
    BY <2>1, <2>2
<1>7. /\ \A j \in Jobs : JobRow(j)'
      /\ \A i \in DOMAIN queue' : QueueRow(i)'
  BY <1>1 DEF JobInv, JobRow, QueueRow
<1>8. ThreadsAlone' /\ QueueAlone'
  BY <1>1, <1>5 DEF JobInv, ThreadsAlone, QueueAlone
<1>9. ShelfAlone'
  <2>1. \A j \in Jobs : Queued(j)' <=> Queued(j)
    BY DEF Queued
  <2> QED
    BY <1>1, <1>5, <2>1 DEF JobInv, ShelfAlone
<1>10. RecoverAlone' /\ ControlRests' /\ PreparedIsQuiet'
  BY <1>3 DEF RecoverAlone, ControlRests, PreparedIsQuiet, Open
<1> QED
  BY <1>4, <1>6, <1>7, <1>8, <1>9, <1>10 DEF JobInv

LEMMA ResumeKeeps ==
  ASSUME JobInv, Resume
  PROVE  JobInv'
<1>1. shelf' = shelf /\ shelf \in [Jobs -> {0} \cup Tags]
  BY DEF Resume, JobInv, TypeOK
<1> QED
  BY <1>1, ControlKeeps DEF Resume

LEMMA RecoverKeeps ==
  ASSUME JobInv, Recover
  PROVE  JobInv'
<1>1. at[Control].point = "recover" /\ Control \in Threads
  BY DEF Recover, Threads
<1>2. prepare' = "open"
  BY <1>1, Before DEF Recover, Open, Idle, Doing, TypeOK
<1>3. shelf' \in [Jobs -> {0} \cup Tags]
  BY NewTagIsTag DEF Recover, JobInv, TypeOK
<1>4. \A j \in Jobs : shelf'[j] # shelf[j] =>
        status[j] = "paused" /\ ~Queued(j) /\ \A t \in Threads : ~Has(t, j)
  BY <1>1 DEF Recover, JobInv, RecoverAlone
<1> QED
  BY <1>2, <1>3, <1>4, ControlKeeps DEF Recover

LEMMA RestartsKeep ==
  ASSUME JobInv, Restarts
  PROVE  JobInv'
<1> DEFINE todo == {j \in Jobs : status[j] = "paused"}
           first == [Doing("recover", NoJob) EXCEPT !.todo = todo]
<1>1. /\ first \in Thread /\ first.point = "recover" /\ first.todo = todo
  <2>1. Doing("recover", NoJob) \in Thread
    BY DoingIsThread DEF Points
  <2>2. todo \in SUBSET Jobs
    OBVIOUS
  <2> HIDE DEF todo
  <2> QED
    BY <2>1, <2>2 DEF Doing, Thread
<1> HIDE DEF first
<1>2. /\ at' = [t \in Threads |-> IF t = Control THEN first ELSE Idle]
      /\ status' = [j \in Jobs |-> Interrupted(j)]
      /\ prepare' = "open" /\ queue' = <<>> /\ shelf' = [j \in Jobs |-> 0]
      /\ unresolved' = {} /\ UNCHANGED <<saved, worked, pauses, rearms, faults>>
  BY DEF Restarts, first
<1>3. /\ Control \in Threads /\ at'[Control] = first
      /\ \A t \in Threads \ {Control} : at'[t] = Idle /\ at'[t].point = "idle"
      /\ \A t \in Threads : \A j : ~Has(t, j)' /\ ~Left(t, j)'
  BY <1>1, <1>2, IdleIsThread DEF Threads, Has, Left, Holding
<1>4. \A j \in Jobs : /\ status'[j] \in {"none", "paused", "success", "error"}
                      /\ status'[j] = "paused" <=> status[j] = "paused"
                      /\ status'[j] = "none" => status[j] = "none"
  BY <1>2 DEF Interrupted, JobInv, TypeOK
<1>5. TypeOK'
  <2>1. at' \in [Threads -> Thread]
    BY <1>1, <1>2, IdleIsThread
  <2>2. restarts' \in 0 .. MaxRestarts
    BY JobAssumption DEF Restarts, JobInv, TypeOK
  <2>3. status' \in [Jobs -> {"none", "queued", "running", "paused", "success", "error"}]
    BY <1>2, <1>4
  <2>4. shelf' \in [Jobs -> {0} \cup Tags] /\ queue' \in Seq([job : Jobs, resuming : BOOLEAN])
    BY <1>2
  <2> QED
    BY <1>2, <2>1, <2>2, <2>3, <2>4 DEF JobInv, TypeOK
<1>6. ASSUME NEW t \in Threads PROVE Role(t)' /\ ThreadRow(t)'
  BY <1>1, <1>3 DEF Role, ThreadRow, Running, Reserving
<1>7. \A j \in Jobs : JobRow(j)'
  BY <1>2, <1>4 DEF JobInv, JobRow
<1>8. DOMAIN queue' = {} /\ \A j : ~Queued(j)'
  BY <1>2 DEF Queued
<1>9. ThreadsAlone' /\ QueueAlone' /\ ShelfAlone' /\ RecoverAlone'
  BY <1>1, <1>2, <1>3, <1>4, <1>8 DEF ThreadsAlone, QueueAlone, ShelfAlone, RecoverAlone
<1>10. ControlRests' /\ PreparedIsQuiet'
  BY <1>2 DEF ControlRests, PreparedIsQuiet, Open
<1> QED
  BY <1>5, <1>6, <1>7, <1>8, <1>9, <1>10 DEF JobInv

-----------------------------------------------------------------------------
LEMMA JobInvInit == Init => JobInv
<1> SUFFICES ASSUME Init PROVE JobInv
  OBVIOUS
<1>1. /\ \A t \in Threads : at[t] = Idle /\ at[t].point = "idle"
      /\ queue = <<>> /\ DOMAIN queue = {}
  BY IdleIsThread DEF Init
<1>2. TypeOK
  BY <1>1, IdleIsThread, JobAssumption DEF Init, TypeOK
<1>3. \A t \in Threads : Role(t) /\ ThreadRow(t)
  BY <1>1 DEF Role, ThreadRow, Running, Reserving
<1>4. \A j \in Jobs : JobRow(j)
  BY DEF Init, JobRow
<1>5. ThreadsAlone /\ QueueAlone /\ ShelfAlone /\ RecoverAlone
  <2>1. Control \in Threads
    BY DEF Threads
  <2> QED
    BY <1>1, <2>1 DEF Init, ThreadsAlone, QueueAlone, ShelfAlone, RecoverAlone, Has, Left, Holding
<1>6. ControlRests /\ PreparedIsQuiet
  BY <1>1 DEF Init, ControlRests, PreparedIsQuiet, Open
<1> QED
  BY <1>1, <1>2, <1>3, <1>4, <1>5, <1>6 DEF JobInv

LEMMA JobInvNext == JobInv /\ [Next]_vars => JobInv'
<1> SUFFICES ASSUME JobInv, [Next]_vars PROVE JobInv'
  OBVIOUS
<1>1. ASSUME NEW t \in Clients, Enqueueing(t) PROVE JobInv'
  BY <1>1, EnqueueKeeps, ContinueKeeps, SubmitKeeps, SavedAside DEF Aside, Enqueueing, Threads
<1>2. ASSUME NEW t \in Threads, Pausing(t) PROVE JobInv'
  BY <1>2, PersistPauseKeeps, PersistFailsKeeps, PublishKeeps DEF Pausing
<1>3. ASSUME NEW t \in Threads, Scanning(t) PROVE JobInv'
  BY <1>3, LooksOnKeeps, ReserveKeeps, SubmitKeeps, SavedAside, PutBackKeeps DEF LooksOn, Aside, Scanning
<1>4. ASSUME NEW w \in Workers, Executing(w) PROVE JobInv'
  BY <1>4, TakeKeeps, SavedAside, RestoreKeeps, WorkPeriodKeeps, FinishKeeps, ContextChangedKeeps, LooksOnKeeps
     DEF LooksOn, Aside, Executing, Threads
<1>5. ASSUME Restarting PROVE JobInv'
  BY <1>5, AdmissionKeeps, ResumeKeeps, RestartsKeep, RecoverKeeps DEF Restarting, OwnedRestart, ProcessDies
<1>6. ASSUME UNCHANGED vars PROVE JobInv'
  <2>1. UNCHANGED <<status, saved, worked, prepare, queue, shelf, at, unresolved, pauses, restarts, rearms, faults>>
    BY <1>6 DEF vars, rows, counters
  <2> QED
    BY <2>1 DEF JobInv, TypeOK, Role, ThreadRow, JobRow, QueueRow, ThreadsAlone, QueueAlone, ShelfAlone,
       RecoverAlone, ControlRests, PreparedIsQuiet, Has, Left, Queued, Open
<1> QED
  BY <1>1, <1>2, <1>3, <1>4, <1>5, <1>6 DEF Next

LEMMA JobInvAlways == Spec => []JobInv
BY JobInvInit, JobInvNext, PTL DEF Spec

-----------------------------------------------------------------------------
(* No job is lost sight of. *)

Unended(j) == status[j] \in {"queued", "running"}
SomebodyHas(j) == j \in unresolved \/ Queued(j) \/ \E t \in Threads : Has(t, j)

LEMMA OwnedParts ==
  Owned <=> (rearms = 0 =>
    /\ \A t \in Clients : at[t].point \in {"created", "pausing"} => ~at[t].resuming
    /\ \A j \in Jobs : Unended(j) => SomebodyHas(j))
BY DEF Owned, Unended, SomebodyHas

(* A step of one thread loses sight of no job but those that thread had.   *)
LEMMA OwnedKeeps ==
  ASSUME JobInv, Owned, NEW t \in Threads, at' = [at EXCEPT ![t] = at'[t]],
         rearms' = rearms, unresolved \subseteq unresolved',
         t \in Clients /\ at'[t].point \in {"created", "pausing"} /\ rearms = 0 => ~at'[t].resuming,
         \A j \in Jobs : Unended(j)' /\ rearms = 0 =>
           \/ j \in unresolved' \/ Queued(j)' \/ Has(t, j)'
           \/ Unended(j) /\ ~Queued(j) /\ ~Has(t, j)
  PROVE  Owned'
<1> SUFFICES ASSUME rearms = 0
             PROVE  /\ \A c \in Clients : at'[c].point \in {"created", "pausing"} => ~at'[c].resuming
                    /\ \A j \in Jobs : Unended(j)' => SomebodyHas(j)'
  BY DEF Owned, Unended, SomebodyHas
<1>1. /\ \A s \in Threads \ {t} : at'[s] = at[s]
      /\ \A s \in Threads \ {t}, k \in Jobs : Has(s, k)' <=> Has(s, k)
  BY DEF JobInv, TypeOK, Has
<1>2. \A c \in Clients : at'[c].point \in {"created", "pausing"} => ~at'[c].resuming
  BY <1>1 DEF Owned, Threads
<1>3. ASSUME NEW j \in Jobs, Unended(j)' PROVE SomebodyHas(j)'
  <2>1. CASE Unended(j) /\ ~Queued(j) /\ ~Has(t, j)
    <3>1. SomebodyHas(j)
      BY <2>1, OwnedParts
    <3>2. j \in unresolved \/ \E s \in Threads \ {t} : Has(s, j)
      BY <2>1, <3>1 DEF SomebodyHas
    <3> QED
      BY <1>1, <3>2 DEF SomebodyHas
  <2> QED
    BY <1>3, <2>1 DEF SomebodyHas
<1> QED
  BY <1>2, <1>3

LEMMA OwnedEnqueue ==
  ASSUME JobInv, Owned, NEW t \in Clients, NEW j \in Jobs, Enqueue(t, j) \/ Continue(t, j)
  PROVE  Owned'
<1>0. t \in Threads /\ at \in [Threads -> Thread]
  BY Before DEF Threads, TypeOK
<1>1. CASE Enqueue(t, j)
  <2>1. at' = [at EXCEPT ![t] = Doing("created", j)] /\ at'[t] = Doing("created", j)
    BY <1>0, <1>1 DEF Enqueue
  <2>2. at'[t].point = "created" /\ at'[t].job = j /\ at'[t].resuming = FALSE
    BY <2>1 DEF Doing
  <2>3. UNCHANGED <<queue, unresolved, rearms>> /\ at[t] = Idle /\ status' = [status EXCEPT ![j] = "queued"]
    BY <1>1 DEF Enqueue, counters
  <2>4. \A k \in Jobs : ~Has(t, k) /\ (Queued(k)' <=> Queued(k)) /\ (k # j /\ Unended(k)' => Unended(k))
    BY <2>3, IdleIsThread DEF Has, Holding, Queued, Unended, JobInv, TypeOK
  <2>5. Has(t, j)'
    BY <2>2 DEF Has, Holding
  <2> QED
    BY <1>0, <2>1, <2>2, <2>3, <2>4, <2>5, OwnedKeeps
<1>2. CASE Continue(t, j)
  <2>1. rearms' # 0
    BY <1>2 DEF Continue, JobInv, TypeOK
  <2> QED
    BY <2>1 DEF Owned
<1> QED
  BY <1>1, <1>2

LEMMA OwnedSubmit ==
  ASSUME JobInv, Owned, NEW t \in Threads, SubmitNew(t) \/ Resubmit(t)
  PROVE  Owned'
<1>0. /\ at[t].point \in {"created", "resubmitting"} /\ at[t].job \in Jobs
      /\ at[t] \in Thread /\ at \in [Threads -> Thread] /\ TypeOK
  BY Before DEF SubmitNew, Resubmit, Role, Reserving, TypeOK
<1> SUFFICES ASSUME NEW j \in Jobs, j = at[t].job PROVE Owned'
  BY <1>0
<1>1. at' = [at EXCEPT ![t] = at'[t]] /\ at'[t].point \in {"idle", "submitted"}
  <2>1. CASE SubmitNew(t)
    BY <1>0, <2>1, IdleIsThread DEF SubmitNew, Rest
  <2>2. CASE Resubmit(t)
    BY <1>0, <2>2 DEF Resubmit, Thread
  <2> QED
    BY <2>1, <2>2
<1>2. UNCHANGED <<status, unresolved, rearms>> /\ \E resuming \in BOOLEAN : queue' = Submitted(j, resuming)
  BY DEF SubmitNew, Resubmit, rows, counters
<1>3. PICK resuming \in BOOLEAN : queue' = Submitted(j, resuming)
  BY <1>2
<1>4. Queued(j)' /\ \A k \in Jobs : Queued(k) => Queued(k)'
  <2>1. queue \in Seq(Futures) /\ [job |-> j, resuming |-> resuming] \in Futures
    BY <1>0 DEF TypeOK, Futures
  <2>2. /\ queue' \in Seq(Futures) /\ Len(queue') = Len(queue) + 1 /\ Len(queue) \in Nat
        /\ \A i \in 1 .. Len(queue) : queue'[i] = queue[i]
        /\ queue'[Len(queue) + 1] = [job |-> j, resuming |-> resuming]
    BY <1>3, <2>1, AppendProperties, LenProperties DEF Submitted
  <2>3. DOMAIN queue' = 1 .. Len(queue') /\ DOMAIN queue = 1 .. Len(queue)
    BY <2>1, <2>2, LenProperties
  <2>4. Len(queue) + 1 \in DOMAIN queue' /\ DOMAIN queue \subseteq DOMAIN queue'
    BY <2>2, <2>3
  <2> QED
    BY <2>2, <2>3, <2>4 DEF Queued
<1>5. \A k \in Jobs : (Unended(k)' <=> Unended(k)) /\ (Has(t, k) => k = j)
  BY <1>2 DEF Unended, Has
<1> QED
  BY <1>1, <1>2, <1>4, <1>5, OwnedKeeps

(* Only thread t moves, and still has what it had.                         *)
LEMMA OwnedOnly ==
  ASSUME JobInv, Owned, NEW t \in Threads, Only(t),
         \A k \in Jobs : Has(t, k) => Has(t, k)',
         t \in Clients /\ at'[t].point \in {"created", "pausing"} /\ rearms = 0 => ~at'[t].resuming
  PROVE  Owned'
<1>1. UNCHANGED <<status, queue, unresolved, rearms>> /\ at' = [at EXCEPT ![t] = at'[t]]
  BY DEF Only, rows, counters
<1>2. \A k \in Jobs : (Unended(k)' <=> Unended(k)) /\ (Queued(k)' <=> Queued(k))
  BY <1>1 DEF Unended, Queued
<1> QED
  BY <1>1, <1>2, OwnedKeeps

LEMMA OwnedMoves ==
  ASSUME JobInv, Owned, NEW t \in Threads, Aside(t) \/ LooksOn(t)
  PROVE  Owned'
<1>1. CASE Aside(t)
  <2>1. AsideTo(t)
    BY <1>1, AsideStep
  <2>2. Only(t)
    BY <2>1 DEF AsideTo, Only
  <2>3. \A k \in Jobs : Has(t, k) => Has(t, k)'
    BY <2>1 DEF AsideTo, Has, Holding
  <2>4. t \in Clients => at[t].point # "taken"
    BY JobAssumption, Before DEF Role
  <2>5. t \in Clients /\ at'[t].point \in {"created", "pausing"} /\ rearms = 0 => ~at'[t].resuming
    BY <2>1, <2>4 DEF AsideTo, Owned
  <2> QED
    BY <2>2, <2>3, <2>5, OwnedOnly
<1>2. CASE LooksOn(t)
  <2>1. LooksTo(t)
    BY <1>2, LookStep
  <2>2. Only(t) /\ \A k \in Jobs : ~Has(t, k)
    BY <2>1 DEF LooksTo, Only, Has
  <2>3. at'[t].point \notin {"created", "pausing"}
    BY <2>1 DEF LooksTo
  <2> QED
    BY <2>2, <2>3, OwnedOnly
<1> QED
  BY <1>1, <1>2

(* A thread works on the job it has: it keeps it, or the row has ended or  *)
(* is paused, or its outcome is known to be uncertain.                     *)
LEMMA OwnedWork ==
  ASSUME JobInv, Owned, NEW t \in Threads, NEW j \in Jobs, at[t].job = j,
         at' = [at EXCEPT ![t] = at'[t]], RowsBut(j), queue' = queue, rearms' = rearms,
         unresolved \subseteq unresolved',
         t \in Clients => at'[t].point \notin {"created", "pausing"},
         Unended(j)' /\ rearms = 0 => j \in unresolved' \/ Has(t, j)'
  PROVE  Owned'
<1>1. \A k \in Jobs : (Queued(k)' <=> Queued(k)) /\ (Has(t, k) => k = j)
  BY DEF Queued, Has
<1>2. \A k \in Jobs \ {j} : Unended(k)' <=> Unended(k)
  BY DEF RowsBut, Unended
<1>3. ASSUME NEW k \in Jobs, Unended(k)', rearms = 0
      PROVE  k \in unresolved' \/ Queued(k)' \/ Has(t, k)' \/ (Unended(k) /\ ~Queued(k) /\ ~Has(t, k))
  BY <1>1, <1>2, <1>3
<1> QED
  BY <1>3, OwnedKeeps

LEMMA OwnedPausing ==
  ASSUME JobInv, Owned, NEW t \in Threads, Pausing(t)
  PROVE  Owned'
<1>0. /\ at[t].point \in {"pausing", "publishing"} /\ at[t].job \in Jobs
      /\ at[t] \in Thread /\ at \in [Threads -> Thread] /\ TypeOK
      /\ t \in Workers \cup Clients
  BY Before DEF Pausing, PersistPause, PersistFails, Publish, Role, Running, TypeOK
<1> SUFFICES ASSUME NEW j \in Jobs, j = at[t].job PROVE Owned'
  BY <1>0
<1>1. CASE PersistPause(t)
  <2>1. /\ at' = [at EXCEPT ![t] = at'[t]] /\ at'[t].point = "publishing"
        /\ status' = [status EXCEPT ![j] = "paused"]
        /\ RowsBut(j) /\ UNCHANGED <<queue, rearms, unresolved>>
    BY <1>0, <1>1 DEF PersistPause, Thread, RowsBut, TypeOK, counters
  <2>2. ~Unended(j)'
    BY <1>0, <2>1 DEF Unended, TypeOK
  <2> QED
    BY <2>1, <2>2, OwnedWork
<1>2. CASE PersistFails(t)
  <2>1. /\ at' = [at EXCEPT ![t] = at'[t]] /\ at'[t].point \in {"finished", "idle"}
        /\ RowsBut(j) /\ UNCHANGED <<queue, rearms>> /\ unresolved \subseteq unresolved'
    BY <1>0, <1>2, IdleIsThread, DoneIsThread DEF PersistFails, Done, Rest, RowsBut, rows
  <2>2. rearms = 0 => j \in unresolved'
    <3>1. rearms = 0 => ~(t \in Clients /\ at[t].resuming)
      BY <1>2 DEF Owned, PersistFails
    <3> QED
      BY <1>2, <3>1 DEF PersistFails
  <2> QED
    BY <2>1, <2>2, OwnedWork
<1>3. CASE Publish(t)
  <2>1. /\ at' = [at EXCEPT ![t] = at'[t]] /\ at'[t] \in {Doing("finished", j), Doing("rescan", NoJob), Idle}
        /\ RowsBut(j) /\ UNCHANGED <<status, queue, rearms, unresolved>>
    BY <1>0, <1>3 DEF Publish, Done, Rest, RowsBut, rows, counters
  <2>2. at'[t].point \in {"finished", "rescan", "idle"}
    BY <2>1 DEF Doing, Idle
  <2>3. ~Unended(j)'
    BY <1>0, <1>3, <2>1, Before DEF Publish, ThreadRow, Unended
  <2> QED
    BY <2>1, <2>2, <2>3, OwnedWork
<1> QED
  BY <1>1, <1>2, <1>3 DEF Pausing

LEMMA OwnedExecuting ==
  ASSUME JobInv, Owned, NEW w \in Workers, Executing(w)
  PROVE  Owned'
<1>0. w \in Threads /\ w \notin Clients /\ at[w] \in Thread /\ at \in [Threads -> Thread] /\ TypeOK
  BY WorkersHold, Before
<1>1. CASE Take(w)
  <2>1. queue \in Seq(Futures) /\ queue # <<>>
    BY <1>0, <1>1 DEF TypeOK, Futures, Take
  <2>2. /\ Len(queue) \in Nat \ {0} /\ DOMAIN queue = 1 .. Len(queue) /\ Head(queue) = queue[1]
        /\ DOMAIN queue' = 1 .. (Len(queue) - 1)
        /\ \A i \in DOMAIN queue' : queue'[i] = queue[i + 1]
    <3>1. /\ Tail(queue) \in Seq(Futures) /\ Len(Tail(queue)) = Len(queue) - 1
          /\ \A i \in 1 .. Len(Tail(queue)) : Tail(queue)[i] = queue[i + 1]
      BY <2>1, HeadTailProperties
    <3>2. DOMAIN Tail(queue) = 1 .. Len(Tail(queue))
      BY <3>1, LenProperties
    <3>3. Len(queue) \in Nat \ {0} /\ DOMAIN queue = 1 .. Len(queue)
      BY <2>1, EmptySeq, LenProperties
    <3>4. Head(queue) = queue[1] /\ queue' = Tail(queue)
      BY <1>1, <2>1 DEF Take
    <3> QED
      BY <3>1, <3>2, <3>3, <3>4
  <2>3. /\ UNCHANGED <<status, unresolved, rearms>> /\ at[w] = Idle
        /\ at' = [at EXCEPT ![w] = at'[w]]
        /\ at'[w] = [Doing("taken", queue[1].job) EXCEPT !.resuming = queue[1].resuming]
    BY <1>0, <1>1, <2>2 DEF Take, rows, counters
  <2>4. at'[w].point = "taken" /\ at'[w].job = queue[1].job
    BY <2>3 DEF Doing
  <2>5. ASSUME NEW k \in Jobs, Queued(k) PROVE Queued(k)' \/ Has(w, k)'
    <3>1. PICK i \in DOMAIN queue : queue[i].job = k
      BY <2>5 DEF Queued
    <3>2. CASE i = 1
      BY <2>4, <3>1, <3>2 DEF Has, Holding
    <3>3. CASE i # 1
      <4>1. i - 1 \in DOMAIN queue' /\ queue'[i - 1] = queue[i]
        BY <2>2, <3>1, <3>3
      <4> QED
        BY <3>1, <4>1 DEF Queued
    <3> QED
      BY <3>2, <3>3
  <2>6. \A k \in Jobs : ~Has(w, k) /\ (Unended(k)' <=> Unended(k))
    BY <2>3, IdleIsThread DEF Has, Holding, Unended
  <2> QED
    BY <1>0, <2>3, <2>5, <2>6, OwnedKeeps
<1>2. CASE Aside(w) \/ LooksOn(w)
  BY <1>0, <1>2, OwnedMoves
<1> DEFINE works == Restore(w) \/ WorkPeriod(w) \/ (\E outcome \in {"success", "error"} : Finish(w, outcome))
                      \/ ContextChanged(w)
<1>3. CASE works
  <2>0. at[w].point \in {"restoring", "working"} /\ at[w].job \in Jobs
    BY <1>3, WorkersHold DEF Restore, WorkPeriod, Finish, ContextChanged, Running
  <2> SUFFICES ASSUME NEW j \in Jobs, j = at[w].job PROVE Owned'
    BY <2>0
  <2>1. CASE Restore(w)
    <3>1. /\ at' = [at EXCEPT ![w] = at'[w]] /\ RowsBut(j) /\ UNCHANGED <<queue, rearms>>
          /\ unresolved \subseteq unresolved'
      BY <1>0, <2>1 DEF Restore, Done, RowsBut, TypeOK, counters
    <3>2. Unended(j)' => j \in unresolved' \/ Has(w, j)'
      <4>1. CASE Restorable(j)
        <5>1. at'[w] = [at[w] EXCEPT !.point = "working", !.cursor = saved[j].cursor]
          BY <1>0, <2>1, <4>1 DEF Restore
        <5> QED
          BY <1>0, <5>1 DEF Thread, Has, Holding
      <4>2. CASE ~Restorable(j)
        BY <2>1, <4>2 DEF Restore
      <4> QED
        BY <4>1, <4>2
    <3> QED
      BY <1>0, <3>1, <3>2, OwnedWork
  <2>2. CASE WorkPeriod(w)
    <3>1. /\ at' = [at EXCEPT ![w] = at'[w]] /\ at'[w].point \in {"pausing", "working"} /\ at'[w].job = j
          /\ RowsBut(j) /\ UNCHANGED <<queue, rearms, unresolved>>
      BY <1>0, <2>2 DEF WorkPeriod, RowsBut, Thread, TypeOK, counters
    <3> QED
      BY <1>0, <3>1, OwnedWork DEF Has, Holding
  <2>3. ASSUME NEW outcome \in {"success", "error"}, Finish(w, outcome) PROVE Owned'
    <3>1. /\ at' = [at EXCEPT ![w] = at'[w]] /\ RowsBut(j) /\ UNCHANGED <<queue, rearms, unresolved>>
          /\ status' = [status EXCEPT ![j] = outcome]
      BY <1>0, <2>3 DEF Finish, Done, RowsBut, TypeOK, counters
    <3>2. ~Unended(j)'
      BY <1>0, <3>1 DEF Unended, TypeOK
    <3> QED
      BY <1>0, <3>1, <3>2, OwnedWork
  <2>4. CASE ContextChanged(w)
    <3>1. /\ at' = [at EXCEPT ![w] = at'[w]] /\ RowsBut(j) /\ UNCHANGED <<queue, rearms>>
          /\ unresolved' = unresolved \cup {j}
      BY <1>0, <2>4 DEF ContextChanged, Done, RowsBut, TypeOK
    <3> QED
      BY <1>0, <3>1, OwnedWork
  <2> QED
    BY <1>3, <2>1, <2>2, <2>3, <2>4
<1> QED
  BY <1>1, <1>2, <1>3 DEF Executing, Aside, LooksOn

LEMMA OwnedScanning ==
  ASSUME JobInv, Owned, NEW t \in Threads, Scanning(t)
  PROVE  Owned'
<1>0. at[t] \in Thread /\ at \in [Threads -> Thread]
  BY Before DEF TypeOK
<1>1. CASE LooksOn(t) \/ Aside(t)
  BY <1>1, OwnedMoves
<1>2. CASE SubmitNew(t) \/ Resubmit(t)
  BY <1>2, OwnedSubmit
<1>3. CASE Reserve(t) /\ Open /\ Takeable(t)
  <2>0. at[t].job \in Jobs
    BY <1>3, Before DEF Reserve, Role
  <2> SUFFICES ASSUME NEW j \in Jobs, j = at[t].job PROVE Owned'
    BY <2>0
  <2>1. /\ at' = [at EXCEPT ![t].point = "resubmitting"] /\ RowsBut(j)
        /\ UNCHANGED <<queue, rearms, unresolved>>
    BY <1>3 DEF Reserve, Goto, RowsBut, rows, counters
  <2>2. /\ at' = [at EXCEPT ![t] = at'[t]] /\ at'[t].point = "resubmitting" /\ at'[t].job = j
    BY <1>0, <2>1 DEF Thread
  <2> QED
    BY <2>1, <2>2, OwnedWork DEF Has, Holding
<1>4. CASE PutBack(t)
  <2>0. at[t].job \in Jobs /\ at[t].point = "refused"
    BY <1>4, Before DEF PutBack, Role, Reserving
  <2> SUFFICES ASSUME NEW j \in Jobs, j = at[t].job PROVE Owned'
    BY <2>0
  <2>1. /\ at' = [at EXCEPT ![t] = at'[t]] /\ at'[t].point = "returned" /\ RowsBut(j)
        /\ UNCHANGED <<status, queue, rearms, unresolved>>
    BY <1>0, <1>4 DEF PutBack, RowsBut, rows, counters, Thread
  <2>2. ~Unended(j)'
    BY <2>0, <2>1, Before DEF ThreadRow, Unended
  <2> QED
    BY <2>1, <2>2, OwnedWork
<1> QED
  BY <1>1, <1>2, <1>3, <1>4 DEF Scanning, LooksOn, Aside

LEMMA OwnedRestarting ==
  ASSUME JobInv, Owned, Restarting
  PROVE  Owned'
<1>0. Control \in Threads /\ Control \notin Clients /\ at \in [Threads -> Thread]
  BY JobAssumption DEF Threads, JobInv, TypeOK
<1>1. CASE ClosePause \/ Prepared
  <2>1. UNCHANGED <<status, queue, at, unresolved, rearms>>
    BY <1>1 DEF ClosePause, Prepared, rows, counters
  <2> QED
    BY <2>1 DEF Owned, Queued, Has
<1>2. CASE Resume \/ Recover
  <2>1. /\ UNCHANGED <<status, queue, unresolved, rearms>>
        /\ at' = [at EXCEPT ![Control] = Doing("rescan", NoJob)]
    BY <1>2 DEF Resume, Recover, rows, counters
  <2>2. at[Control].point \in {"idle", "recover"}
    BY <1>2, IdleIsThread DEF Resume, Recover, JobInv, ControlRests
  <2>3. \A k \in Jobs : ~Has(Control, k) /\ (Unended(k)' <=> Unended(k)) /\ (Queued(k)' <=> Queued(k))
    BY <2>1, <2>2 DEF Has, Holding, Unended, Queued
  <2>4. at' = [at EXCEPT ![Control] = at'[Control]]
    BY <1>0, <2>1
  <2> QED
    BY <1>0, <2>1, <2>3, <2>4, OwnedKeeps
<1>3. CASE Restarts
  <2>1. \A j \in Jobs : ~Unended(j)'
    BY <1>3 DEF Restarts, Interrupted, Unended
  <2>2. \A t \in Clients : at'[t] = Idle
    BY <1>0, <1>3 DEF Restarts, Threads
  <2> QED
    BY <2>1, <2>2, IdleIsThread DEF Owned, Unended
<1> QED
  BY <1>1, <1>2, <1>3 DEF Restarting, OwnedRestart, ProcessDies

LEMMA OwnedAlways == Spec => [](JobInv /\ Owned)
<1>1. Init => Owned
  BY IdleIsThread DEF Init, Owned, Threads
<1>2. JobInv /\ Owned /\ [Next]_vars => Owned'
  <2> SUFFICES ASSUME JobInv, Owned, [Next]_vars PROVE Owned'
    OBVIOUS
  <2>1. ASSUME NEW t \in Clients, Enqueueing(t) PROVE Owned'
    BY <2>1, OwnedEnqueue, OwnedSubmit, OwnedMoves DEF Enqueueing, Aside, Threads
  <2>2. ASSUME UNCHANGED vars PROVE Owned'
    <3>1. UNCHANGED <<status, queue, at, unresolved, rearms>>
      BY <2>2 DEF vars, rows, counters
    <3> QED
      BY <3>1 DEF Owned, Queued, Has
  <2> QED
    BY <2>1, <2>2, OwnedPausing, OwnedScanning, OwnedExecuting, OwnedRestarting DEF Next
<1> QED
  BY JobInvInit, JobInvNext, <1>1, <1>2, PTL DEF Spec

-----------------------------------------------------------------------------
(* Every variable stays in its range.  In particular a tag that nobody     *)
(* holds is always left for the next descriptor, and a resumed cursor is   *)
(* one that was saved (_persist_job_pause, _restore_paused_job).           *)
THEOREM JobTypeCorrect == Spec => []TypeOK
<1>1. JobInv => TypeOK
  BY DEF JobInv
<1> QED
  BY JobInvAlways, <1>1, PTL

(* What jobs_paused has answered stays true until admission is reopened:   *)
(* no future, no thread at work, no submission (_enqueue_admission).       *)
THEOREM PreparedStaysQuiet == Spec => []PreparedIsQuiet
<1>1. JobInv => PreparedIsQuiet
  BY DEF JobInv
<1> QED
  BY JobInvAlways, <1>1, PTL

(* No interleaving of scans, completions, continuations, recoveries and    *)
(* restarts gives a job two futures (_resume_ready_tasks, continue_job).   *)
THEOREM JobsRunOnce == Spec => []OneFuture
<1>1. JobInv => OneFuture
  <2> SUFFICES ASSUME JobInv, NEW j \in Jobs
               PROVE  Cardinality({i \in DOMAIN queue : queue[i].job = j})
                        + Cardinality({w \in Workers : Runs(w, j)}) <= 1
    BY DEF OneFuture
  <2> DEFINE waiting == {i \in DOMAIN queue : queue[i].job = j}
             working == {w \in Workers : Runs(w, j)}
  <2>1. waiting = {} \/ \E x : waiting = {x}
    BY DEF JobInv, QueueAlone
  <2>2. working = {} \/ \E x : working = {x}
    <3>1. \A v, w \in Workers : Runs(v, j) /\ Runs(w, j) => v = w
      <4> SUFFICES ASSUME NEW v \in Workers, NEW w \in Workers, Runs(v, j), Runs(w, j)
                   PROVE  v = w
        OBVIOUS
      <4>1. (Has(v, j) \/ Left(v, j)) /\ (Has(w, j) \/ Left(w, j))
        BY DEF Runs, Running, Has, Left, Holding
      <4> QED
        BY <4>1, WorkersHold DEF JobInv, ThreadsAlone
    <3> QED
      BY <3>1
  <2>3. waiting = {} \/ working = {}
    BY WorkersHold DEF JobInv, QueueAlone, Runs, Running, Has, Left, Holding
  <2>4. /\ waiting = {} => Cardinality(waiting) = 0
        /\ working = {} => Cardinality(working) = 0
    BY FS_EmptySet
  <2>5. /\ (\E x : waiting = {x}) => Cardinality(waiting) = 1
        /\ (\E x : working = {x}) => Cardinality(working) = 1
    BY FS_Singleton
  <2> HIDE DEF waiting, working
  <2>6. Cardinality(waiting) + Cardinality(working) <= 1
    BY <2>1, <2>2, <2>3, <2>4, <2>5
  <2> QED
    BY <2>6 DEF waiting, working
<1> QED
  BY JobInvAlways, <1>1, PTL

(* However often a task is paused, shelved, put back, resumed and carried  *)
(* over a restart, it goes on with the period after the last one committed *)
(* (run_task, _persist_job_pause, _restore_paused_job).                    *)
THEOREM NoPeriodIsRepeated == Spec => []NoPeriodRepeated
<1>1. JobInv => NoPeriodRepeated
  <2> SUFFICES ASSUME JobInv PROVE NoPeriodRepeated
    OBVIOUS
  <2>1. \A w \in Workers : at[w].point = "working" => at[w].cursor = worked[at[w].job]
    BY DEF JobInv, ThreadRow, Threads
  <2>2. \A t \in Threads : at[t].point = "pausing" =>
          LET d == Descriptor(at[t].job, at[t].cursor)
          IN  Lawful(d) /\ d.cursor = worked[at[t].job]
    BY DescriptorIsRight
  <2> QED
    BY <2>1, <2>2 DEF NoPeriodRepeated
<1> QED
  BY JobInvAlways, <1>1, PTL

(* When a restart is prepared, a row that neither ended nor was saved as   *)
(* paused is one whose outcome is known to be uncertain: a quiet process   *)
(* has nobody else to hold it (request_job_pause, jobs_paused).            *)
THEOREM PreparedRestartLosesNothing == Spec => []PreparedLosesNothing
<1>1. JobInv /\ Owned => PreparedLosesNothing
  <2> SUFFICES ASSUME JobInv, Owned, prepare = "prepared", rearms = 0, NEW j \in Jobs,
                      status[j] \in {"queued", "running"}
               PROVE  j \in unresolved
    BY DEF PreparedLosesNothing
  <2>1. queue = <<>> /\ \A t \in Threads : at[t] = Idle
    BY DEF JobInv, PreparedIsQuiet
  <2>2. ~Queued(j) /\ \A t \in Threads : ~Has(t, j)
    BY <2>1, IdleIsThread DEF Queued, Has, Holding
  <2> QED
    BY <2>2 DEF Owned
<1> QED
  BY OwnedAlways, <1>1, PTL
=============================================================================

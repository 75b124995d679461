---------------------------- MODULE PipelineRun ----------------------------
(***************************************************************************)
(* One NRB corpus update, from the request to its verdict: app/nrb/        *)
(* pipeline.py, the runner daemon that executes runs, the advisory lock    *)
(* they share and the endpoints that request and poll a run.               *)
(*                                                                         *)
(* Three kinds of process meet on the run rows.  A client requests a run   *)
(* and leaves; a runner recovers, polls and executes in a loop; an         *)
(* operator's --run-now recovers, requests and executes its own run.  They *)
(* share actions: an action is one transaction, or one lock call, of a     *)
(* process at a given station.  Ingest jobs are drained by another process *)
(* altogether (module IngestQueue); here only their status moves.          *)
(***************************************************************************)
EXTENDS Naturals, FiniteSets

CONSTANTS
    Runners,         \* app.nrb.runner processes
    Clients,         \* HTTP requests to POST /v1/nrb/runs
    Operators,       \* scripts/nrb_pipeline.py --run-now
    NoOne,
    MaxRuns,         \* bound on nrb_pipeline_runs rows
    MaxJobs,         \* bound on ingest_jobs rows
    MaxStarts,       \* bound on requests, by clients and operators together
    MaxCrashes,      \* bound on process deaths
    MaxErrors,       \* bound on transactions of _finish that fail
    MaxLockLosses,   \* bound on lock connections dropped under a live holder
    MaxFaults        \* bound on the last three together

Procs == Runners \union Clients \union Operators

ASSUME PipelineAssumption ==
    /\ NoOne \notin Procs
    /\ Runners \intersect Clients = {}
    /\ Runners \intersect Operators = {}
    /\ Clients \intersect Operators = {}
    /\ MaxRuns \in Nat /\ MaxJobs \in Nat /\ MaxStarts \in 0..MaxRuns
    /\ MaxCrashes \in Nat /\ MaxErrors \in Nat /\ MaxLockLosses \in Nat
    /\ MaxFaults \in Nat

VARIABLES
    status,      \* nrb_pipeline_runs.status; "none" while the row does not exist
    error,       \* runs whose error column is set
    itemFailed,  \* runs whose stage counters report item-level failures
    recorded,    \* nrb_pipeline_run_jobs: the jobs attributed to each run
    frozen,      \* counters['jobs'] of each run, or Unset
    jobStatus,   \* ingest_jobs.status; "none" while the row does not exist
    enqueuer,    \* the run that enqueued each job: known to no table
    stray,       \* jobs failed by the stale sweep under a worker still at it
    lock,        \* the process whose connection holds PIPELINE_LOCK_KEY
    pc,          \* where each process is
    target,      \* the run a process executes
    batch,       \* jobs its RAG stage enqueued, by the reason it will record
    left         \* what remains of each bound

rowVars == <<status, error, itemFailed, recorded, frozen>>
jobVars == <<jobStatus, enqueuer, stray>>
procVars == <<lock, pc, target, batch>>
vars == <<status, error, itemFailed, recorded, frozen,
          jobStatus, enqueuer, stray, lock, pc, target, batch, left>>

Runs == 1..MaxRuns
Jobs == 1..MaxJobs
NoRun == 0

ActiveStatuses == {"queued", "running", "awaiting"}
TerminalStatuses == {"succeeded", "partial", "failed"}
JobActive == {"queued", "running"}
JobTerminal == {"succeeded", "failed"}
JobStates == JobActive \union JobTerminal
Reasons == {"created", "retried"}
Unset == [s \in JobStates |-> MaxJobs + 1]

\* Stations inside `async with advisory_lock`, after the claim.
Staging == {"stage", "enqueue", "record created", "record retried",
            "mark rag", "close", "give up"}
Stations == Staging \union
    {"idle", "recover", "unlock", "poll", "settle", "gate", "insert",
     "acquire", "sweep", "claim", "release"}
Bounds == {"starts", "crashes", "errors", "losses"}

Counts == [JobStates -> 0..(MaxJobs + 1)]

TypeOK ==
    /\ status \in [Runs -> ActiveStatuses \union TerminalStatuses \union {"none"}]
    /\ error \subseteq Runs
    /\ itemFailed \subseteq Runs
    /\ recorded \in [Runs -> SUBSET Jobs]
    /\ frozen \in [Runs -> Counts]
    /\ jobStatus \in [Jobs -> JobStates \union {"none"}]
    /\ enqueuer \in [Jobs -> Runs \union {NoRun}]
    /\ stray \subseteq Jobs
    /\ lock \in Procs \union {NoOne}
    /\ pc \in [Procs -> Stations]
    /\ target \in [Procs -> Runs \union {NoRun}]
    /\ batch \in [Procs -> [Reasons -> SUBSET Jobs]]
    /\ left \in [Bounds -> Nat]

Empty == [reason \in Reasons |-> {}]

Init ==
    /\ status = [r \in Runs |-> "none"]
    /\ error = {}
    /\ itemFailed = {}
    /\ recorded = [r \in Runs |-> {}]
    /\ frozen = [r \in Runs |-> Unset]
    /\ jobStatus = [j \in Jobs |-> "none"]
    /\ enqueuer = [j \in Jobs |-> NoRun]
    /\ stray = {}
    /\ lock = NoOne
    /\ pc = [p \in Procs |-> "idle"]
    /\ target = [p \in Procs |-> NoRun]
    /\ batch = [p \in Procs |-> Empty]
    /\ left = [b \in Bounds |->
                 IF b = "starts" THEN MaxStarts
                 ELSE IF b = "crashes" THEN MaxCrashes
                 ELSE IF b = "errors" THEN MaxErrors
                 ELSE MaxLockLosses]

Spend(b) == left[b] > 0 /\ left' = [left EXCEPT ![b] = @ - 1]

FaultsLeft ==
    MaxCrashes + MaxErrors + MaxLockLosses
        < MaxFaults + left["crashes"] + left["errors"] + left["losses"]

-----------------------------------------------------------------------------
(* Reading the rows.                                                       *)

In(statuses) == {r \in Runs : status[r] \in statuses}

\* _live_job_counts: a run's recorded jobs, grouped by status.
LiveCounts(r) ==
    [s \in JobStates |-> Cardinality({j \in recorded[r] : jobStatus[j] = s})]

\* _job_counts: what get_run and the status endpoint report.
Report(r) ==
    IF status[r] \notin {"running", "awaiting"} /\ frozen[r] # Unset
    THEN frozen[r]
    ELSE LiveCounts(r)

\* Mistake: the stage counters do not weigh in.
VerdictOfJobsAlone(r, counts) ==
    LET succeeded == counts["succeeded"] > 0
        failed == counts["failed"] > 0
    IN  IF counts["queued"] > 0 \/ counts["running"] > 0 THEN "awaiting"
        ELSE IF ~failed THEN "succeeded"
        ELSE IF succeeded THEN "partial" ELSE "failed"

\* resolve_status and _stage_failures, for a run with these job counts.
Verdict(r, counts) ==
    LET succeeded == counts["succeeded"] > 0
        failed == counts["failed"] > 0 \/ r \in itemFailed
    IN  IF counts["queued"] > 0 \/ counts["running"] > 0 THEN "awaiting"
        ELSE IF ~failed THEN "succeeded"
        ELSE IF succeeded THEN "partial" ELSE "failed"

-----------------------------------------------------------------------------
(* Writing the rows.                                                       *)

\* Mistake: a run that has its verdict is resolved again.
SettleAgain(waiting) ==
    LET again == waiting \union In(TerminalStatuses)
        done == {r \in again : Verdict(r, LiveCounts(r)) # "awaiting"}
    IN  /\ status' = [r \in Runs |->
                        IF r \in done THEN Verdict(r, LiveCounts(r)) ELSE status[r]]
        /\ frozen' = [r \in Runs |-> IF r \in done THEN LiveCounts(r) ELSE frozen[r]]

\* reconcile, of every run in `waiting`: one whose jobs are all terminal takes
\* its verdict and its counts are frozen; any other is left as it is.
Settle(waiting) ==
    LET done == {r \in waiting : Verdict(r, LiveCounts(r)) # "awaiting"}
    IN  /\ status' = [r \in Runs |->
                        IF r \in done THEN Verdict(r, LiveCounts(r)) ELSE status[r]]
        /\ frozen' = [r \in Runs |-> IF r \in done THEN LiveCounts(r) ELSE frozen[r]]

\* Mistake: recovery leaves a dead orchestrator's run to the next execute_run.
SettleOnly ==
    /\ Settle(In({"awaiting"}))
    /\ UNCHANGED error

\* recover_abandoned's transaction, under the lock: sweep_abandoned, then
\* settle_waiting.
SweepAndSettle ==
    LET waiting == In({"awaiting"})
        done == {r \in waiting : Verdict(r, LiveCounts(r)) # "awaiting"}
        corpses == In({"running"})
    IN  /\ status' = [r \in Runs |->
                        IF r \in corpses THEN "failed"
                        ELSE IF r \in done THEN Verdict(r, LiveCounts(r))
                        ELSE status[r]]
        /\ frozen' = [r \in Runs |-> IF r \in done THEN LiveCounts(r) ELSE frozen[r]]
        /\ error' = error \union corpses

\* _finish: unconditional but for ck_nrb_pipeline_runs_finished, which refuses
\* to make a row that has a finished_at active again.
Finish(r, s) ==
    IF s = "awaiting"
    THEN /\ status' = [status EXCEPT ![r] =
                         IF @ \in TerminalStatuses THEN @ ELSE "awaiting"]
         /\ UNCHANGED frozen
    ELSE /\ status' = [status EXCEPT ![r] = s]
         /\ frozen' = [frozen EXCEPT ![r] = LiveCounts(r)]

-----------------------------------------------------------------------------
(* Stations.                                                               *)

Goto(p, station) == pc' = [pc EXCEPT ![p] = station]
At(p, station) == pc[p] = station

\* The process is done: what it remembered is gone.
Leave(p) ==
    /\ Goto(p, "idle")
    /\ target' = [target EXCEPT ![p] = NoRun]
    /\ batch' = [batch EXCEPT ![p] = Empty]

\* pg_advisory_unlock frees only the caller's own hold.
Unlock(p) == lock' = IF lock = p THEN NoOne ELSE lock

\* pg_try_advisory_lock, when it succeeds.
TryLock(p) == lock = NoOne /\ lock' = p

-----------------------------------------------------------------------------
(* recover_abandoned.                                                      *)

\* Where a process goes once recovery is behind it.
AfterRecovery(p) == IF p \in Runners THEN "poll" ELSE "settle"

\* Mistake: recovery sweeps without asking for the lock.
BeginRecoveryUnlocked(p) ==
    /\ At(p, "idle")
    /\ \/ p \in Runners /\ UNCHANGED left
       \/ p \in Operators /\ Spend("starts")
    /\ Goto(p, "recover")
    /\ UNCHANGED <<rowVars, jobVars, lock, target, batch>>

\* run_once and start() begin with recovery; a request is one of MaxStarts.
BeginRecovery(p) ==
    /\ At(p, "idle")
    /\ \/ p \in Runners /\ UNCHANGED left
       \/ p \in Operators /\ Spend("starts")
    /\ \/ TryLock(p) /\ Goto(p, "recover")
       \/ lock # NoOne /\ Goto(p, AfterRecovery(p)) /\ UNCHANGED lock
    /\ UNCHANGED <<rowVars, jobVars, target, batch>>

Recover(p) ==
    /\ At(p, "recover")
    /\ SweepAndSettle
    /\ Goto(p, "unlock")
    /\ UNCHANGED <<itemFailed, recorded, jobVars, lock, target, batch, left>>

EndRecovery(p) ==
    /\ At(p, "unlock")
    /\ Unlock(p)
    /\ Goto(p, AfterRecovery(p))
    /\ UNCHANGED <<rowVars, jobVars, target, batch, left>>

-----------------------------------------------------------------------------
(* request_run: three transactions.                                        *)

BeginRequest(c) ==
    /\ c \in Clients
    /\ At(c, "idle")
    /\ Spend("starts")
    /\ Goto(c, "settle")
    /\ UNCHANGED <<rowVars, jobVars, lock, target, batch>>

SettleBeforeRequest(p) ==
    /\ At(p, "settle")
    /\ Settle(In({"awaiting"}))
    /\ Goto(p, "gate")
    /\ UNCHANGED <<error, itemFailed, recorded, jobVars, lock, target, batch, left>>

\* The SELECT gate: PipelineBusy, or on to the insert.
Gate(p) ==
    /\ At(p, "gate")
    /\ IF In(ActiveStatuses) # {}
       THEN Leave(p)
       ELSE Goto(p, "insert") /\ UNCHANGED <<target, batch>>
    /\ UNCHANGED <<rowVars, jobVars, lock, left>>

\* ux_nrb_pipeline_runs_one_active refuses the loser of a race through the gate,
\* who reports the winner; the CLI goes on to execute the run it inserted.
Insert(p) ==
    /\ At(p, "insert")
    /\ \/ /\ In(ActiveStatuses) # {}
          /\ Leave(p)
          /\ UNCHANGED status
       \/ /\ In(ActiveStatuses) = {}
          /\ \E r \in Runs :
              /\ \A q \in Runs : status[q] = "none" <=> q >= r
              /\ status' = [status EXCEPT ![r] = "queued"]
              /\ IF p \in Operators
                 THEN /\ Goto(p, "acquire")
                      /\ target' = [target EXCEPT ![p] = r]
                      /\ UNCHANGED batch
                 ELSE Leave(p)
    /\ UNCHANGED <<error, itemFailed, recorded, frozen, jobVars, lock, left>>

-----------------------------------------------------------------------------
(* execute_run.                                                            *)

\* claim_next reads the oldest queued run; nothing is claimed yet.
ClaimNext(p) ==
    /\ At(p, "poll")
    /\ IF In({"queued"}) = {}
       THEN Leave(p)
       ELSE \E r \in In({"queued"}) :
              /\ \A q \in In({"queued"}) : r <= q
              /\ target' = [target EXCEPT ![p] = r]
              /\ Goto(p, "acquire")
              /\ UNCHANGED batch
    /\ UNCHANGED <<rowVars, jobVars, lock, left>>

\* LockBusy becomes PipelineBusy and the run stays queued.
AcquireLock(p) ==
    /\ At(p, "acquire")
    /\ \/ TryLock(p) /\ Goto(p, "sweep") /\ UNCHANGED <<target, batch>>
       \/ lock # NoOne /\ Leave(p) /\ UNCHANGED lock
    /\ UNCHANGED <<rowVars, jobVars, left>>

\* sweep_abandoned: the counts of a swept run are not frozen.
Sweep(p) ==
    /\ At(p, "sweep")
    /\ status' = [r \in Runs |-> IF status[r] = "running" THEN "failed" ELSE status[r]]
    /\ error' = error \union In({"running"})
    /\ Goto(p, "claim")
    /\ UNCHANGED <<itemFailed, recorded, frozen, jobVars, lock, target, batch, left>>

\* _claim: queued to running, or not this process's work any more.
Claim(p) ==
    /\ At(p, "claim")
    /\ IF status[target[p]] = "queued"
       THEN status' = [status EXCEPT ![target[p]] = "running"] /\ Goto(p, "stage")
       ELSE UNCHANGED status /\ Goto(p, "release")
    /\ UNCHANGED <<error, itemFailed, recorded, frozen, jobVars, lock, target, batch, left>>

\* A stage's _mark_stage: its counters may report item-level failures.
ItemsFail(p) == itemFailed' \in {itemFailed, itemFailed \union {target[p]}}

\* sync, fetch and extract, those the scope names, with what they report; then
\* the RAG stage, the end of a scope without one, or a stage that raised.
RunStages(p) ==
    /\ At(p, "stage")
    /\ ItemsFail(p)
    /\ \E next \in {"enqueue", "close", "give up"} : Goto(p, next)
    /\ UNCHANGED <<status, error, recorded, frozen, jobVars, lock, target, batch, left>>

\* run_rag_enqueue commits each document's job as it goes; the run that asked
\* for it is written down only later.
EnqueueJob(p) ==
    /\ At(p, "enqueue")
    /\ \E j \in Jobs, reason \in Reasons :
        /\ \A k \in Jobs : jobStatus[k] = "none" <=> k >= j
        /\ jobStatus' = [jobStatus EXCEPT ![j] = "queued"]
        /\ enqueuer' = [enqueuer EXCEPT ![j] = target[p]]
        /\ batch' = [batch EXCEPT ![p][reason] = @ \union {j}]
    /\ UNCHANGED <<rowVars, stray, lock, pc, target, left>>

EndEnqueue(p) ==
    /\ At(p, "enqueue")
    /\ \E next \in {"record created", "give up"} : Goto(p, next)
    /\ UNCHANGED <<rowVars, jobVars, lock, target, batch, left>>

\* _record_jobs, once per reason; either insert may raise.
Record(p, reason, here, next) ==
    /\ At(p, here)
    /\ \/ /\ recorded' = [recorded EXCEPT ![target[p]] = @ \union batch[p][reason]]
          /\ Goto(p, next)
       \/ /\ UNCHANGED recorded
          /\ Goto(p, "give up")
    /\ UNCHANGED <<status, error, itemFailed, frozen, jobVars, lock, target, batch, left>>

RecordCreated(p) == Record(p, "created", "record created", "record retried")

\* Mistake: retried jobs are not the run's.
RecordRetriedNot(p) ==
    /\ At(p, "record retried")
    /\ Goto(p, "mark rag")
    /\ UNCHANGED <<rowVars, jobVars, lock, target, batch, left>>

RecordRetried(p) == Record(p, "retried", "record retried", "mark rag")

MarkRag(p) ==
    /\ At(p, "mark rag")
    /\ \/ ItemsFail(p) /\ Goto(p, "close")
       \/ UNCHANGED itemFailed /\ Goto(p, "give up")
    /\ UNCHANGED <<status, error, recorded, frozen, jobVars, lock, target, batch, left>>

\* Staging is done: the worker owns the rest, or nothing was queued and the
\* stage counters alone decide.
Close(p) ==
    /\ At(p, "close")
    /\ LET queued == batch[p]["created"] \union batch[p]["retried"]
       IN  Finish(target[p],
                  IF queued # {} THEN "awaiting"
                  ELSE Verdict(target[p], [s \in JobStates |-> 0]))
    /\ Goto(p, "release")
    /\ UNCHANGED <<error, itemFailed, recorded, jobVars, lock, target, batch, left>>

\* Mistake: the jobs of a failed run are left unfrozen.
GiveUpUnfrozen(p) ==
    /\ At(p, "give up")
    /\ status' = [status EXCEPT ![target[p]] = "failed"]
    /\ error' = error \union {target[p]}
    /\ Goto(p, "release")
    /\ UNCHANGED <<itemFailed, recorded, frozen, jobVars, lock, target, batch, left>>

\* The `except Exception` around the stages.
GiveUp(p) ==
    /\ At(p, "give up")
    /\ Finish(target[p], "failed")
    /\ error' = error \union {target[p]}
    /\ Goto(p, "release")
    /\ UNCHANGED <<itemFailed, recorded, jobVars, lock, target, batch, left>>

\* _finish itself fails: the exception leaves execute_run, the row stays running.
FinishFails(p) ==
    /\ pc[p] \in {"close", "give up"}
    /\ FaultsLeft /\ Spend("errors")
    /\ Goto(p, "release")
    /\ UNCHANGED <<rowVars, jobVars, lock, target, batch>>

EndRun(p) ==
    /\ At(p, "release")
    /\ Unlock(p)
    /\ Leave(p)
    /\ UNCHANGED <<rowVars, jobVars, left>>

-----------------------------------------------------------------------------
(* Everyone else.                                                          *)

\* GET /v1/nrb/runs/{id} and /v1/nrb/status: whoever asks advances the run.
PollStatus ==
    /\ \E r \in In({"awaiting"}) : Settle({r})
    /\ UNCHANGED <<error, itemFailed, recorded, jobVars, procVars, left>>

\* The worker claims a job, and finishes it.
StartJob(j) ==
    /\ jobStatus[j] = "queued"
    /\ jobStatus' = [jobStatus EXCEPT ![j] = "running"]
    /\ UNCHANGED <<rowVars, enqueuer, stray, procVars, left>>

FinishJob(j) ==
    /\ jobStatus[j] = "running"
    /\ \E s \in JobTerminal : jobStatus' = [jobStatus EXCEPT ![j] = s]
    /\ UNCHANGED <<rowVars, enqueuer, stray, procVars, left>>

\* jobs.sweep_stale fails a job whose worker is late but alive; jobs.finish then
\* overwrites that verdict.
SweepStaleJob(j) ==
    /\ jobStatus[j] = "running"
    /\ jobStatus' = [jobStatus EXCEPT ![j] = "failed"]
    /\ stray' = stray \union {j}
    /\ UNCHANGED <<rowVars, enqueuer, procVars, left>>

FinishLate(j) ==
    /\ j \in stray
    /\ \E s \in JobTerminal : jobStatus' = [jobStatus EXCEPT ![j] = s]
    /\ stray' = stray \ {j}
    /\ UNCHANGED <<rowVars, enqueuer, procVars, left>>

\* A process dies.  Its lock dies with its connection; what it had not committed
\* is gone.  A runner is started again.
Crash(p) ==
    /\ pc[p] # "idle"
    /\ FaultsLeft /\ Spend("crashes")
    /\ Unlock(p)
    /\ Leave(p)
    /\ UNCHANGED <<rowVars, jobVars>>

\* The connection that holds the lock drops; the process works on through the
\* pool's other connections.
LoseLock ==
    /\ lock # NoOne
    /\ FaultsLeft /\ Spend("losses")
    /\ lock' = NoOne
    /\ UNCHANGED <<rowVars, jobVars, pc, target, batch>>

-----------------------------------------------------------------------------

Step(p) ==
    \/ BeginRecovery(p) \/ Recover(p) \/ EndRecovery(p)
    \/ BeginRequest(p) \/ SettleBeforeRequest(p) \/ Gate(p) \/ Insert(p)
    \/ ClaimNext(p) \/ AcquireLock(p) \/ Sweep(p) \/ Claim(p)
    \/ RunStages(p) \/ EnqueueJob(p) \/ EndEnqueue(p)
    \/ RecordCreated(p) \/ RecordRetried(p) \/ MarkRag(p)
    \/ Close(p) \/ GiveUp(p) \/ EndRun(p)

JobStep(j) == StartJob(j) \/ FinishJob(j) \/ SweepStaleJob(j) \/ FinishLate(j)

Next ==
    \/ \E p \in Procs : Step(p) \/ FinishFails(p) \/ Crash(p)
    \/ \E j \in Jobs : JobStep(j)
    \/ PollStatus
    \/ LoseLock

Spec == Init /\ [][Next]_vars

\* A process that holds or may take the lock keeps going, and the ingest worker
\* drains its queue; nobody polls a run, no request has to come or to go on.
FairSpec ==
    /\ Spec
    /\ \A p \in Runners \union Operators : WF_vars(Step(p))
    /\ \A j \in Jobs : WF_vars(StartJob(j) \/ FinishJob(j))

-----------------------------------------------------------------------------
(* Properties.                                                             *)

\* At most one update is in progress, whatever the interleaving of requests,
\* claims and sweeps (ux_nrb_pipeline_runs_one_active).
OneActiveRun ==
    \A q, r \in Runs :
        status[q] \in ActiveStatuses /\ status[r] \in ActiveStatuses => q = r

\* No lock connection has dropped under a live holder so far.
LockHolds == left["losses"] = MaxLockLosses

\* While every lock connection has held, the run a process is staging is still
\* `running`, and no other process is staging at all: no sweep condemns a live
\* orchestrator.
SweepSparesTheLiving ==
    LockHolds =>
        \A p \in Procs : pc[p] \in Staging =>
            /\ status[target[p]] = "running"
            /\ \A q \in Procs \ {p} : pc[q] \notin Staging

\* A run that reached awaiting_jobs or a verdict other than `failed` counts
\* every job it enqueued: nothing it caused is attributed to nobody.
JobsAreAttributed ==
    \A r \in In({"awaiting", "succeeded", "partial"}) :
        \A j \in Jobs : enqueuer[j] = r => j \in recorded[r]

\* A verdict is only given over finished jobs, and agrees with the counts it
\* was frozen with: `succeeded` hides no failure, `partial` had both.
VerdictIsEarned ==
    \A r \in In({"succeeded", "partial"}) :
        /\ frozen[r] # Unset
        /\ frozen[r]["queued"] = 0 /\ frozen[r]["running"] = 0
        /\ status[r] = "succeeded" => frozen[r]["failed"] = 0 /\ r \notin itemFailed
        /\ status[r] = "partial" =>
             frozen[r]["succeeded"] > 0 /\ (frozen[r]["failed"] > 0 \/ r \in itemFailed)

\* A run that has a verdict keeps it, and one whose counts were frozen keeps
\* reporting them, whatever its jobs and later runs do, while every lock
\* connection has held.
HistoryStands ==
    [][LockHolds' =>
          \A r \in In(TerminalStatuses) :
              /\ status'[r] = status[r]
              /\ frozen[r] # Unset => Report(r)' = Report(r)]_vars

\* While every lock connection has held, a run whose orchestrator lives to close
\* it leaves `running` either to wait for its jobs or with its counts frozen,
\* though some be still in flight.
LivingRunClosesFrozen ==
    [][LockHolds' =>
          \A p \in Procs :
              /\ pc[p] \in Staging
              /\ status[target[p]] = "running"
              /\ status'[target[p]] \in TerminalStatuses
              => frozen'[target[p]] # Unset]_vars

\* Every accepted run ends: a dead orchestrator, a run nobody polls or a busy
\* lock never keeps the one active slot for good.
EveryRunEnds ==
    \A r \in Runs : status[r] \in ActiveStatuses ~> status[r] \in TerminalStatuses
=============================================================================

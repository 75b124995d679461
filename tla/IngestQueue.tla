---------------------------- MODULE IngestQueue ----------------------------
(***************************************************************************)
(* The ingest queue of app/rag and the worker processes that drain it,     *)
(* with the supersession rule of app/nrb/supersession.py and the operator  *)
(* passes that re-queue documents.                                         *)
(*                                                                         *)
(* The shared state is three PostgreSQL tables: documents, document_chunks *)
(* and ingest_jobs.  One action is one committed transaction; whatever a   *)
(* process remembers between two of its transactions (the job a worker     *)
(* holds, the ids a pass selected) is a variable, because other processes  *)
(* commit in between.                                                      *)
(***************************************************************************)
EXTENDS Versions, FiniteSets

CONSTANTS
    Workers,         \* rag.worker processes
    ContentOf,       \* content_hash of each document
    MaxJobs,         \* bound on ingest_jobs rows
    MaxCrashes,      \* bound on worker deaths
    MaxFaults,       \* bound on lapses of a live worker and aborted iterations
    RetryPasses,     \* how many --retry-failed passes may run
    ReingestPasses   \* how many reingest passes may run

ASSUME IngestAssumption ==
    /\ MaxJobs \in Nat /\ MaxCrashes \in Nat /\ MaxFaults \in Nat
    /\ RetryPasses \in Nat /\ ReingestPasses \in Nat

VARIABLES
    docStatus,    \* documents.status; "none" while the row does not exist
    indexed,      \* documents that have rows in document_chunks
    jobStatus,    \* ingest_jobs.status; "none" while the row does not exist
    jobDoc,       \* ingest_jobs.document_id; NoDoc while the row does not exist
    lapsed,       \* running jobs whose heartbeat_at is past the stale cutoff
    pc,           \* where each worker is in run_once
    held,         \* the job a worker is processing
    retrySel,     \* ids a --retry-failed pass selected and has yet to requeue
    reingestSel,  \* ids a reingest pass listed and has yet to queue
    left          \* what remains of each bound

rows == <<docStatus, indexed, jobStatus, jobDoc, lapsed>>
passes == <<retrySel, reingestSel>>
vars == <<docStatus, indexed, jobStatus, jobDoc, lapsed, pc, held,
          retrySel, reingestSel, left>>

Jobs == 1..MaxJobs
NoJob == 0
NoDoc == 0

Active == {"queued", "running"}
Terminal == {"succeeded", "failed"}
Live == {"pending", "ready", "failed"}
DocStatuses == Live \union {"none", "archived"}
JobStatuses == Active \union Terminal \union {"none"}
Stations == {"poll", "claim", "work", "succeed", "fail", "down"}
Bounds == {"crashes", "faults", "retries", "reingests"}

TypeOK ==
    /\ docStatus \in [Docs -> DocStatuses]
    /\ indexed \subseteq Docs
    /\ jobStatus \in [Jobs -> JobStatuses]
    /\ jobDoc \in [Jobs -> Docs \union {NoDoc}]
    /\ \A j \in Jobs : jobStatus[j] = "none" <=> jobDoc[j] = NoDoc
    /\ lapsed \subseteq {j \in Jobs : jobStatus[j] = "running"}
    /\ pc \in [Workers -> Stations]
    /\ held \in [Workers -> Jobs \union {NoJob}]
    /\ retrySel \subseteq Docs
    /\ reingestSel \subseteq Docs
    /\ left \in [Bounds -> Nat]

Init ==
    /\ docStatus = [d \in Docs |-> "none"]
    /\ indexed = {}
    /\ jobStatus = [j \in Jobs |-> "none"]
    /\ jobDoc = [j \in Jobs |-> NoDoc]
    /\ lapsed = {}
    /\ pc = [w \in Workers |-> "poll"]
    /\ held = [w \in Workers |-> NoJob]
    /\ retrySel = {}
    /\ reingestSel = {}
    /\ left = [b \in Bounds |->
                 CASE b = "crashes" -> MaxCrashes
                   [] b = "faults" -> MaxFaults
                   [] b = "retries" -> RetryPasses
                   [] b = "reingests" -> ReingestPasses]

Spend(b) == left[b] > 0 /\ left' = [left EXCEPT ![b] = @ - 1]

-----------------------------------------------------------------------------
(* Rows.                                                                   *)

ActiveJobs(d) == {j \in Jobs : jobDoc[j] = d /\ jobStatus[j] \in Active}

\* ux_documents_active_content: the other rows that keep d's bytes taken.
ContentTwins(d) ==
    {e \in Docs \ {d} : ContentOf[e] = ContentOf[d] /\ docStatus[e] \in Live}

\* jobs.enqueue: ux_ingest_jobs_active_document refuses a second active job.
Enqueue(d) ==
    /\ ActiveJobs(d) = {}
    /\ \E j \in Jobs :
        /\ \A k \in Jobs : jobStatus[k] = "none" <=> k >= j
        /\ jobStatus' = [jobStatus EXCEPT ![j] = "queued"]
        /\ jobDoc' = [jobDoc EXCEPT ![j] = d]

\* Mistake: the sweep forgets the document.
DemoteNothing(status) == status

\* The demotion rule of _record_failure and sweep_stale.
Demoted(status) == IF status \in {"ready", "archived"} THEN status ELSE "failed"

\* Mistake: a failed job goes back to the queue.
FinishRequeuing(j, status) ==
    /\ jobStatus' = [jobStatus EXCEPT ![j] =
                        IF status = "failed" THEN "queued" ELSE status]
    /\ lapsed' = lapsed \ {j}

\* jobs.finish writes the status whatever the row held before.
FinishJob(j, status) ==
    /\ jobStatus' = [jobStatus EXCEPT ![j] = status]
    /\ lapsed' = lapsed \ {j}

-----------------------------------------------------------------------------
(* The API and the NRB driver.                                             *)

\* upload_document / create_text_document / create_ingest_targets: the row and
\* its first job commit together.  Only the driver mints the versions of a
\* source, in observation order.
CreateDocument(d) ==
    /\ docStatus[d] = "none"
    /\ \A e \in Newer(d) : docStatus[e] = "none"
    /\ ContentTwins(d) = {}
    /\ docStatus' = [docStatus EXCEPT ![d] = "pending"]
    /\ Enqueue(d)
    /\ UNCHANGED <<indexed, lapsed, pc, held, passes, left>>

\* Mistake: the chunks stay behind.
ArchiveKeepingChunks(d) ==
    /\ docStatus[d] # "none"
    /\ docStatus' = [docStatus EXCEPT ![d] = "archived"]
    /\ UNCHANGED <<indexed, jobStatus, jobDoc, lapsed, pc, held, passes, left>>

\* DELETE .../documents/{id}: chunks go, the row stays, whatever its status was.
ArchiveDocument(d) ==
    /\ docStatus[d] # "none"
    /\ docStatus' = [docStatus EXCEPT ![d] = "archived"]
    /\ indexed' = indexed \ {d}
    /\ UNCHANGED <<jobStatus, jobDoc, lapsed, pc, held, passes, left>>

-----------------------------------------------------------------------------
(* Operator passes: ids are selected in one transaction and acted on, one  *)
(* transaction each, later.                                                *)

SelectRetryTargets ==
    /\ retrySel = {}
    /\ Spend("retries")
    /\ retrySel' = {d \in Docs : /\ docStatus[d] = "failed"
                                 /\ SourceOf[d] # NoSource
                                 /\ ActiveJobs(d) = {}}
    /\ UNCHANGED <<rows, pc, held, reingestSel>>

\* requeue_failed, one target: the job and status = 'pending', no re-check.
RequeueFailed(d) ==
    /\ d \in retrySel
    /\ ContentTwins(d) = {}
    /\ Enqueue(d)
    /\ docStatus' = [docStatus EXCEPT ![d] = "pending"]
    /\ retrySel' = retrySel \ {d}
    /\ UNCHANGED <<indexed, lapsed, pc, held, reingestSel, left>>

\* requeue_failed, one target: JobConflict, or the unique index on content
\* refusing the row back; the transaction is rolled back and counted.
RequeueRefused(d) ==
    /\ d \in retrySel
    /\ ActiveJobs(d) # {} \/ ContentTwins(d) # {}
    /\ retrySel' = retrySel \ {d}
    /\ UNCHANGED <<rows, pc, held, reingestSel, left>>

ListForReingest ==
    /\ reingestSel = {}
    /\ Spend("reingests")
    /\ reingestSel' = {d \in Docs : docStatus[d] \in Live}
    /\ UNCHANGED <<rows, pc, held, retrySel>>

ReingestQueues(d) ==
    /\ d \in reingestSel
    /\ Enqueue(d)
    /\ reingestSel' = reingestSel \ {d}
    /\ UNCHANGED <<docStatus, indexed, lapsed, pc, held, retrySel, left>>

\* reingest, one document: JobConflict counts as skipped.
ReingestSkips(d) ==
    /\ d \in reingestSel
    /\ ActiveJobs(d) # {}
    /\ reingestSel' = reingestSel \ {d}
    /\ UNCHANGED <<rows, pc, held, retrySel, left>>

-----------------------------------------------------------------------------
(* The worker: run_once and process_job.                                   *)

Goto(w, station, j) ==
    /\ pc' = [pc EXCEPT ![w] = station]
    /\ held' = [held EXCEPT ![w] = j]

\* run_once, first transaction: sweep_stale fails every lapsed job, whoever
\* holds it, and demotes its document.
SweepStale(w) ==
    /\ pc[w] = "poll"
    /\ jobStatus' = [j \in Jobs |-> IF j \in lapsed THEN "failed" ELSE jobStatus[j]]
    /\ docStatus' = [d \in Docs |-> IF \E j \in lapsed : jobDoc[j] = d
                                    THEN Demoted(docStatus[d])
                                    ELSE docStatus[d]]
    /\ lapsed' = {}
    /\ Goto(w, "claim", NoJob)
    /\ UNCHANGED <<indexed, jobDoc, passes, left>>

\* run_once, second transaction: claim_next takes the oldest queued job.
Claim(w) ==
    /\ pc[w] = "claim"
    /\ \E j \in Jobs :
        /\ jobStatus[j] = "queued"
        /\ \A k \in Jobs : jobStatus[k] = "queued" => j <= k
        /\ jobStatus' = [jobStatus EXCEPT ![j] = "running"]
        /\ Goto(w, "work", j)
    /\ UNCHANGED <<docStatus, indexed, jobDoc, lapsed, passes, left>>

ClaimNothing(w) ==
    /\ pc[w] = "claim"
    /\ \A j \in Jobs : jobStatus[j] # "queued"
    /\ Goto(w, "poll", NoJob)
    /\ UNCHANGED <<rows, passes, left>>

\* _heartbeat_loop: one beat while the job is being processed.
Heartbeat(w) ==
    /\ pc[w] = "work"
    /\ held[w] \in lapsed
    /\ lapsed' = lapsed \ {held[w]}
    /\ UNCHANGED <<docStatus, indexed, jobStatus, jobDoc, pc, held, passes, left>>

\* Mistake: a newer candidate already wins.
SupersededByCandidate(d) == \E e \in Newer(d) : docStatus[e] \in Live

\* plan_promotion, under the sibling lock: a newer version is already ready.
SupersededOnArrival(d) == \E e \in Newer(d) : docStatus[e] = "ready"

\* Mistakes: no older version is archived; only the one being served is.
SupersedesNothing(d) == {}
SupersedesServing(d) == {e \in Older(d) : docStatus[e] = "ready"}

\* promote: every older version that is not archived is archived with its chunks.
Supersedes(d) == {e \in Older(d) : docStatus[e] \in Live}

\* documents after d reaches status s and the versions it supersedes go.
Settled(d, s) ==
    [e \in Docs |-> IF e = d THEN s
                   ELSE IF e \in Supersedes(d) THEN "archived"
                   ELSE docStatus[e]]

\* _activate: promote and replace_chunks in one transaction.
Activate(w) ==
    LET d == jobDoc[held[w]] IN
    /\ pc[w] = "work"
    /\ docStatus[d] \in Live
    /\ ~SupersededOnArrival(d)
    /\ docStatus' = Settled(d, "ready")
    /\ indexed' = (indexed \ Supersedes(d)) \union {d}
    /\ Goto(w, "succeed", held[w])
    /\ UNCHANGED <<jobStatus, jobDoc, lapsed, passes, left>>

\* _activate, the lost case: promote has archived the older versions, then
\* archive_self retires this one; the job still succeeds.
ArchiveSelf(w) ==
    LET d == jobDoc[held[w]] IN
    /\ pc[w] = "work"
    /\ docStatus[d] \in Live
    /\ SupersededOnArrival(d)
    /\ docStatus' = Settled(d, "archived")
    /\ indexed' = indexed \ (Supersedes(d) \union {d})
    /\ Goto(w, "succeed", held[w])
    /\ UNCHANGED <<jobStatus, jobDoc, lapsed, passes, left>>

\* Anything raised inside process_job's try: parsing, embedding, DocumentGone
\* for a document archived meanwhile, a refused or rolled back _activate.
ProcessingFails(w) ==
    /\ pc[w] = "work"
    /\ Goto(w, "fail", held[w])
    /\ UNCHANGED <<rows, passes, left>>

\* The connection drops after _activate committed: the commit raises.
OutcomeLost(w) ==
    /\ pc[w] = "succeed"
    /\ Spend("faults")
    /\ Goto(w, "fail", held[w])
    /\ UNCHANGED <<rows, passes>>

FinishSucceeded(w) ==
    /\ pc[w] = "succeed"
    /\ FinishJob(held[w], "succeeded")
    /\ Goto(w, "poll", NoJob)
    /\ UNCHANGED <<docStatus, indexed, jobDoc, passes, left>>

RecordFailure(w) ==
    /\ pc[w] = "fail"
    /\ docStatus' = [docStatus EXCEPT ![jobDoc[held[w]]] = Demoted(@)]
    /\ FinishJob(held[w], "failed")
    /\ Goto(w, "poll", NoJob)
    /\ UNCHANGED <<indexed, jobDoc, passes, left>>

\* main's catch-all: _snapshot_document, finish or _record_failure raised. The
\* worker polls again and the job stays running without an owner.
AbortIteration(w) ==
    /\ held[w] # NoJob
    /\ Spend("faults")
    /\ Goto(w, "poll", NoJob)
    /\ UNCHANGED <<rows, passes>>

-----------------------------------------------------------------------------
(* The environment.                                                        *)

\* The stale cutoff passes the job's last beat.  No bound is spent when nobody
\* holds the job; a held one lapses only if its worker is starved.
BeatLapses(j) ==
    /\ jobStatus[j] = "running"
    /\ j \notin lapsed
    /\ \A w \in Workers : held[w] # j
    /\ lapsed' = lapsed \union {j}
    /\ UNCHANGED <<docStatus, indexed, jobStatus, jobDoc, pc, held, passes, left>>

LiveBeatLapses(w) ==
    /\ held[w] # NoJob
    /\ jobStatus[held[w]] = "running"
    /\ held[w] \notin lapsed
    /\ Spend("faults")
    /\ lapsed' = lapsed \union {held[w]}
    /\ UNCHANGED <<docStatus, indexed, jobStatus, jobDoc, pc, held, passes>>

Crash(w) ==
    /\ pc[w] # "down"
    /\ Spend("crashes")
    /\ Goto(w, "down", NoJob)
    /\ UNCHANGED <<rows, passes>>

\* restart: unless-stopped.
Restart(w) ==
    /\ pc[w] = "down"
    /\ Goto(w, "poll", NoJob)
    /\ UNCHANGED <<rows, passes, left>>

-----------------------------------------------------------------------------

WorkerStep(w) ==
    \/ SweepStale(w) \/ Claim(w) \/ ClaimNothing(w)
    \/ Activate(w) \/ ArchiveSelf(w) \/ ProcessingFails(w)
    \/ FinishSucceeded(w) \/ RecordFailure(w) \/ Restart(w)

WorkerFault(w) ==
    OutcomeLost(w) \/ AbortIteration(w) \/ LiveBeatLapses(w) \/ Crash(w)

DocumentStep(d) ==
    \/ CreateDocument(d) \/ ArchiveDocument(d)
    \/ RequeueFailed(d) \/ RequeueRefused(d)
    \/ ReingestQueues(d) \/ ReingestSkips(d)

Next ==
    \/ \E d \in Docs : DocumentStep(d)
    \/ SelectRetryTargets
    \/ ListForReingest
    \/ \E w \in Workers : WorkerStep(w) \/ Heartbeat(w) \/ WorkerFault(w)
    \/ \E j \in Jobs : BeatLapses(j)

Spec == Init /\ [][Next]_vars

\* Workers keep polling and are restarted; a beat nobody renews goes stale.
\* Nothing obliges a user, an operator or a fault to act.
FairSpec ==
    /\ Spec
    /\ \A w \in Workers : WF_vars(WorkerStep(w))
    /\ \A j \in Jobs : WF_vars(BeatLapses(j))

-----------------------------------------------------------------------------
(* Properties.                                                             *)

\* A pending document always has a job that can still settle it: no sequence
\* of crashes, sweeps, late finishes and retries strands it (jobs.sweep_stale
\* demotes documents for exactly this).
PendingHasActiveJob ==
    \A d \in Docs : docStatus[d] = "pending" => ActiveJobs(d) # {}

\* ux_ingest_jobs_active_document: a document never has two active jobs, even
\* when a worker that was swept is still at work on the first.
OneActiveJobPerDocument ==
    \A j, k \in Jobs :
        /\ jobStatus[j] \in Active /\ jobStatus[k] \in Active
        /\ jobDoc[j] = jobDoc[k]
        => j = k

\* The chunks and the status that retrieval filters on agree: what is ready is
\* searchable and what is archived has left the index, whichever of several
\* workers and editors wrote last.
IndexMatchesStatus ==
    \A d \in Docs : /\ docStatus[d] = "ready" => d \in indexed
                    /\ docStatus[d] = "archived" => d \notin indexed

\* ux_documents_nrb_current_source never has to fire: at most one version of a
\* source is ready, in whatever order its versions finish.
OneCurrentVersion ==
    \A d \in Docs : docStatus[d] = "ready" =>
        \A e \in Siblings(d) : docStatus[e] # "ready"

\* Succession never goes back: once a version has been ready, every older one
\* is archived for good.  Holds of runs without --retry-failed.
SuccessionForward ==
    \A d \in Docs : docStatus[d] = "ready" =>
        \A e \in Older(d) : docStatus[e] \in {"none", "archived"}

\* "B fails at any stage => A is still searchable": a document stops being
\* ready only when an editor archives it or in the very step that makes a newer
\* version ready.  Holds of runs without --retry-failed.
ServingKept ==
    [][\A d \in Docs : docStatus[d] = "ready" /\ docStatus'[d] # "ready" =>
          \/ ArchiveDocument(d)
          \/ \E e \in Newer(d) : docStatus'[e] = "ready"]_vars

\* An archived document is out for good: no job in flight and no worker that
\* lost its claim brings it back.  Holds of runs without --retry-failed.
ArchivedIsFinal ==
    [][\A d \in Docs : docStatus[d] = "archived" => docStatus'[d] = "archived"]_vars

\* Every queued job is eventually over, and every pending document eventually
\* served, failed or archived, through crashes and lost claims.
QueueDrains ==
    /\ \A j \in Jobs : jobStatus[j] = "queued" ~> jobStatus[j] \in Terminal
    /\ \A d \in Docs : docStatus[d] = "pending" ~> docStatus[d] # "pending"

\* The stage of each version in the promise SourceLifecycle makes.
life ==
    [d \in Docs |-> IF docStatus[d] = "none" THEN "absent"
                   ELSE IF docStatus[d] = "ready" THEN "current"
                   ELSE IF docStatus[d] = "archived" THEN "retired"
                   ELSE "candidate"]

Lifecycle == INSTANCE SourceLifecycle WITH life <- life

\* The queue implements the promised lifecycle of a source's versions.  Holds of
\* runs without --retry-failed.
ImplementsLifecycle == Lifecycle!LifecycleSpec
=============================================================================

------------------------- MODULE IngestQueueProofs -------------------------
(***************************************************************************)
(* Theorems about IngestQueue, for every set of documents and workers and  *)
(* every value of its bounds.                                              *)
(***************************************************************************)
EXTENDS IngestQueue, TLAPS

\* A worker remembers a job exactly while it is processing one, and that job
\* has left the queue.
HeldOK ==
    \A w \in Workers :
        IF pc[w] \in {"work", "succeed", "fail"}
        THEN /\ held[w] \in Jobs
             /\ jobStatus[held[w]] \in {"running", "succeeded", "failed"}
        ELSE held[w] = NoJob

\* A worker about to report success has settled its document, unless its job
\* has been swept in the meantime.
PublishedBeforeSuccess ==
    \A w \in Workers :
        pc[w] = "succeed" /\ jobStatus[held[w]] = "running" =>
            docStatus[jobDoc[held[w]]] \in {"ready", "archived"}

Typing == TypeOK /\ HeldOK

\* Row j is inserted as d's queued job.
Enqueues(j, d) ==
    /\ jobStatus[j] = "none"
    /\ jobStatus' = [jobStatus EXCEPT ![j] = "queued"]
    /\ jobDoc' = [jobDoc EXCEPT ![j] = d]

LEMMA EnqueueTakesFreshRow ==
    ASSUME NEW d \in Docs, Enqueue(d)
    PROVE  \E j \in Jobs : Enqueues(j, d)
  <1>1. PICK j \in Jobs :
            /\ \A k \in Jobs : jobStatus[k] = "none" <=> k >= j
            /\ jobStatus' = [jobStatus EXCEPT ![j] = "queued"]
            /\ jobDoc' = [jobDoc EXCEPT ![j] = d]
    BY DEF Enqueue
  <1>2. j >= j
    BY <1>1, IngestAssumption DEF Jobs
  <1>3. jobStatus[j] = "none"
    BY <1>1, <1>2
  <1>4. QED
    BY <1>1, <1>3 DEF Enqueues

LEMMA SettledIsTyped ==
    ASSUME TypeOK, NEW d \in Docs, NEW s \in DocStatuses
    PROVE  Settled(d, s) \in [Docs -> DocStatuses]
  BY DEF TypeOK, Settled, DocStatuses

LEMMA TypingInit == Init => Typing
  <1>1. 0 \notin Jobs  BY IngestAssumption DEF Jobs
  <1>2. QED
    BY <1>1, IngestAssumption DEF Init, Typing, TypeOK, HeldOK, Jobs, NoJob, NoDoc,
        DocStatuses, JobStatuses, Stations, Bounds, Active, Terminal, Live

LEMMA TypingNext == Typing /\ [Next]_vars => Typing'
  <1> SUFFICES ASSUME Typing, [Next]_vars PROVE Typing'
    OBVIOUS
  <1> USE DEF Typing, TypeOK, HeldOK, NoJob, NoDoc, DocStatuses, JobStatuses, Stations,
        Bounds, Active, Terminal, Live, rows, passes
  <1> USE VersionsAssumption
  <1>0. 0 \notin Jobs /\ 0 \notin Docs
    BY IngestAssumption DEF Jobs
  <1>1. ASSUME NEW d \in Docs, CreateDocument(d) PROVE Typing'
    <2>1. PICK j \in Jobs : Enqueues(j, d)
      BY <1>1, EnqueueTakesFreshRow DEF CreateDocument
    <2>2. QED
      BY <1>0, <1>1, <2>1 DEF CreateDocument, Enqueues
  <1>2. ASSUME NEW d \in Docs, ArchiveDocument(d) PROVE Typing'
    BY <1>2 DEF ArchiveDocument
  <1>3. CASE SelectRetryTargets
    BY <1>3 DEF SelectRetryTargets, Spend
  <1>4. ASSUME NEW d \in Docs, RequeueFailed(d) PROVE Typing'
    <2>1. PICK j \in Jobs : Enqueues(j, d)
      BY <1>4, EnqueueTakesFreshRow DEF RequeueFailed
    <2>2. QED
      BY <1>0, <1>4, <2>1 DEF RequeueFailed, Enqueues
  <1>5. ASSUME NEW d \in Docs, RequeueRefused(d) PROVE Typing'
    BY <1>5 DEF RequeueRefused
  <1>6. CASE ListForReingest
    BY <1>6 DEF ListForReingest, Spend
  <1>7. ASSUME NEW d \in Docs, ReingestQueues(d) PROVE Typing'
    <2>1. PICK j \in Jobs : Enqueues(j, d)
      BY <1>7, EnqueueTakesFreshRow DEF ReingestQueues
    <2>2. QED
      BY <1>0, <1>7, <2>1 DEF ReingestQueues, Enqueues
  <1>8. ASSUME NEW d \in Docs, ReingestSkips(d) PROVE Typing'
    BY <1>8 DEF ReingestSkips
  <1>9. ASSUME NEW w \in Workers, SweepStale(w) PROVE Typing'
    BY <1>0, <1>9 DEF SweepStale, Goto, Demoted
  <1>10. ASSUME NEW w \in Workers, Claim(w) PROVE Typing'
    BY <1>0, <1>10 DEF Claim, Goto
  <1>11. ASSUME NEW w \in Workers, ClaimNothing(w) PROVE Typing'
    BY <1>0, <1>11 DEF ClaimNothing, Goto
  <1>12. ASSUME NEW w \in Workers, Activate(w) PROVE Typing'
    <2>1. jobDoc[held[w]] \in Docs /\ docStatus' = Settled(jobDoc[held[w]], "ready")
      BY <1>0, <1>12 DEF Activate
    <2>2. docStatus' \in [Docs -> DocStatuses]
      BY <2>1, SettledIsTyped
    <2>3. indexed' \subseteq Docs
      BY <2>1, <1>12 DEF Activate
    <2>4. QED
      BY <1>0, <1>12, <2>2, <2>3 DEF Activate, Goto
  <1>13. ASSUME NEW w \in Workers, ArchiveSelf(w) PROVE Typing'
    <2>1. jobDoc[held[w]] \in Docs /\ docStatus' = Settled(jobDoc[held[w]], "archived")
      BY <1>0, <1>13 DEF ArchiveSelf
    <2>2. docStatus' \in [Docs -> DocStatuses]
      BY <2>1, SettledIsTyped
    <2>3. QED
      BY <1>0, <1>13, <2>2 DEF ArchiveSelf, Goto
  <1>14. ASSUME NEW w \in Workers, ProcessingFails(w) PROVE Typing'
    BY <1>0, <1>14 DEF ProcessingFails, Goto
  <1>15. ASSUME NEW w \in Workers, FinishSucceeded(w) PROVE Typing'
    BY <1>0, <1>15 DEF FinishSucceeded, FinishJob, Goto
  <1>16. ASSUME NEW w \in Workers, RecordFailure(w) PROVE Typing'
    BY <1>0, <1>16 DEF RecordFailure, FinishJob, Goto, Demoted
  <1>17. ASSUME NEW w \in Workers, Restart(w) PROVE Typing'
    BY <1>0, <1>17 DEF Restart, Goto
  <1>18. ASSUME NEW w \in Workers, Heartbeat(w) PROVE Typing'
    BY <1>0, <1>18 DEF Heartbeat
  <1>19. ASSUME NEW w \in Workers, OutcomeLost(w) PROVE Typing'
    BY <1>0, <1>19 DEF OutcomeLost, Goto, Spend
  <1>20. ASSUME NEW w \in Workers, AbortIteration(w) PROVE Typing'
    BY <1>0, <1>20 DEF AbortIteration, Goto, Spend
  <1>21. ASSUME NEW w \in Workers, LiveBeatLapses(w) PROVE Typing'
    BY <1>0, <1>21 DEF LiveBeatLapses, Spend
  <1>22. ASSUME NEW w \in Workers, Crash(w) PROVE Typing'
    BY <1>0, <1>22 DEF Crash, Goto, Spend
  <1>23. ASSUME NEW j \in Jobs, BeatLapses(j) PROVE Typing'
    BY <1>23 DEF BeatLapses
  <1>24. CASE UNCHANGED vars
    BY <1>24 DEF vars
  <1>25. QED
    BY <1>1, <1>2, <1>3, <1>4, <1>5, <1>6, <1>7, <1>8, <1>9, <1>10, <1>11, <1>12,
       <1>13, <1>14, <1>15, <1>16, <1>17, <1>18, <1>19, <1>20, <1>21, <1>22, <1>23, <1>24
    DEF Next, DocumentStep, WorkerStep, WorkerFault

\* The rows, the workers' memories and the selections always have their types.
THEOREM TypeCorrect == Spec => []TypeOK
  <1>1. Spec => []Typing
    BY TypingInit, TypingNext, PTL DEF Spec
  <1>2. QED
    BY <1>1, PTL DEF Typing

-----------------------------------------------------------------------------
(* Which steps touch the documents, and which the jobs.                    *)

LEMMA DocumentWriters ==
    ASSUME [Next]_vars
    PROVE  \/ UNCHANGED <<docStatus, indexed>>
           \/ \E d \in Docs :
                 CreateDocument(d) \/ ArchiveDocument(d) \/ RequeueFailed(d)
           \/ \E w \in Workers :
                 SweepStale(w) \/ Activate(w) \/ ArchiveSelf(w) \/ RecordFailure(w)
  BY DEF Next, DocumentStep, WorkerStep, WorkerFault, vars, rows, RequeueRefused,
       ReingestQueues, ReingestSkips, SelectRetryTargets, ListForReingest, Claim,
       ClaimNothing, ProcessingFails, FinishSucceeded, Restart, Heartbeat, OutcomeLost,
       AbortIteration, LiveBeatLapses, Crash, BeatLapses

LEMMA JobWriters ==
    ASSUME [Next]_vars
    PROVE  \/ UNCHANGED <<jobStatus, jobDoc>>
           \/ \E d \in Docs : CreateDocument(d) \/ RequeueFailed(d) \/ ReingestQueues(d)
           \/ \E w \in Workers :
                 SweepStale(w) \/ Claim(w) \/ FinishSucceeded(w) \/ RecordFailure(w)
  BY DEF Next, DocumentStep, WorkerStep, WorkerFault, vars, rows, RequeueRefused,
       ArchiveDocument, ReingestSkips, SelectRetryTargets, ListForReingest, Activate,
       ArchiveSelf, ClaimNothing, ProcessingFails, Restart, Heartbeat, OutcomeLost,
       AbortIteration, LiveBeatLapses, Crash, BeatLapses

-----------------------------------------------------------------------------
(* One active job per document.                                            *)

LEMMA OneActiveNext ==
    ASSUME Typing, OneActiveJobPerDocument, [Next]_vars
    PROVE  OneActiveJobPerDocument'
  <1> USE DEF Typing, TypeOK, HeldOK, OneActiveJobPerDocument, Active
  <1>1. CASE UNCHANGED <<jobStatus, jobDoc>>
    BY <1>1
  <1>2. ASSUME NEW d \in Docs, Enqueue(d) PROVE OneActiveJobPerDocument'
    <2>1. PICK j \in Jobs : Enqueues(j, d)
      BY <1>2, EnqueueTakesFreshRow
    <2>2. \A k \in Jobs : jobDoc[k] = d => jobStatus[k] \notin Active
      BY <1>2 DEF Enqueue, ActiveJobs
    <2>3. QED
      BY <2>1, <2>2 DEF Enqueues
  <1>3. ASSUME NEW w \in Workers, SweepStale(w) PROVE OneActiveJobPerDocument'
    BY <1>3 DEF SweepStale
  <1>4. ASSUME NEW w \in Workers, Claim(w) PROVE OneActiveJobPerDocument'
    BY <1>4 DEF Claim
  <1>5. ASSUME NEW w \in Workers, FinishSucceeded(w) PROVE OneActiveJobPerDocument'
    BY <1>5 DEF FinishSucceeded, FinishJob
  <1>6. ASSUME NEW w \in Workers, RecordFailure(w) PROVE OneActiveJobPerDocument'
    BY <1>6 DEF RecordFailure, FinishJob
  <1>7. QED
    BY <1>1, <1>2, <1>3, <1>4, <1>5, <1>6, JobWriters
    DEF CreateDocument, RequeueFailed, ReingestQueues

\* ux_ingest_jobs_active_document is never about to be violated by a status
\* write: only enqueue can meet it, and it does so before the row exists.
THEOREM OneActiveJob == Spec => []OneActiveJobPerDocument
  <1>1. Init => OneActiveJobPerDocument
    BY DEF Init, OneActiveJobPerDocument, Active
  <1>2. Typing /\ OneActiveJobPerDocument /\ [Next]_vars => OneActiveJobPerDocument'
    BY OneActiveNext
  <1>3. QED
    BY <1>1, <1>2, TypingInit, TypingNext, PTL DEF Spec

-----------------------------------------------------------------------------
(* The index and the status agree.                                         *)

LEMMA IndexNext ==
    ASSUME Typing, IndexMatchesStatus, [Next]_vars
    PROVE  IndexMatchesStatus'
  <1> USE DEF Typing, TypeOK, HeldOK, IndexMatchesStatus
  <1>1. CASE UNCHANGED <<docStatus, indexed>>
    BY <1>1
  <1>2. ASSUME NEW d \in Docs, CreateDocument(d) PROVE IndexMatchesStatus'
    BY <1>2 DEF CreateDocument
  <1>3. ASSUME NEW d \in Docs, ArchiveDocument(d) PROVE IndexMatchesStatus'
    BY <1>3 DEF ArchiveDocument
  <1>4. ASSUME NEW d \in Docs, RequeueFailed(d) PROVE IndexMatchesStatus'
    BY <1>4 DEF RequeueFailed
  <1>5. ASSUME NEW w \in Workers, SweepStale(w) PROVE IndexMatchesStatus'
    BY <1>5 DEF SweepStale, Demoted
  <1>6. ASSUME NEW w \in Workers, Activate(w) PROVE IndexMatchesStatus'
    BY <1>6 DEF Activate, Settled, Supersedes, Older, Siblings
  <1>7. ASSUME NEW w \in Workers, ArchiveSelf(w) PROVE IndexMatchesStatus'
    BY <1>7 DEF ArchiveSelf, Settled
  <1>8. ASSUME NEW w \in Workers, RecordFailure(w) PROVE IndexMatchesStatus'
    BY <1>8 DEF RecordFailure, Demoted
  <1>9. QED
    BY <1>1, <1>2, <1>3, <1>4, <1>5, <1>6, <1>7, <1>8, DocumentWriters

\* What is ready is searchable and what is archived is not, always.
THEOREM IndexAgrees == Spec => []IndexMatchesStatus
  <1>1. Init => IndexMatchesStatus
    BY DEF Init, IndexMatchesStatus
  <1>2. Typing /\ IndexMatchesStatus /\ [Next]_vars => IndexMatchesStatus'
    BY IndexNext
  <1>3. QED
    BY <1>1, <1>2, TypingInit, TypingNext, PTL DEF Spec

-----------------------------------------------------------------------------
(* No document is stranded.                                                *)

\* The strengthening: while a worker is about to report success, the document
\* is settled, so the report cannot be what strands it.
NotStranded ==
    /\ OneActiveJobPerDocument
    /\ PendingHasActiveJob
    /\ PublishedBeforeSuccess

LEMMA NotStrandedNext ==
    ASSUME Typing, Typing', NotStranded, [Next]_vars
    PROVE  NotStranded'
  <1> USE DEF Typing, TypeOK, HeldOK, NotStranded, PendingHasActiveJob,
              PublishedBeforeSuccess, ActiveJobs, Active
  <1>1. OneActiveJobPerDocument'
    BY OneActiveNext
  <1>2. ASSUME NEW d \in Docs, Enqueue(d),
               docStatus' \in {docStatus, [docStatus EXCEPT ![d] = "pending"]},
               UNCHANGED <<pc, held>>
        PROVE  NotStranded'
    <2>1. PICK j \in Jobs : Enqueues(j, d)
      BY <1>2, EnqueueTakesFreshRow
    <2>2. \A k \in Jobs : jobDoc[k] = d => jobStatus[k] \notin Active
      BY <1>2 DEF Enqueue
    <2>3. PendingHasActiveJob'
      BY <1>2, <2>1 DEF Enqueues
    <2>4. PublishedBeforeSuccess'
      BY <1>2, <2>1, <2>2 DEF Enqueues
    <2>5. QED
      BY <1>1, <2>3, <2>4
  <1>3. ASSUME NEW d \in Docs, CreateDocument(d) PROVE NotStranded'
    BY <1>2, <1>3 DEF CreateDocument
  <1>4. ASSUME NEW d \in Docs, ArchiveDocument(d) PROVE NotStranded'
    BY <1>1, <1>4 DEF ArchiveDocument
  <1>5. CASE SelectRetryTargets
    BY <1>1, <1>5 DEF SelectRetryTargets, rows
  <1>6. ASSUME NEW d \in Docs, RequeueFailed(d) PROVE NotStranded'
    BY <1>2, <1>6 DEF RequeueFailed
  <1>7. ASSUME NEW d \in Docs, RequeueRefused(d) PROVE NotStranded'
    BY <1>1, <1>7 DEF RequeueRefused, rows
  <1>8. CASE ListForReingest
    BY <1>1, <1>8 DEF ListForReingest, rows
  <1>9. ASSUME NEW d \in Docs, ReingestQueues(d) PROVE NotStranded'
    BY <1>2, <1>9 DEF ReingestQueues
  <1>10. ASSUME NEW d \in Docs, ReingestSkips(d) PROVE NotStranded'
    BY <1>1, <1>10 DEF ReingestSkips, rows
  <1>11. ASSUME NEW w \in Workers, SweepStale(w) PROVE NotStranded'
    <2>1. PendingHasActiveJob'
      BY <1>11 DEF SweepStale, Demoted
    <2>2. PublishedBeforeSuccess'
      BY <1>11 DEF SweepStale, Demoted, Goto
    <2>3. QED
      BY <1>1, <2>1, <2>2
  <1>12. ASSUME NEW w \in Workers, Claim(w) PROVE NotStranded'
    <2>1. PICK j \in Jobs : /\ jobStatus[j] = "queued"
                            /\ jobStatus' = [jobStatus EXCEPT ![j] = "running"]
                            /\ Goto(w, "work", j)
      BY <1>12 DEF Claim
    <2>2. PendingHasActiveJob'
      BY <1>12, <2>1 DEF Claim
    <2>3. PublishedBeforeSuccess'
      BY <1>12, <2>1 DEF Claim, Goto
    <2>4. QED
      BY <1>1, <2>2, <2>3
  <1>13. ASSUME NEW w \in Workers, ClaimNothing(w) PROVE NotStranded'
    BY <1>1, <1>13 DEF ClaimNothing, Goto, rows
  <1>14. ASSUME NEW w \in Workers, Activate(w) PROVE NotStranded'
    BY <1>1, <1>14 DEF Activate, Goto, Settled
  <1>15. ASSUME NEW w \in Workers, ArchiveSelf(w) PROVE NotStranded'
    BY <1>1, <1>15 DEF ArchiveSelf, Goto, Settled
  <1>16. ASSUME NEW w \in Workers, ProcessingFails(w) PROVE NotStranded'
    BY <1>1, <1>16 DEF ProcessingFails, Goto, rows
  <1>17. ASSUME NEW w \in Workers, FinishSucceeded(w) PROVE NotStranded'
    <2>1. PendingHasActiveJob'
      BY <1>17 DEF FinishSucceeded, FinishJob
    <2>2. PublishedBeforeSuccess'
      BY <1>17 DEF FinishSucceeded, FinishJob, Goto
    <2>3. QED
      BY <1>1, <2>1, <2>2
  <1>18. ASSUME NEW w \in Workers, RecordFailure(w) PROVE NotStranded'
    <2>1. PendingHasActiveJob'
      BY <1>18 DEF RecordFailure, FinishJob, Demoted
    <2>2. PublishedBeforeSuccess'
      BY <1>18 DEF RecordFailure, FinishJob, Goto, Demoted
    <2>3. QED
      BY <1>1, <2>1, <2>2
  <1>19. ASSUME NEW w \in Workers, Restart(w) PROVE NotStranded'
    BY <1>1, <1>19 DEF Restart, Goto, rows
  <1>20. ASSUME NEW w \in Workers, Heartbeat(w) PROVE NotStranded'
    BY <1>1, <1>20 DEF Heartbeat
  <1>21. ASSUME NEW w \in Workers, OutcomeLost(w) PROVE NotStranded'
    BY <1>1, <1>21 DEF OutcomeLost, Goto, rows
  <1>22. ASSUME NEW w \in Workers, AbortIteration(w) PROVE NotStranded'
    BY <1>1, <1>22 DEF AbortIteration, Goto, rows
  <1>23. ASSUME NEW w \in Workers, LiveBeatLapses(w) PROVE NotStranded'
    BY <1>1, <1>23 DEF LiveBeatLapses
  <1>24. ASSUME NEW w \in Workers, Crash(w) PROVE NotStranded'
    BY <1>1, <1>24 DEF Crash, Goto, rows
  <1>25. ASSUME NEW j \in Jobs, BeatLapses(j) PROVE NotStranded'
    BY <1>1, <1>25 DEF BeatLapses
  <1>26. CASE UNCHANGED vars
    BY <1>1, <1>26 DEF vars
  <1>27. QED
    BY <1>3, <1>4, <1>5, <1>6, <1>7, <1>8, <1>9, <1>10, <1>11, <1>12, <1>13, <1>14,
       <1>15, <1>16, <1>17, <1>18, <1>19, <1>20, <1>21, <1>22, <1>23, <1>24, <1>25, <1>26
    DEF Next, DocumentStep, WorkerStep, WorkerFault

\* A pending document always has a job that can settle it, through any sequence
\* of crashes, lost claims, sweeps and retry passes.
THEOREM NoDocumentStranded == Spec => []PendingHasActiveJob
  <1>1. Init => NotStranded
    BY DEF Init, NotStranded, OneActiveJobPerDocument, PendingHasActiveJob,
           PublishedBeforeSuccess, Active
  <1>2. Typing /\ Typing' /\ NotStranded /\ [Next]_vars => NotStranded'
    BY NotStrandedNext
  <1>3. NotStranded => PendingHasActiveJob
    BY DEF NotStranded
  <1>4. QED
    BY <1>1, <1>2, <1>3, TypingInit, TypingNext, PTL DEF Spec

-----------------------------------------------------------------------------
(* One version of a source is served.                                      *)

LEMMA SiblingsAreOrdered ==
    ASSUME NEW d \in Docs, NEW e \in Siblings(d)
    PROVE  e \in Older(d) \/ e \in Newer(d)
  <1>1. d \in Nat /\ e \in Nat /\ e # d
    BY VersionsAssumption DEF Siblings
  <1>2. e < d \/ e > d
    BY <1>1
  <1>3. QED
    BY <1>2 DEF Older, Newer

LEMMA OneCurrentNext ==
    ASSUME Typing, OneCurrentVersion, [Next]_vars
    PROVE  OneCurrentVersion'
  <1> USE DEF Typing, TypeOK, HeldOK, OneCurrentVersion, Siblings
  <1>1. CASE UNCHANGED <<docStatus, indexed>>
    BY <1>1
  <1>2. ASSUME NEW d \in Docs, CreateDocument(d) PROVE OneCurrentVersion'
    BY <1>2 DEF CreateDocument
  <1>3. ASSUME NEW d \in Docs, ArchiveDocument(d) PROVE OneCurrentVersion'
    BY <1>3 DEF ArchiveDocument
  <1>4. ASSUME NEW d \in Docs, RequeueFailed(d) PROVE OneCurrentVersion'
    BY <1>4 DEF RequeueFailed
  <1>5. ASSUME NEW w \in Workers, SweepStale(w) PROVE OneCurrentVersion'
    BY <1>5 DEF SweepStale, Demoted
  <1>6. ASSUME NEW w \in Workers, Activate(w) PROVE OneCurrentVersion'
    <2> DEFINE d == jobDoc[held[w]]
    <2>1. d \in Docs /\ docStatus' = Settled(d, "ready")
      BY <1>6 DEF Activate, NoDoc
    <2>2. \A e \in Siblings(d) : e \in Older(d) \/ e \in Newer(d)
      BY <2>1, SiblingsAreOrdered
    <2>3. \A e \in Newer(d) : docStatus[e] # "ready"
      BY <1>6 DEF Activate, SupersededOnArrival
    <2>4. \A e \in Siblings(d) : docStatus'[e] # "ready"
      BY <2>1, <2>2, <2>3 DEF Settled, Supersedes, Live
    <2>5. \A e \in Docs \ {d} : docStatus'[e] = "ready" => docStatus[e] = "ready"
      BY <2>1 DEF Settled
    <2>6. QED
      BY <2>1, <2>4, <2>5
  <1>7. ASSUME NEW w \in Workers, ArchiveSelf(w) PROVE OneCurrentVersion'
    BY <1>7 DEF ArchiveSelf, Settled
  <1>8. ASSUME NEW w \in Workers, RecordFailure(w) PROVE OneCurrentVersion'
    BY <1>8 DEF RecordFailure, Demoted
  <1>9. QED
    BY <1>1, <1>2, <1>3, <1>4, <1>5, <1>6, <1>7, <1>8, DocumentWriters

\* At most one version of a source is ready, whatever the order in which jobs
\* finish and whatever was requeued: ux_documents_nrb_current_source never fires.
THEOREM OneVersionServed == Spec => []OneCurrentVersion
  <1>1. Init => OneCurrentVersion
    BY DEF Init, OneCurrentVersion
  <1>2. Typing /\ OneCurrentVersion /\ [Next]_vars => OneCurrentVersion'
    BY OneCurrentNext
  <1>3. QED
    BY <1>1, <1>2, TypingInit, TypingNext, PTL DEF Spec

-----------------------------------------------------------------------------
(* Every reference to a document is to a row that exists.                  *)

References ==
    /\ \A j \in Jobs : jobStatus[j] # "none" => docStatus[jobDoc[j]] # "none"
    /\ \A d \in retrySel \union reingestSel : docStatus[d] # "none"

LEMMA ReferencesNext ==
    ASSUME Typing, References, [Next]_vars
    PROVE  References'
  <1> USE DEF Typing, TypeOK, HeldOK, References
  <1>1. \A d \in Docs : docStatus[d] # "none" => docStatus'[d] # "none"
    <2>1. ASSUME NEW w \in Workers, Activate(w) \/ ArchiveSelf(w)
          PROVE  \A d \in Docs : docStatus[d] # "none" => docStatus'[d] # "none"
      BY <2>1 DEF Activate, ArchiveSelf, Settled
    <2>2. QED
      BY <2>1, DocumentWriters DEF CreateDocument, ArchiveDocument, RequeueFailed,
         SweepStale, RecordFailure, Demoted
  <1>2. ASSUME NEW d \in Docs, Enqueue(d), docStatus'[d] # "none",
               retrySel' \subseteq retrySel, reingestSel' \subseteq reingestSel
        PROVE  References'
    <2>1. PICK j \in Jobs : Enqueues(j, d)
      BY <1>2, EnqueueTakesFreshRow
    <2>2. QED
      BY <1>1, <1>2, <2>1 DEF Enqueues
  <1>3. ASSUME NEW d \in Docs, CreateDocument(d) PROVE References'
    BY <1>2, <1>3 DEF CreateDocument, passes
  <1>4. ASSUME NEW d \in Docs, RequeueFailed(d) PROVE References'
    BY <1>2, <1>4 DEF RequeueFailed
  <1>5. ASSUME NEW d \in Docs, ReingestQueues(d) PROVE References'
    BY <1>1, <1>2, <1>5 DEF ReingestQueues
  <1>6. CASE SelectRetryTargets
    BY <1>1, <1>6 DEF SelectRetryTargets, rows
  <1>7. CASE ListForReingest
    BY <1>1, <1>7 DEF ListForReingest, rows, Live
  <1>8. ASSUME \/ UNCHANGED <<jobStatus, jobDoc>>
               \/ \E w \in Workers : SweepStale(w) \/ Claim(w)
                                    \/ FinishSucceeded(w) \/ RecordFailure(w),
               retrySel' \subseteq retrySel, reingestSel' \subseteq reingestSel
        PROVE  References'
    BY <1>1, <1>8 DEF SweepStale, Claim, FinishSucceeded, RecordFailure, FinishJob
  <1>9. ASSUME ~SelectRetryTargets, ~ListForReingest
        PROVE  retrySel' \subseteq retrySel /\ reingestSel' \subseteq reingestSel
    BY <1>9 DEF Next, DocumentStep, WorkerStep, WorkerFault, vars, passes,
       CreateDocument, ArchiveDocument, RequeueFailed, RequeueRefused, ReingestQueues,
       ReingestSkips, SweepStale, Claim, ClaimNothing, Activate, ArchiveSelf,
       ProcessingFails, FinishSucceeded, RecordFailure, Restart, Heartbeat, OutcomeLost,
       AbortIteration, LiveBeatLapses, Crash, BeatLapses
  <1>10. QED
    BY <1>3, <1>4, <1>5, <1>6, <1>7, <1>8, <1>9, JobWriters

-----------------------------------------------------------------------------
(* Without --retry-failed: succession goes forward and nothing comes back. *)

NoRetries == left["retries"] = 0 /\ retrySel = {}

LEMMA NoRetriesNext ==
    ASSUME Typing, NoRetries, [Next]_vars
    PROVE  NoRetries'
  BY DEF NoRetries, Typing, TypeOK, Bounds, Spend, Next, DocumentStep, WorkerStep,
     WorkerFault, vars, passes, CreateDocument, ArchiveDocument, RequeueFailed,
     RequeueRefused, ReingestQueues, ReingestSkips, SelectRetryTargets, ListForReingest,
     SweepStale, Claim, ClaimNothing, Activate, ArchiveSelf, ProcessingFails,
     FinishSucceeded, RecordFailure, Restart, Heartbeat, OutcomeLost, AbortIteration,
     LiveBeatLapses, Crash, BeatLapses

\* What the two theorems below need of every state.
Steady == Typing /\ References /\ NoRetries /\ OneCurrentVersion

LEMMA SteadyInit == RetryPasses = 0 /\ Init => Steady
  BY TypingInit DEF Init, Steady, References, NoRetries, OneCurrentVersion, Bounds

LEMMA SteadyNext == Steady /\ [Next]_vars => Steady'
  BY TypingNext, ReferencesNext, NoRetriesNext, OneCurrentNext DEF Steady

\* An archived document stays archived, whatever job was in flight.
THEOREM ArchivedForGood == RetryPasses = 0 => (Spec => ArchivedIsFinal)
  <1>1. ASSUME Steady, [Next]_vars, NEW d \in Docs, docStatus[d] = "archived"
        PROVE  docStatus'[d] = "archived"
    <2> USE DEF Steady, Typing, TypeOK, HeldOK
    <2>1. ASSUME NEW e \in Docs, RequeueFailed(e) PROVE FALSE
      BY <1>1, <2>1 DEF RequeueFailed, NoRetries
    <2>2. ASSUME NEW w \in Workers, Activate(w) \/ ArchiveSelf(w)
          PROVE  docStatus'[d] = "archived"
      BY <1>1, <2>2 DEF Activate, ArchiveSelf, Settled, Live
    <2>3. QED
      BY <1>1, <2>1, <2>2, DocumentWriters
      DEF CreateDocument, ArchiveDocument, SweepStale, RecordFailure, Demoted
  <1>2. Steady /\ [Next]_vars =>
          [\A d \in Docs : docStatus[d] = "archived" => docStatus'[d] = "archived"]_vars
    BY <1>1
  <1>3. QED
    BY <1>2, SteadyInit, SteadyNext, PTL DEF Spec, ArchivedIsFinal

LEMMA SuccessionNext ==
    ASSUME Steady, SuccessionForward, [Next]_vars
    PROVE  SuccessionForward'
  <1> USE DEF Steady, Typing, TypeOK, HeldOK, SuccessionForward
  <1>1. CASE UNCHANGED <<docStatus, indexed>>
    BY <1>1
  <1>2. ASSUME NEW d \in Docs, CreateDocument(d) PROVE SuccessionForward'
    <2>1. ASSUME NEW e \in Docs, d \in Older(e) PROVE e \in Newer(d)
      BY <2>1, VersionsAssumption DEF Older, Newer, Siblings
    <2>2. QED
      BY <1>2, <2>1 DEF CreateDocument, Older, Siblings
  <1>3. ASSUME NEW d \in Docs, ArchiveDocument(d) PROVE SuccessionForward'
    BY <1>3 DEF ArchiveDocument, Older, Siblings
  <1>4. ASSUME NEW d \in Docs, RequeueFailed(d) PROVE FALSE
    BY <1>4 DEF RequeueFailed, NoRetries
  <1>5. ASSUME NEW w \in Workers, SweepStale(w) PROVE SuccessionForward'
    BY <1>5 DEF SweepStale, Demoted, References, Older, Siblings
  <1>6. ASSUME NEW w \in Workers, Activate(w) PROVE SuccessionForward'
    <2> DEFINE d == jobDoc[held[w]]
    <2>1. d \in Docs /\ docStatus' = Settled(d, "ready")
      BY <1>6 DEF Activate, NoDoc
    <2>2. \A x \in Newer(d) : docStatus[x] # "ready"
      BY <1>6 DEF Activate, SupersededOnArrival
    <2> HIDE DEF d
    <2>3. ASSUME NEW e \in Docs, docStatus'[e] = "ready", NEW x \in Older(e)
          PROVE  docStatus'[x] \in {"none", "archived"}
      <3>1. x \in Docs /\ x # e
        BY DEF Older, Siblings
      <3>2. CASE e = d
        BY <2>1, <2>3, <3>1, <3>2 DEF Settled, Supersedes, DocStatuses, Live
      <3>3. CASE e # d
        <4>1. docStatus[e] = "ready"
          BY <2>1, <2>3, <3>3 DEF Settled
        <4>2. x # d
          BY <2>1, <2>2, <4>1, VersionsAssumption DEF Older, Newer, Siblings
        <4>3. QED
          BY <2>1, <2>3, <3>1, <4>1, <4>2 DEF Settled
      <3>4. QED
        BY <3>2, <3>3
    <2>4. QED
      BY <2>3 DEF Older, Siblings
  <1>7. ASSUME NEW w \in Workers, ArchiveSelf(w) PROVE SuccessionForward'
    BY <1>7 DEF ArchiveSelf, Settled, Older, Siblings
  <1>8. ASSUME NEW w \in Workers, RecordFailure(w) PROVE SuccessionForward'
    BY <1>8 DEF RecordFailure, Demoted, References, Older, Siblings
  <1>9. QED
    BY <1>1, <1>2, <1>3, <1>4, <1>5, <1>6, <1>7, <1>8, DocumentWriters

\* Once a version has been ready, every older one is archived.
THEOREM SuccessionIsForward == RetryPasses = 0 => (Spec => []SuccessionForward)
  <1>1. Init => SuccessionForward
    BY DEF Init, SuccessionForward
  <1>2. Steady /\ SuccessionForward /\ [Next]_vars => SuccessionForward'
    BY SuccessionNext
  <1>3. QED
    BY <1>1, <1>2, SteadyInit, SteadyNext, PTL DEF Spec

\* A document stops being served only because an editor archived it or because a
\* newer version starts being served in the same step.
THEOREM ServiceIsKept == RetryPasses = 0 => (Spec => ServingKept)
  <1>1. ASSUME Steady, [Next]_vars, NEW d \in Docs,
               docStatus[d] = "ready", docStatus'[d] # "ready"
        PROVE  ArchiveDocument(d) \/ \E e \in Newer(d) : docStatus'[e] = "ready"
    <2> USE DEF Steady, Typing, TypeOK, HeldOK
    <2>1. CASE UNCHANGED <<docStatus, indexed>>
      BY <1>1, <2>1
    <2>2. ASSUME NEW e \in Docs,
                 CreateDocument(e) \/ ArchiveDocument(e) \/ RequeueFailed(e)
          PROVE  ArchiveDocument(d)
      BY <1>1, <2>2 DEF CreateDocument, ArchiveDocument, RequeueFailed, NoRetries
    <2>3. ASSUME NEW w \in Workers, SweepStale(w) \/ RecordFailure(w) PROVE FALSE
      BY <1>1, <2>3 DEF SweepStale, RecordFailure, Demoted
    <2>4. ASSUME NEW w \in Workers, Activate(w)
          PROVE  \E e \in Newer(d) : docStatus'[e] = "ready"
      <3>1. jobDoc[held[w]] \in Docs /\ docStatus' = Settled(jobDoc[held[w]], "ready")
        BY <1>1, <2>4 DEF Activate, NoDoc
      <3>2. d \in Older(jobDoc[held[w]]) /\ docStatus'[jobDoc[held[w]]] = "ready"
        BY <1>1, <3>1 DEF Settled, Supersedes
      <3>3. jobDoc[held[w]] \in Newer(d)
        BY <3>1, <3>2, VersionsAssumption DEF Older, Newer, Siblings
      <3>4. QED
        BY <3>2, <3>3
    <2>5. ASSUME NEW w \in Workers, ArchiveSelf(w) PROVE FALSE
      <3>1. jobDoc[held[w]] \in Docs /\ docStatus' = Settled(jobDoc[held[w]], "archived")
        BY <1>1, <2>5 DEF ArchiveSelf, NoDoc
      <3>2. PICK e \in Newer(jobDoc[held[w]]) : docStatus[e] = "ready"
        BY <2>5 DEF ArchiveSelf, SupersededOnArrival
      <3>3. d = jobDoc[held[w]] \/ d \in Older(jobDoc[held[w]])
        BY <1>1, <3>1 DEF Settled, Supersedes
      <3>4. e \in Siblings(d)
        <4>1. /\ e \in Docs /\ SourceOf[e] = SourceOf[d] /\ SourceOf[d] # NoSource
              /\ e > jobDoc[held[w]] /\ d <= jobDoc[held[w]]
          BY <3>1, <3>2, <3>3, VersionsAssumption DEF Older, Newer, Siblings
        <4>2. e # d
          BY <3>1, <4>1, VersionsAssumption
        <4>3. QED
          BY <4>1, <4>2 DEF Siblings
      <3>5. QED
        BY <1>1, <3>2, <3>4 DEF OneCurrentVersion
    <2>6. QED
      BY <1>1, <2>1, <2>2, <2>3, <2>4, <2>5, DocumentWriters
  <1>2. Steady /\ [Next]_vars =>
          [\A d \in Docs : docStatus[d] = "ready" /\ docStatus'[d] # "ready" =>
              \/ ArchiveDocument(d)
              \/ \E e \in Newer(d) : docStatus'[e] = "ready"]_vars
    BY <1>1
  <1>3. QED
    BY <1>2, SteadyInit, SteadyNext, PTL DEF Spec, ServingKept

LEMMA SameVersions ==
    ASSUME NEW d \in Docs
    PROVE  /\ Lifecycle!Older(d) = Older(d)
           /\ Lifecycle!Newer(d) = Newer(d)
  BY DEF Lifecycle!Older, Lifecycle!Newer, Lifecycle!Siblings, Older, Newer, Siblings

\* Writing a version's status and archiving what it supersedes is the abstract
\* settlement.
LEMMA SettledIsSettle ==
    ASSUME Typing, NEW d \in Docs,
           NEW s \in {"ready", "archived"}, docStatus' = Settled(d, s)
    PROVE  life' = Lifecycle!Settle(d, IF s = "ready" THEN "current" ELSE "retired")
  <1> DEFINE stage == IF s = "ready" THEN "current" ELSE "retired"
  <1>1. ASSUME NEW e \in Docs
        PROVE  life'[e] = IF e = d THEN stage
                          ELSE IF e \in Older(d) /\ life[e] # "absent" THEN "retired"
                          ELSE life[e]
    <2>1. docStatus[e] \in {"none", "pending", "ready", "failed", "archived"}
      BY DEF Typing, TypeOK, DocStatuses, Live
    <2>2. CASE e = d
      <3>1. docStatus'[e] = s
        BY <2>2 DEF Settled
      <3>2. QED
        BY <2>2, <3>1 DEF life
    <2>3. CASE e # d /\ e \in Supersedes(d)
      <3>1. docStatus'[e] = "archived" /\ e \in Older(d) /\ docStatus[e] # "none"
        BY <2>3 DEF Settled, Supersedes, Live
      <3>2. life'[e] = "retired" /\ life[e] # "absent"
        BY <2>1, <3>1 DEF life
      <3>3. QED
        BY <2>3, <3>1, <3>2
    <2>4. CASE e # d /\ e \notin Supersedes(d)
      <3>1. docStatus'[e] = docStatus[e]
        BY <2>4 DEF Settled
      <3>2. life'[e] = life[e]
        BY <3>1 DEF life
      <3>3. e \in Older(d) => docStatus[e] \in {"none", "archived"}
        BY <2>1, <2>4 DEF Supersedes, Live
      <3>4. QED
        BY <2>4, <3>2, <3>3 DEF life
    <2>5. QED
      BY <2>2, <2>3, <2>4
  <1>2. life' = [e \in Docs |-> life'[e]]
    BY DEF life
  <1>3. Lifecycle!Settle(d, stage) =
          [e \in Docs |-> IF e = d THEN stage
                         ELSE IF e \in Older(d) /\ life[e] # "absent" THEN "retired"
                         ELSE life[e]]
    BY SameVersions DEF Lifecycle!Settle
  <1> HIDE DEF stage
  <1>4. [e \in Docs |-> life'[e]] = Lifecycle!Settle(d, stage)
    BY <1>1, <1>3
  <1>5. QED
    BY <1>2, <1>4 DEF stage

LEMMA LifecycleStep ==
    ASSUME Steady, [Next]_vars
    PROVE  [Lifecycle!LifecycleNext]_life
  <1> USE DEF Steady, Typing, TypeOK, HeldOK, DocStatuses, Live
  <1>1. CASE UNCHANGED <<docStatus, indexed>>
    BY <1>1 DEF life
  <1>2. ASSUME NEW d \in Docs, CreateDocument(d) PROVE Lifecycle!Register(d)
    BY <1>2, SameVersions DEF CreateDocument, Lifecycle!Register, life, Newer, Siblings
  <1>3. ASSUME NEW d \in Docs, ArchiveDocument(d) PROVE Lifecycle!Withdraw(d)
    BY <1>3 DEF ArchiveDocument, Lifecycle!Withdraw, life
  <1>4. ASSUME NEW d \in Docs, RequeueFailed(d) PROVE FALSE
    BY <1>4 DEF RequeueFailed, NoRetries
  <1>5. ASSUME NEW w \in Workers, SweepStale(w) PROVE UNCHANGED life
    BY <1>5 DEF SweepStale, Demoted, References, life
  <1>6. ASSUME NEW w \in Workers, Activate(w)
        PROVE  Lifecycle!Promote(jobDoc[held[w]])
    <2>1. jobDoc[held[w]] \in Docs
      BY <1>6 DEF Activate, NoDoc
    <2>2. life' = Lifecycle!Settle(jobDoc[held[w]], "current")
      BY <1>6, <2>1, SettledIsSettle DEF Activate
    <2>3. QED
      BY <1>6, <2>1, <2>2, SameVersions
      DEF Activate, SupersededOnArrival, Lifecycle!Promote, life, Newer, Siblings
  <1>7. ASSUME NEW w \in Workers, ArchiveSelf(w)
        PROVE  Lifecycle!Yield(jobDoc[held[w]])
    <2>1. jobDoc[held[w]] \in Docs
      BY <1>7 DEF ArchiveSelf, NoDoc
    <2>2. life' = Lifecycle!Settle(jobDoc[held[w]], "retired")
      BY <1>7, <2>1, SettledIsSettle DEF ArchiveSelf
    <2>3. PICK e \in Newer(jobDoc[held[w]]) : docStatus[e] = "ready"
      BY <1>7 DEF ArchiveSelf, SupersededOnArrival
    <2>4. docStatus[jobDoc[held[w]]] \in {"pending", "failed"}
      BY <1>7, <2>1, <2>3 DEF ArchiveSelf, OneCurrentVersion, Newer
    <2>5. QED
      BY <2>1, <2>2, <2>3, <2>4, SameVersions DEF Lifecycle!Yield, life, Newer, Siblings
  <1>8. ASSUME NEW w \in Workers, RecordFailure(w) PROVE UNCHANGED life
    BY <1>8 DEF RecordFailure, Demoted, References, life
  <1>9. \A w \in Workers : pc[w] = "work" => jobDoc[held[w]] \in Docs
    BY DEF NoDoc
  <1>10. QED
    BY <1>1, <1>2, <1>3, <1>4, <1>5, <1>6, <1>7, <1>8, <1>9, DocumentWriters
    DEF Lifecycle!LifecycleNext, Activate, ArchiveSelf

\* The queue, its workers, their crashes and the editors implement the promised
\* lifecycle of a source's versions.
THEOREM QueueImplementsLifecycle == RetryPasses = 0 => (Spec => ImplementsLifecycle)
  <1>1. Init => Lifecycle!LifecycleInit
    BY DEF Init, Lifecycle!LifecycleInit, life
  <1>2. Steady /\ [Next]_vars => [Lifecycle!LifecycleNext]_life
    BY LifecycleStep
  <1>3. QED
    BY <1>1, <1>2, SteadyInit, SteadyNext, PTL
    DEF Spec, ImplementsLifecycle, Lifecycle!LifecycleSpec

=============================================================================

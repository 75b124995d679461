# Verification of the local AI model gateway

TLA+ models of `src/`: a FastAPI gateway in front of local language models, with a
department document corpus (retrieval-augmented chat), a mirror of the website of Nepal
Rastra Bank (NRB) that feeds that corpus, user accounts, API keys, tools and files.

The models are checked with TLC on small instances, and what matters most is proved with
TLAPS for every value of the constants. `PROJECT.json` lists the runs, the code lines each
definition stands for, one mutant per property, the hazards, the findings and the theorems.

    tlc -workers 2 -config IngestSupersession.cfg MCIngestQueue
    tlapm IngestQueueProofs.tla

## 1. The system and its parts

Processes: the API (uvicorn, one event loop), one or more `rag.worker` processes, the
`nrb.runner` daemon, and operators' scripts. They share one PostgreSQL database, two
directories (uploaded documents, NRB blobs) and nothing else. So almost all of what is hard
here is the same problem: a process reads rows in one transaction, works for seconds or
minutes, and writes in another, while other processes write the same rows and any of them
may die in between. The database's partial unique indexes, CHECK constraints and row locks,
and the advisory locks, are what stands against it.

| part (source) | state | operations | interacts with | hard behaviour | correct when |
|---|---|---|---|---|---|
| **ingest queue and worker** (`rag/jobs`, `rag/worker`, `rag/ingest`) | `ingest_jobs`, `documents.status`, `document_chunks`; the job a worker holds | enqueue, claim, heartbeat, sweep_stale, process_job, `_activate`, `_record_failure`, finish | API and passes enqueue, supersession decides in `_activate`, pipeline counts jobs | worker death, a live worker swept as dead, two workers on one document | no document is stranded, chunks agree with the status, one active job per document, queued jobs end |
| **supersession** (`nrb/supersession`) | versions of one NRB source among `documents` | plan_promotion, promote, archive_self | called in the worker's publishing transaction | versions finish in any order | at most one version serves, succession never goes back, a failed replacement leaves the old version served |
| **document lifecycle, reingest** (`rag/documents`, `rag/reingest`) | `documents` | create, archive, list, queue again | the queue | ids selected in an earlier transaction | an archived document stays out |
| **corpus registration** (`nrb/corpus`) | documents with NRB metadata | create_ingest_targets, requeue_failed | catalog → queue | stale selection, aliases, vanished blobs | a pass leaves nothing behind, every document has its blob |
| **pipeline run** (`nrb/pipeline`) | `nrb_pipeline_runs`, `nrb_pipeline_run_jobs`, counters | request_run, execute_run, stages, reconcile, sweep_abandoned, recover_abandoned | runner, API, CLI; jobs of the queue | orchestrator death between any two transactions, racing requests, jobs that finish after the verdict | one active run, every run ends, verdicts are earned and final, jobs are attributed |
| **runner, lock, operations API** (`nrb/runner`, `nrb/locks`, `nrb/router`) | one session-level advisory lock per kind of pass | poll loop; POST and GET | pipeline | the lock's connection drops under a live holder | the lock makes `running` mean abandoned to its holder |
| **catalog sync** (`nrb/sync`, `nrb/catalog`) | `nrb_sources`, `nrb_files`, `nrb_source_files`, `nrb_sync_runs` | discovery, files, sources, relationships, deactivation | the website; fetch | phases commit one by one; the site changes; partial discoveries; a fetch writes the same rows | the catalog mirrors what was read, nothing published is deactivated |
| **discovery** (`nrb/discovery`, `nrb/sitemap`, `nrb/wp_api`) | one walk in memory | REST by position, sitemaps by URL | the website; sync | the bank edits while both are read | what is complete saw what stayed |
| **fetch** (`nrb/fetch`, `nrb/filestore`) | `nrb_files` outcomes, blobs, `nrb_fetch_runs` | select, download, record in batches | sync writes the rows in between | uncommitted batches, refused rows, early stops | a replaced file is downloaded again, content never goes back |
| **extraction, recovery cache** (`nrb/extract`, `nrb/recovery_cache`, `nrb/recovery`) | `nrb_extractions`, cached recoveries | select, verify, extract, record; load, recover, save | blobs of fetch, worker | versions of engines, stale reads | the cache is transparent; a row is about the bytes it names |
| **text analysis** (`nrb/classify`, `nrb/routing`, `nrb/legacy_*`, …) | none | measure, decide, convert | extraction, worker | none: pure | untrusted text is withheld |
| **access and membership** (`rag/access`, `rag/permissions`, `rag/router`) | departments, levels | grant, revoke, default grants | chat, documents | check-then-write under a department lock | an owner never overrides an owner |
| **accounts, login throttle** (`auth/`, `users/`) | users, in-process throttle | register, login, deactivate | everything | check-then-write; eviction at the cap | an active admin remains, a lockout lasts |
| **API keys and rate limits** (`apikeys/`) | keys, in-process buckets | authenticate, create, revoke | public API | awaits between check and record; arithmetic at the boundary | the rate holds, a lockout costs one row |
| **public extraction API** (`publicapi/`) | a semaphore, temporary files | admit, queue, work, time out | API keys | a place given back whatever happens | the same |
| **chat turn, agent loop** (`chat/`, `agent/`) | the loop's messages and cache | open_turn, loop, persist | model server, MCP, tools, retrieval | cut streams, concurrent turns, errors after the first commit | the message list is one the provider accepts |
| **conversation history** (`history/`) | sessions, messages | add, context, page, delete | chat turn | two turns of one session; paging while turns write | a log in order; the model sees what it is owed |
| **retrieval, chunking** (`rag/retrieval`, `rag/ranking`, `rag/chunking`, `rag/sources`) | none | block, window, fuse, rerank, cite | chat, worker | boundary arithmetic, a reranker that fails | the index holds the document, answers are grounded |
| **tools** (`tools/`) | none | dispatch; documents, files, dates, rates | chat | cut-offs and continuations | reading reaches the end, dates and rates are right |
| **conversation files** (`files/`) | `generated_files`, files on disk | upload, list, read, edit, delete | tools | row and file in two steps | what is listed can be downloaded |
| **MCP, model client** | grants | call | agent loop | failures | part of the turn |
| **shell, schema, scripts, reports** | — | wiring, migrations | — | — | — |

## 2. The modules

| module | models | checked in | proved in |
|---|---|---|---|
| `Versions`, `SourceLifecycle` | the versions of a source; what is promised of them (abstract) | `MCIngestQueue` | `IngestQueueProofs` |
| `IngestQueue` | documents, chunks, jobs, workers, passes | `MCIngestQueue` | `IngestQueueProofs` |
| `PipelineRun` | runs, their jobs, the lock, runners, clients, operators | `MCPipelineRun` | `PipelineRunProofs` |
| `Catalog` | the site, the catalog, syncs and fetches | `MCCatalog` | `CatalogProofs` |
| `Discovery` | what a discovery reads, and which row a record belongs to | `MCDiscovery` | — |
| `Corpus` | blobs, registration, extraction, uploads | `MCCorpus` | `CorpusProofs` |
| `Recovery`, `TextVerdict` | the recovery cache; what is decided about a file's text | `MCRecovery` | `RecoveryProofs` |
| `Access` | accounts, departments, membership, statement by statement | `MCAccess` | `AccessProofs` |
| `Throttle`, `PublicApi` | the two in-process limits; the key boundary and the routes behind it | `MCPublicApi` | `PublicApiProofs` |
| `ThreadLog` | what a conversation promises (abstract) | `MCConversation` | `ChatTurnProofs` |
| `ChatTurn`, `AgentLoop`, `Context` | a turn, its loop, what the model is shown | `MCConversation` | `ChatTurnProofs` |
| `Scroll` | paging through sessions and messages while turns write | `MCConversation` | — |
| `NepaliCalendar`, `Forex` | the tools for dates and exchange rates | `MCConversation` | — |
| `Chunking`, `Reading` | from a file to its chunks; search, sources, reading | `MCReading`, `MCTools` | — |
| `Files`, `Workbook` | a conversation's files; what the spreadsheet tools do to a sheet | `MCTools` | — |
| `Selection` | the elements of a sequence that belong to a set | (in `Throttle`) | `PublicApiProofs` |

Where two modules meet in a table they are checked apart, each with everything the other may do
to it. `PipelineRun` lets a job do everything `IngestQueue` can do to one (start, finish, be swept,
finish after the sweep); only the status of a job matters to a run. `Corpus` lets a worker finish a
document in one step, which `IngestQueue` takes apart, and lets rows change as `Catalog` changes them.
`Catalog` takes for granted which page a record is about; `Discovery` is about nothing else.

### Conventions

An action is one committed transaction, or one in-process step that another process can
observe. What a process remembers from one transaction to the next (the job it holds, the
ids it selected, the index it read) is a variable. A rolled-back transaction is the action
that leaves the tables alone. A unique index or a CHECK is a guard, with the refusal as an
action of its own. Within one coroutine an action ends at an `await`; within one READ COMMITTED
session (`Access`, `ChatTurn`) at each statement, and the row locks it takes are variables. Elsewhere
row locks held inside one transaction are implied by its atomicity, so a lock-order deadlock between
two transactions is not a state of these models; PostgreSQL aborts one of them, which is a fault
action. Bounds on runs, jobs, faults or time are constants, and guards of the actions they bound.

### `IngestQueue`

`docStatus`, `indexed`, `jobStatus`, `jobDoc` are the columns; `indexed` is the set of
documents that have chunks, because chunks are replaced or deleted as a whole
(`ingest.replace_chunks`). A worker goes through the stations of `run_once`: *poll* (the
sweep's transaction), *claim* (`FOR UPDATE SKIP LOCKED`, the oldest queued job), *work*
(parse and embed: no transaction), then `_activate`, and *succeed* or *fail* (the
transaction that finishes the job). `Activate` is the whole of `_activate`: the older
versions archived with their chunks, the new one `ready`. Faults are the worker's death, a
lapse of a live worker's heartbeat (it goes on and publishes after it was swept), an outcome
lost between publishing and finishing, and an iteration aborted by an exception of its own
bookkeeping.

Documents are numbers in the order in which the driver observed the versions, so a version is
newer when its number is greater (`Versions`). `NoSource` marks uploads. `ContentOf` gives the
content hash; `BytesComeBack` makes the third version carry the first one's bytes, which is how
`ux_documents_active_content` comes to refuse a requeue. A heartbeat is fresh or lapsed; there is no clock.

The refinement maps `pending` and `failed` to *candidate*, `ready` to *current*, `archived`
to *retired*: `SourceLifecycle` knows of no jobs, workers or crashes.

`ArchiveSelf` (a version that lost on arrival) can be reached only after a retry pass: without
one, the transaction that makes the newer version ready has archived the older one already,
and its worker fails with `DocumentGone`. `IngestProgress`, which has a retry pass, fires it.

### `PipelineRun`

Runners, clients (HTTP requests) and operators (`--run-now`) share actions: every one of
them is at a station between two transactions. Recovery, the request (settle, gate, insert),
the execution (lock, sweep, claim, stages, enqueue, record, close) and the release are the
code's own sequence. The stages before RAG are one step with their item-level failures;
what they do to the catalog is module `Catalog`. `enqueuer` is a history variable: which run
caused a job is in no table until `_record_jobs`.

### `Catalog` and `Discovery`

In `Catalog` a *source* is a page and a *file* a `comparison_key`. The bytes behind a file and the size
the site reports for them are one version number; 0 is an unreported size, or no content. The
site may change at any moment (pages appear, lose REST data, vanish; files are replaced, moved
to a URL the guard refuses and back, stop reporting a size). A discovery is one step there, complete or
not. After it a sync is the code's phases, each its own commit: `LoadFiles`, `WriteFiles`,
`WriteSources`, `WriteLinks` (one source at a time), `Deactivate` or `SkipDeactivation`. A fetch selects,
attempts one file after another, and records `RecordBatch` outcomes at once. Syncs and fetches take
different advisory locks, so they interleave freely; two of a kind exclude each other. `masked` is a
history variable: files whose replacement the code can not tell afterwards (section 5); it keeps
`NoticedReplacementIsRefetched` exact instead of weak.

`Discovery` takes that step apart: REST pages by position, then the tree of sitemaps, while posts are
published, removed, renamed; a page that cannot be read ends the walk as incomplete (`MAX_PAGES` is one
more way a page is not read), and a record finds its row by `wp_post_id` or by URL. Its first sync finds the rows
that earlier syncs left (`FirstRows`), active or not. A complete sync must leave the row of a page that stayed
active: `StayedIsActive` says so of every such row but the inactive ones that the code leaves alone
(`StaysInactive`), and not of a discovery that rejected a child sitemap (section 5).

### `Corpus`

Bytes stand for their sha256. The blob is promoted under its key before the row that names it commits;
a fetch may die in between. A pass selects representatives of its scope (one file per content) in
one transaction, and deals with one target per transaction: registers a document, finds it exists, extracts,
or finds the blob missing or damaged. `document` keeps every row, archived ones too, for their
blobs must not go either. An upload writes its file, then its row, or compensates. `moved` is a
history variable: the bytes that changed hands since a pass selected. Of two uploads of the same
bytes at once only the first is there: `WriteUpload` waits for a free key.

### `Recovery` and `TextVerdict`

`TextVerdict` is the decision procedure about one file, over the intervals its thresholds tell apart.
`Recovery` is workers, each with engines of some version or none, that read the cache, recover, refresh
and store in separate transactions, with purges and failed writes. A second read of the file may fail
where the first one worked: a PDF is left with its flat text (`ColdFlat`), a workbook with a failed unit
(`UnreadWorkbook`) from which nothing is served. A cache row is a sequence of units with the engines that made
each, keyed by the conversion gate. A file that is no PDF is at least one unit (`BlobsAssumption`).

### `Access`

Every request is a record with what it has read so far and its next statement. The department's row
and the active administrators' rows are locked as the code does.

### `Throttle` and `PublicApi`

`Throttle` is the arithmetic of `LoginThrottle` and `RateLimiter` on ordered maps. Time is whole ticks and
a token whole parts, so that a refill is exact; the rounding of floating point is left out. `PublicApi` is the
requests: lookup, failure, admission, the rows in `api_key_usage`, the upload on disk, the wait for a place, the
work, and the release on every way out; keys are minted, revoked and expire at any await.

### `ChatTurn`, `AgentLoop`, `Context`, `ThreadLog`, `Scroll`

A turn is `open_turn` (session, department, the user's row under the session's lock), the read of the context,
the loop, and the assistant's row; any await may be its last. `AgentLoop` gives the loop's record: calls to
answer, the repeat cache, the limits. `Context` gives which stored messages fit the budget, with the notes a
truncation and files add. `ChatTurn` refines `ThreadLog`, a log that only grows at its end. `Scroll` pages by
cursors (a time and an id) while other turns move sessions to the time their transaction began.

### `Chunking`, `Reading`, `Files`, `Workbook`, `NepaliCalendar`, `Forex`

`Chunking` is the pipeline of blocks: joined, filtered, split into windows, with headings and tables, and back.
`Reading` searches the index with any order and any reranker, fits the passages into the budget, resolves
citations and pages through a document, taking out the overlap its own process is configured with, not the one the
document was cut with. A passage is text to verify by its route or by its page being marked as not authoritative
(`Recovered`). `CitationsAreSound` names what the code does not keep: of several lists a document's entry is that of the
first that presented it, and a search without hits leaves the turn's sources null. `Files` is uploads, deletions, reads and edits beside each other, over `Workbook`'s
operators on sheets. A result of `read_excel` goes through the loop's cut (`ForModel`): what is cut ends the
reading, announced, its continuation note lost. A line longer than a page is cut by `Window` and its number kept, as the
header names it: `ReadingIsWhole` asks for every other line whole, and of that one its beginning. The results of
the other tools are taken to fit the loop's cap. `NepaliCalendar` is calendar tables; `Forex` the walk through the bank's pages.

## 3. The runs

| run | question | bounds |
|---|---|---|
| `IngestSupersession` | do three racing versions, editors and a reingest pass keep one version served, forward only, and implement `SourceLifecycle`? | 3 versions, 2 workers, 4 jobs, 1 lapse, lost outcome or aborted iteration, 1 reingest pass |
| `IngestProgress` | with a retry pass acting on a stale selection and a crash, does everything end? | 3 versions, the first one's bytes coming back, 2 workers, 3 jobs, 1 crash, 1 retry pass; fairness |
| `Pipeline` | are living runs spared, jobs attributed, verdicts earned and final, and does every run end though nobody polls? | a runner, a client, an operator, 2 runs, 1 job, and one of: a crash, a failed `_finish`, a lost lock; fairness |
| `Catalog` | does a sync that completes leave the catalog equal to what it read, whatever died before, while fetches lose no content and download what was replaced? | 2 sources, 1 file, batches of 1, 2 syncs, 2 fetches, 2 edits of the site, 1 crash |
| `Discovery` | has a discovery that is complete seen what stayed, and can the rows of earlier syncs make the sources phase fail? | 4 posts, 5 URLs of which REST does not serve one, 2 per page and per sitemap, 3 edits, 1 removal in each discovery, 2 syncs, 1 failed page; from no row, and from four inactive ones |
| `Corpus` | does every row and document have its blob, and a pass that ends leave nothing behind? | 2 files (a PDF and one with an odd extension) over 2 contents, 2 passes, 1 event of the world |
| `Recovery` | is what a warm cache serves what a cold recovery would give, and is untrusted text withheld? | 17 kinds of file, 2 workers, 1 redeployment, 1 failed second read |
| `Access` | do an active administrator, and the levels only administrators may change, survive every interleaving? | 3 accounts, 1 department, 3 requests, 2 in flight, from an empty installation and a settled one |
| `PublicApi` | do the limits hold, at the cap and with requests under way, and does a lockout cost one row? | 2 keys, 2 requests in flight, 4 in all, 4 half-second ticks, a map of 1 entry, a burst of 1, 1 place |
| `Conversation` | is the model's context sound, the loop within its protocol, the thread a log, a scroll whole, a date right, a rate as published? | four disjoint parts, below |
| `Tools` | does the index hold the document, do answers rest on what was shown, does reading reach the end, do files and spreadsheets say what they should? | three disjoint parts, below |
| `ChunkGap` (violation) | is every word of a text in some chunk? | a text whose window is cut early; section 5 |

The parts of `Conversation`, chosen in the initial state: *turns*, 2 overlapping turns over threads of
up to the length and cost at which truncation and both notes matter (budget 7, at most 5 rows read), 1 tool,
2 iterations, 2 calls at once; *history*, 3 sessions of the user and 1 of another, 2 writers, pages of 1,
2 ticks, 4 messages; *dates*, every date of a small calendar, two times of day either side of an offset;
*rates*, 3 days, 2 currencies, one correction or publication while the pages are walked. Of `Tools`:
*searching* and *reading*, layouts with front matter, split passages, tables, a sheet, a memo and a scan with a garbled
page, 2 settings of the chunker and of the reader, 2 indexings, 2 searches, a page of 3 lines and 6 characters,
which one line exceeds; a search and a reader share the index only, so no behaviour has both; *files*, 2 files, 2 calls of
tools, uploads (among them a document with a line as long as a page and one longer, and a sheet that declares no
size and whose rows are too long for one result), pages of 1, 2 and 3 rows, edits, scans, 1 crash.

Why these bounds are enough. Two workers are what a race needs; a third version adds the case
in which the two that race are both older, or both newer, than the one served. The fourth job
is the requeue of any of the three versions. Two runs are the one that is active and the one
that was, or that loses the race. In `Catalog` the second sync is the one that completes after
the first died; a sync reads everything again, so a third adds no state the second can not meet, and a
second fetch is the one that meets what the first left. One file is enough because files meet only in the
batch; `CatalogProofs` covers any number of both. In `Discovery` a removal in the REST walk shifts a post
past the cursor, the sitemaps then have it; a second removal during the same discovery hides it there too
(section 5), which is why the bound is one for each. Its inactive rows are those that matter to a sync: of the post
a removal shifts past the cursor first, of a page only the sitemap lists, and of a post at an old URL whose
new one is another row's. The budgets of `read_excel` are in the order of the real ones, the loop's below the tool's. A map of one entry is the smallest at which eviction
happens, a window of two attempts the smallest at which the failure that trips a lock is not the first. A
bucket of one token and a rate that is no whole number of ticks make every rounding happen. The chunker's
sizes are such that a window is cut early, late and not at all. Wherever a theorem covers the property
(section 4) the bound is only a question of finding mistakes early.

Every action fires in a passing run, and each property has a mutant of the code that the same run
refutes. Deadlock is checked in the runs of `IngestQueue`, `PipelineRun` and `Corpus`, where some process
always has a next step; not in the others, which end when the bounded requests, edits or syncs are spent.
Symmetry is used for workers, processes, passes, requests and turns, where no definition tells them apart,
and in no run with liveness.

Properties of one step are action properties: `ContentNeverGoesBack`, `CompletedSyncMirrorsTheSite`,
`HistoryStands`, `LivingRunClosesFrozen`, `EndedPassCovers`, `LockoutStands`, `StayedIsActive`,
`ActiveAdminRemains`, `OwnersAnswerToAdmins`. `ImplementsLifecycle` and `ThreadIsALog` are refinements,
`QueueDrains` and `EveryRunEnds` liveness, the rest invariants. Type invariants, `OneActiveRun`,
`OneActiveJobPerDocument`, `ArchivedIsFinal` and `ServingKept` are in no run: they are proved.

### Fairness

`IngestQueue`: weak fairness of each worker's own step and of the passage of time for a
heartbeat nobody renews. The code's reason: the worker loop polls every 2 s for ever and
catches everything (`worker.main`), `docker-compose.yml` restarts it (`unless-stopped`), and
`now()` advances past the 10-minute cutoff. No fairness of users, operators or faults, none of
success over failure. It does assume that a parse ends: nothing in the code bounds one (a hazard
without a property).

`PipelineRun`: weak fairness of the steps of runners and operators, and of the worker on each
job. The runner is a restarted daemon. No fairness of clients, and none of polling: `EveryRunEnds` holds
though nobody ever asks for a status. A failed `_finish`, a crash or a lost lock happen at most as often
as their bounds say.

The other modules state no liveness: syncs, fetches, requests and turns are started by people, and what
they owe is owed when they end.

## 4. What is proved

For any constants that satisfy the named assumptions of the modules: types, finite bounds, disjoint kinds
of process, a default that is no value of the data (`VersionsAssumption`, `IngestAssumption`,
`PipelineAssumption`, `CatalogAssumption`, `CorpusAssumption`, `BlobsAssumption`, `DeploymentsAssumption`, `BoundsAssumption`, `AccessAssumption`, `StartAssumption`,
`ThrottleAssumption`, `ApiAssumption`, `LoopAssumption`, `ContextAssumption`, `TurnAssumption`,
`EarlierAssumption`). `StartAssumption` and `EarlierAssumption` say that a behaviour starts from a database
the program can have written. TLC evaluates all of them, and checked each inductive invariant below on
an instance before it was proved.

**`IngestQueueProofs`.** `Typing` is the type invariant with `HeldOK` (a worker remembers a job exactly
while it works on one, and that job has left the queue), without which `held[w]` could be no job at all
when a worker writes. From it, by one lemma per invariant with a step for each action that can disturb it:
`TypeCorrect`, `OneActiveJob`, `IndexAgrees` (chunks and status are written together) and
`OneVersionServed`. `PendingHasActiveJob` is not inductive: a worker that reports success ends the active
job, so one must know that its document is settled by then. `PublishedBeforeSuccess` says so, with its
exception: a job swept under the worker, whose document the sweep has settled. With
`OneActiveJobPerDocument` the three carry each other (`NotStranded`) and give `NoDocumentStranded`. All
five hold with retry passes and every fault at once. `ArchivedForGood`, `SuccessionIsForward`,
`ServiceIsKept` and `QueueImplementsLifecycle` (the refinement) assume `RetryPasses = 0`, because a retry
pass that acts on a stale selection does break the lifecycle (section 5). They rest on `Steady`: typing, no
references to absent rows (`References`), no retry pass left (`NoRetries`) and one current version.

**`PipelineRunProofs`.** `Typing` is the type invariant and that a process on its way to a run remembers one.
`OneRunIsActive` follows from `Admits`, which every step satisfies: a row becomes active only by being
inserted while none is active, and it needs `TargetsExist`, since a claim or a verdict for a run without a
row would be a second way in.

What the lock gives (`SweepsSpareTheLiving`, `VerdictsStand`, `OrchestratorsCloseFrozen`) is for as long as
no lock connection has dropped, and that hypothesis is part of the properties (`LockHolds`).
`LockProtects`: whoever is between try_lock and unlock holds the lock, so two processes are never inside,
and the run it stages is `running`. The process that sweeps is inside, so there is nobody else to condemn;
a verdict is written over only by the orchestrator of the run, and while it stages there is none.

`EveryJobIsAttributed` and `VerdictsAreEarned` hold whatever drops. They rest on `Ledger`: one process at
most ever stages a run, because it was claimed from `queued` and nothing goes back there
(`StagersDiffer`, `StagedRunsAreOpen`); nobody worked for a run nobody claimed (`UnclaimedRunsAreBlank`);
the orchestrator remembers every job it enqueued and no other is recorded (`StagedJobsAreRemembered`);
past each `_record_jobs` those of its reason are recorded (`RecordsAreKept`). So at `Close` all are, and a run
closed with an empty batch has no recorded job: its counts, all zero, are its live ones (`ClosedOnItsCounts`).

**`CatalogProofs`.** `NoticedReplacementIsRefetched` is not inductive: a fetch about to record holds bytes of an
earlier moment. `OutcomesInHand` says those bytes are no older than the row's, and than the size the row
reports unless the file is `masked`; `SiteIsAhead` that no row and no discovery is ahead of the site;
`SizesAreKnown` when a size may be missing; `OnePassOfAKind` what the advisory locks give. From
these, `ReplacementsAreRefetched` and `BytesOnlyMoveForward`. `CompletedSyncsMirror` needs that the
last number stamps what the sync at hand saw and nothing else (`SyncsAreNumbered`), and what is true
of the rows halfway (`SourcesFollow`): what was seen is as discovered but for relationships still to be written.

**`CorpusProofs`.** `NamedBlobsStay` is about every document, archived ones too. It needs, beside the rows, the outcomes a fetch has not committed
(`OutcomesAreStored`) and the upload in flight, whose file the compensation may delete only because no document
names it (`UploadIsAside`). `PassesLeaveNothing` needs that a target has its row's bytes unless they `moved`
(`TargetsAreCurrent`), and that what a pass selected is a target still, or dealt with, or `moved`
(`PassesCover`), for which a scope's representatives must reach every content (the lowest file of each, by
`LeastNumber`).

**`AccessProofs`.** `AdminAlwaysRemains`: who is about to switch an administrator off holds the rows of
all, and there are two (`CountStands`). `OwnersAnswerToAdminsOnly`: who is about to write a level holds the
department's row (`WritersHoldTheRow`), so what the policy judged is what is overwritten
(`JudgmentStands`). `TargetsStand`: what a request remembers of the row it will write is still so.

**`ChatTurnProofs`.** `LoopsKeepTheProtocol`: the calls in the list are those that wait for their
message, and what ran is in the cache (`LoopStands`). `ThreadImplementsTheLog` maps a step to an append, to
a deletion or to a stutter: who is about to insert holds the session's row and the next number
(`WritersHoldTheRow`), until a session exists one turn is making it (`OneTurnMakesTheSession`), and what of a
turn is in the thread is what it has come to (`TurnsStand`).

`ContextsAreSound` is about an algorithm more than about steps. `IsContext` says what a context consists of,
entry by entry, and `BuildContextIsContext` that `BuildContext` returns one for every history: where each
position's entries land in the flattened sequence comes from the recursive function behind `FlattenSeq`
(`FlattenSeqJoins`). `SelectFromKeeps` says where the kept run starts; when its leading answer is skipped the
budget still holds, because leaving messages out never raises the estimate (`KeepingLess`). The recursive
functions are reasoned about by the least place where they would fail (`LeastNumber`, from `WFMin`).
`BuildContextIsOwed` puts these together for every history whose numbers increase, and `ContextsStand` says
every turn that was opened holds the context of such a history: the newest rows of the thread are one because
their numbers are their places, whatever has been written since.

**`PublicApiProofs`.** `AdmissionsAreBounded`: from any admission on, what was let through since and what is
left in the bucket is no more than a full bucket and the refill since (`RateIsKept`), by arithmetic on a map that has
one entry for each key (`OneEach`). `WaitsAreEnough` is arithmetic alone: the ceiling of the wait refills
what was missing. `LockoutsCostOneRow`: rows written and rows owed are no more than lockouts
(`RowsAreOwed`, by cardinality of the set of requests that owe). `FloodsClearNoLockout` follows an entry
through the purge and the eviction.

An entry leaves the sequence by `Among`, whose result for every sequence (a subsequence of exactly the chosen
elements) is proved there too: the library's induction theorems cannot be instantiated here, so the proof takes
the least counterexample instead (`WFMin` over the naturals).

**`RecoveryProofs`.** `CacheOnlySpares` is not inductive as it stands, nor with the cache added: a row is
served by workers with other engines than the one that stored it, and a refresh mixes units of several. So
`Kept` says of every document, stored, loaded or about to be served, what does not depend on who holds it:
each unit is on the route that a fresh read under its gate decides (`Routed`), and whoever has the engines that
made a unit could have made it from the file (`Reproducible`, for all deployments at once). The cases are one
comparison: two deployments whose version for a route is the same have the same engines for it (`SameEngines`;
this is what makes the version string the right key, and fails when the lexicon is left out of it). What a
refresh keeps is current for the worker, hence reproducible by it; what it executes again is what a cold run
executes (`ReasonsDoNotMatter`, since the stored reason is the only thing of the old unit it reads but the
route). `OriginalsAreWithheld` follows unit by unit (`UnitsAreSafe`); a workbook's failed unit holds the original
and is nothing to serve or store (`UnreadHasNothing`). The cascades of `TextVerdict` are reasoned about by
`FirstOfApplies`: the rule that decides applies and none before it does.

Only model-checked, and why:

* liveness (`QueueDrains`, `EveryRunEnds`): out of the prover's reach.
* `ScrollsAreWhole`, `DatesAgree`, `RatesAreAsPublished`, and all of `Chunking`, `Reading`, `Files` and
  `Workbook`: what folds and recursive operators compute on sequences, which would be induction over data. The
  turn's part of the same run (loop, thread, context) is proved.
* `StayedIsActive` and `SourcesPhaseSucceeds` (`Discovery`): the argument is about positions in pages and
  about records that compete, and is not attempted yet.

## 5. Where the code and its words differ

One divergence has a run of its own. `ChunkGap`: `chunk_text` (`chunking.py:89`) advances by
`max(cut - overlap, step_floor)`, which is `step_floor` whatever the cut. When a window is cut early, up to
800 of 2000 characters are in no chunk, against the module's first lines (`chunking.py:5`). `EveryWordIsIndexed`
says what those lines say, and TLC refutes it.

The others were met while modelling; the models do what the code does. Where one would
refute a property, the property names the exception (`masked`, `moved`, `retries`) instead of leaving it out.

*The corpus.*

* `corpus.py:650`: a retry requeues what its selection called failed, although a document may have become
  ready meanwhile, which then leaves retrieval until it is ingested again; 574–576 speak of failed documents.
* `pipeline.py:529`: a swept run ends without frozen counts, so the report of a terminal run goes on
  changing, against 278. `pipeline.py:416`: a run without jobs ends `failed` for a single failed item, against 386–388.
* `sync.py:412`: the floor counts all the records of a discovery, new ones too, not the known sources
  among them (89–90).
* `catalog.py:280`: a replacement a sync learns of while the row is pending, with the older bytes in a
  fetch's uncommitted batch, is never noticed again (249–252). This is what `masked` remembers.
* `sync.py:233`: the transition a sync writes is computed from the index it read; a row fetched since becomes
  `blocked_host` (`catalog.py:234`).
* `supersession.py:255`: the decision looks at one source of a document, aliases have several (56–58).
* `sitemap.py:325` and `351`: a child sitemap that is refused leaves `complete` true (`discovery.py:20–25`).
  Two removals during one discovery hide a page from it too, REST shifting it past the cursor and the sitemap past
  its page; a short page ends the REST walk without a look at `X-WP-Total`.
* `sync.py:287–314`: a row the sync leaves alone is touched and not reactivated. A page whose row an
  earlier sync deactivated, and which this one sees in the sitemap only or at a URL another row owns, stays inactive
  after a complete sync that saw it, against `docs/nrb-integration.md:756` ("reappears | reactivated").
* A renamed post leaves a row with its old URL that the record at that URL collides with from then on; two
  posts that swap URLs never resolve.
* `recovery_cache.py:504`: a refreshed unit keeps the reason of the first recovery, against 495–496. A unit of
  a PDF that was cached flat, after a failed second read, is refreshed from page 1 alone (442, `recovery.py:863–886`).
  OCR failures are sticky, and a worker without an engine overwrites good units.
* Which document represents a content depends on the scope of the pass; a damaged blob is never repaired by a
  pass; the worker does not hash what it parses. An upload whose commit succeeded but whose acknowledgement was
  lost has its file deleted. Two drivers at once enqueue versions in another order than they observed them.

*Accounts and limits.*

* `router.py:178`: the level of the owner who acts is the one read before the lock (`router.py:175`,
  `permissions.py:104`), and `is_active` of the target likewise. Default grants made after an account's commit can
  undo a revocation. Two anonymous first registrations both read a count of 0. A department whose only members
  are people of the directory may have no administrator.
* Sign-ins under way at once all pass `retry_after` before any failure is recorded; and when the map holds
  lockouts only, what is evicted is the identifier that just failed.

*Chat and tools.*

* `history/cursors.py:9–13` promises that a session is never returned again; `updated_at` is the time a
  transaction began (`repository.py:265–269`), which can go back. `ScrollsAreWhole` states what remains true.
* The context's tail may drop rows without the note that says so; a turn that fails or overlaps another leaves
  two user rows in a row. An `httpx` error in the middle of a stream ends without the one terminal `done`
  event. The repeat cache makes a transient error of a tool final for the turn.
* `reassemble.py:55–72` removes an overlap on one coincidental character (31–33). A hard cut that is joined again
  gains a space, and a small block after a full passage is dropped.
* `sources.py:271–280` keeps the first entry of a document, without the pages and the text to verify that only
  later lists presented, against 206–213; a search without hits is not recorded (`search_department_docs.py:258–270`),
  so sources are null where `sources.py:113–123` and 244–248 say `[]`; a passage longer than about 6,000 characters under a citation header leaves no room for itself.
* `read_excel` never gets past a row wider than `READ_MAX_CHARS`, and its budget of 40,000 characters is
  cut to 8,000 by the loop (`loop.py:181–185`), with the note that tells how to go on (`_paging.py:6–12` says so). A line of a
  document exactly as long as the budget is announced as cut though it is whole (`_paging.py:62`, which adds the
  newline). `inspect_excel` reports 0 rows for a sheet that declares no size (`readers.py:148`), beside a sample of them. Of two columns of one name the readers take the last,
  `edit_excel` the first. A save drops the cached values of formulas. `max_rows = 0` never progresses.
* `date_math` floors a fraction of a day on a date without a time; the label of the fiscal year before the
  calendar's first year raises outside the tool's `try`.

*Beside the models.* Two transactions that lock rows in opposite order (`jobs.py:136` with
`worker.py:274`, and `catalog.py:457`) make PostgreSQL abort one: a fault here. `reingest.py:91` finds documents by
pipeline version, which a worker still running the old code sets back. `publicapi/ocr_router.py:238`: a caller who
leaves while a place is waited for, and what happens to the place and the temporary file, is modelled at the
awaits the code has, not inside the event loop's cancellation.

## 6. Not modelled, and the plan

Left out for good: evaluation and reports, parsers of file formats, the HTTP clients (an outcome each), embedding
and the ranking in SQL (any order), the scoring of glyphs and words and the conversion of legacy fonts,
the calculator, charts and the writers of documents, wiring and migrations (the constraints they create are
guards), the command-line scripts. Left out of modelled parts: dry runs, counters, notes, titles and other
descriptive columns, listing queries.

Next, most important first:

1. `Discovery`: `StayedIsActive` from an invariant that says where a post that stays can be, given one
   removal in each walk: behind the cursor and seen, or ahead of it.
2. `Scroll`: that a scroll returns what was there and was not moved, by the order of cursors.
3. `Files`: `RowsHaveFiles`, whose argument (no row before its file, no file deleted under a row) needs no
   data, in a theorem of its own.
4. More of the schema's constraints as parts of the type invariants.

------------------------------ MODULE Catalog ------------------------------
(***************************************************************************)
(* The NRB catalog: what the bank's website publishes, mirrored into       *)
(* nrb_sources, nrb_source_files and nrb_files by syncs (app/nrb/sync.py), *)
(* and the published files downloaded by fetches (app/nrb/fetch.py).       *)
(*                                                                         *)
(* A sync reads the site once and reconciles the tables with what it read, *)
(* one committed phase after another; a fetch selects files, downloads     *)
(* them and records the outcomes in batches.  Each kind of pass has an     *)
(* advisory lock of its own, so a sync and a fetch do run together, and    *)
(* each writes rows the other read earlier.  The site changes meanwhile,   *)
(* and a process may die between two transactions.                         *)
(*                                                                         *)
(* A source is a page's identity and a file is its comparison_key.  Bytes  *)
(* and their reported size are a version number: a new version is a new    *)
(* content_sha256, and 0 stands for NULL.                                  *)
(***************************************************************************)
EXTENDS Naturals, FiniteSets

CONSTANTS
    Procs,           \* processes that run scripts/nrb_sync.py or nrb_fetch.py
    Sources, Files,
    RecordBatch,     \* fetch.RECORD_BATCH
    FloorMin,        \* sync.SHRINK_FLOOR_MIN_SOURCES
    FloorPercent,    \* sync.SHRINK_FLOOR, in percent
    MaxVersion,      \* bound on the versions of a file
    MaxSyncs, MaxFetches, MaxEdits, MaxCrashes,
    MayRefuse,       \* files whose URL may come to be one the guard refuses
    MayHide          \* files whose size the site may stop reporting

ASSUME CatalogAssumption ==
    /\ IsFiniteSet(Sources) /\ IsFiniteSet(Files)
    /\ RecordBatch \in Nat \ {0}
    /\ FloorMin \in Nat /\ FloorPercent \in 0..100
    /\ MaxVersion \in Nat \ {0}
    /\ MaxSyncs \in Nat /\ MaxFetches \in Nat
    /\ MaxEdits \in Nat /\ MaxCrashes \in Nat
    /\ MayRefuse \subseteq Files /\ MayHide \subseteq Files

VARIABLES
    sitePage,     \* what each page publishes: Absent, SitemapOnly or its files
    siteVersion,  \* the bytes behind each file's URL
    unsized,      \* files the site reports no size for
    refused,      \* files whose URL check_url refuses
    source,       \* nrb_sources
    links,        \* nrb_source_files: the files of each source
    file,         \* nrb_files
    pc,           \* where each process is
    found,        \* the discovery a sync reconciles with
    index,        \* load_file_index: nrb_files as a sync read them
    was,          \* active_known: the sources active before a sync
    todo,         \* resolved sources whose relationships a sync has yet to write
    run,          \* the id of a sync's nrb_sync_runs row
    targets,      \* files a fetch has selected and not attempted
    rows,         \* pending_rows: outcomes a fetch has not committed
    masked,       \* history: files a sync met while a replacement could hide
    left          \* what remains of each bound

site == <<sitePage, siteVersion, unsized, refused>>
catalog == <<source, links, file>>
syncVars == <<found, index, was, todo, run>>
fetchVars == <<targets, rows>>
vars == <<site, catalog, pc, syncVars, fetchVars, masked, left>>

\* A page that is not published, or has no row; one the sitemap lists and REST
\* does not serve; one REST serves, with its files.
Absent == [kind |-> "absent", files |-> {}]
SitemapOnly == [kind |-> "sitemap_only", files |-> {}]
Rest(files) == [kind |-> "rest", files |-> files]
Pages == {Absent, SitemapOnly} \union {Rest(files) : files \in SUBSET Files}

Versions == 0..MaxVersion
Statuses == {"pending", "fetched", "failed", "blocked_host"}
SyncStations == {"load", "files", "sources", "links"}
Bounds == {"syncs", "fetches", "edits", "crashes"}

Discoveries == [page: [Sources -> Pages], reported: [Files -> Versions],
                refused: SUBSET Files, complete: BOOLEAN]
FileRows == [status: Statuses \union {"none"}, reported: Versions, content: Versions]
Outcomes == [status: Statuses \union {"none"}, content: Versions]

\* nrb_source_files: a row for each source and file it publishes, once.
SourceFiles == [Sources -> SUBSET Files]

TypeOK ==
    /\ sitePage \in [Sources -> Pages]
    /\ siteVersion \in [Files -> Versions]
    /\ unsized \subseteq Files
    /\ refused \subseteq Files
    /\ source \in [Sources -> [page: Pages, active: BOOLEAN, stamp: 0..MaxSyncs]]
    /\ links \in SourceFiles
    /\ file \in [Files -> FileRows]
    /\ pc \in [Procs -> SyncStations \union {"idle", "fetch"}]
    /\ found \in [Procs -> Discoveries]
    /\ index \in [Procs -> [Files -> FileRows]]
    /\ was \in [Procs -> SUBSET Sources]
    /\ todo \in [Procs -> SUBSET Sources]
    /\ run \in [Procs -> 0..MaxSyncs]
    /\ targets \in [Procs -> SUBSET Files]
    /\ rows \in [Procs -> [Files -> Outcomes]]
    /\ masked \subseteq Files
    /\ left \in [Bounds -> Nat]

NoRow == [status |-> "none", reported |-> 0, content |-> 0]
NoOutcome == [status |-> "none", content |-> 0]
NoRows == [f \in Files |-> NoRow]
NoOutcomes == [f \in Files |-> NoOutcome]
NoDiscovery == [page |-> [s \in Sources |-> Absent], reported |-> [f \in Files |-> 0],
                refused |-> {}, complete |-> FALSE]

\* An empty catalog in front of a site whose every page publishes every file.
Init ==
    /\ sitePage = [s \in Sources |-> Rest(Files)]
    /\ siteVersion = [f \in Files |-> 1]
    /\ unsized = {}
    /\ refused = {}
    /\ source = [s \in Sources |-> [page |-> Absent, active |-> FALSE, stamp |-> 0]]
    /\ links = [s \in Sources |-> {}]
    /\ file = NoRows
    /\ pc = [p \in Procs |-> "idle"]
    /\ found = [p \in Procs |-> NoDiscovery]
    /\ index = [p \in Procs |-> NoRows]
    /\ was = [p \in Procs |-> {}]
    /\ todo = [p \in Procs |-> {}]
    /\ run = [p \in Procs |-> 0]
    /\ targets = [p \in Procs |-> {}]
    /\ rows = [p \in Procs |-> NoOutcomes]
    /\ masked = {}
    /\ left = [b \in Bounds |-> IF b = "syncs" THEN MaxSyncs
                                ELSE IF b = "fetches" THEN MaxFetches
                                ELSE IF b = "edits" THEN MaxEdits
                                ELSE MaxCrashes]

Spend(b) == left[b] > 0 /\ left' = [left EXCEPT ![b] = @ - 1]
Goto(p, s) == pc' = [pc EXCEPT ![p] = s]

\* A pass that ends, or dies, forgets everything it held in memory.
Leave(p) ==
    /\ Goto(p, "idle")
    /\ found' = [found EXCEPT ![p] = NoDiscovery]
    /\ index' = [index EXCEPT ![p] = NoRows]
    /\ was' = [was EXCEPT ![p] = {}]
    /\ todo' = [todo EXCEPT ![p] = {}]
    /\ run' = [run EXCEPT ![p] = 0]
    /\ targets' = [targets EXCEPT ![p] = {}]
    /\ rows' = [rows EXCEPT ![p] = NoOutcomes]

-----------------------------------------------------------------------------
(* The website.                                                            *)

\* The bank edits a page, replaces a file, moves it to or from a URL the guard
\* refuses, or stops and starts reporting its size.
EditSite ==
    /\ Spend("edits")
    /\ \/ /\ \E s \in Sources, g \in Pages :
                g # sitePage[s] /\ sitePage' = [sitePage EXCEPT ![s] = g]
          /\ UNCHANGED <<siteVersion, unsized, refused>>
       \/ /\ \E f \in Files :
                /\ siteVersion[f] < MaxVersion
                /\ siteVersion' = [siteVersion EXCEPT ![f] = @ + 1]
          /\ UNCHANGED <<sitePage, unsized, refused>>
       \/ /\ \E f \in MayRefuse :
                refused' = IF f \in refused THEN refused \ {f} ELSE refused \union {f}
          /\ UNCHANGED <<sitePage, siteVersion, unsized>>
       \/ /\ \E f \in MayHide :
                unsized' = IF f \in unsized THEN unsized \ {f} ELSE unsized \union {f}
          /\ UNCHANGED <<sitePage, siteVersion, refused>>
    /\ UNCHANGED <<catalog, pc, syncVars, fetchVars, masked>>

-----------------------------------------------------------------------------
(* Discovery.                                                              *)

Seen(d) == {s \in Sources : d.page[s] # Absent}
FoundFiles(d) == UNION {d.page[s].files : s \in Sources}

\* discover_corpus pages through REST and then walks the sitemap.  A fetch error, a
\* bound or an unread sitemap leaves pages unseen; a page that shifted past the REST
\* cursor is missed there and read from the sitemap.
PagesRead(seen, missed) ==
    [s \in Sources |-> IF s \notin seen THEN Absent
                      ELSE IF s \in missed THEN SitemapOnly
                      ELSE sitePage[s]]

\* The records of a pass over the site that read these pages.
Reading(page, complete) ==
    LET read == UNION {page[s].files : s \in Sources}
    IN [page |-> page,
        reported |-> [f \in Files |-> IF f \in read \ unsized THEN siteVersion[f] ELSE 0],
        refused |-> refused \intersect read,
        complete |-> complete]

-----------------------------------------------------------------------------
(* Sync: files, then sources, then relationships, then deactivation, each  *)
(* in transactions of its own.                                             *)

Syncing(p) == pc[p] \in SyncStations

\* run_sync: the lock, the discovery and the committed nrb_sync_runs row.  A
\* second sync is refused (SyncBusy).
BeginSync(p) ==
    /\ pc[p] = "idle"
    /\ \A q \in Procs : ~Syncing(q)
    /\ Spend("syncs")
    /\ run' = [run EXCEPT ![p] = MaxSyncs - left["syncs"] + 1]
    /\ \E seen, missed \in SUBSET Sources, complete \in BOOLEAN :
          /\ complete => seen = Sources
          /\ missed \subseteq {s \in seen : sitePage[s].kind = "rest"}
          /\ found' = [found EXCEPT ![p] = Reading(PagesRead(seen, missed), complete)]
    /\ Goto(p, "load")
    /\ UNCHANGED <<site, catalog, index, was, todo, fetchVars, masked>>

\* load_file_index.
LoadFiles(p) ==
    /\ pc[p] = "load"
    /\ index' = [index EXCEPT ![p] = file]
    /\ Goto(p, "files")
    /\ UNCHANGED <<site, catalog, found, was, todo, run, fetchVars, masked, left>>

\* Mutant of Replaced: only a file that shrank counts.
ReplacedBySmaller(row, reported) == row.reported # 0 /\ reported # 0 /\ reported < row.reported

\* _replaced_upstream: both values must be known.
Replaced(row, reported) == row.reported # 0 /\ reported # 0 /\ row.reported # reported

\* FileState.fetch_transition: the status a sync writes, or "keep" for none.
Transition(row, reported, isRefused) ==
    IF isRefused /\ row.status # "blocked_host"
      THEN IF row.status = "fetched" THEN "keep" ELSE "blocked_host"
    ELSE IF ~isRefused /\ row.status = "blocked_host"
      THEN "pending"
    ELSE IF row.status \in {"fetched", "failed"} /\ Replaced(row, reported)
      THEN "pending"
    ELSE "keep"

TransitionOf(p, f) ==
    Transition(index[p][f], found[p].reported[f], f \in found[p].refused)

\* insert_files and update_files: the facts always, the status only as the
\* transition computed from the index says.
Reconciled(p, f) ==
    LET reported == found[p].reported[f]
        status == IF index[p][f].status = "none"
                  THEN IF f \in found[p].refused THEN "blocked_host" ELSE "pending"
                  ELSE IF TransitionOf(p, f) = "keep" THEN file[f].status
                  ELSE TransitionOf(p, f)
    IN [status |-> status, reported |-> reported, content |-> file[f].content]

\* ck_nrb_files_blocked_reason: {"fetch_status": "pending"} alone is refused on
\* a row that was blocked, with its reason, after the index was read.
BlockedSinceLoad(p) ==
    \E f \in FoundFiles(found[p]) :
        /\ file[f].status = "blocked_host" /\ index[p][f].status # "blocked_host"
        /\ TransitionOf(p, f) = "pending"

\* Files whose replacement no later sync can tell: it was read behind a refused
\* URL or without a size, or a fetch had their older bytes in hand.
Masked(p) ==
    {f \in FoundFiles(found[p]) :
        \/ f \in found[p].refused \/ found[p].reported[f] = 0
        \/ file[f] # index[p][f]
        \/ \E q \in Procs : rows[q][f] # NoOutcome}

WriteFiles(p) ==
    /\ pc[p] = "files"
    /\ ~BlockedSinceLoad(p)
    /\ file' = [f \in Files |->
                  IF f \in FoundFiles(found[p]) THEN Reconciled(p, f) ELSE file[f]]
    /\ masked' = masked \union Masked(p)
    /\ Goto(p, "sources")
    /\ UNCHANGED <<site, source, links, syncVars, fetchVars, left>>

WriteFilesRefused(p) ==
    /\ pc[p] = "files"
    /\ BlockedSinceLoad(p)
    /\ Leave(p)
    /\ UNCHANGED <<site, catalog, masked, left>>

\* A record known from the sitemap only does not overwrite a source REST
\* described: its row is stamped and otherwise left alone.
LeftAlone(p, s) ==
    found[p].page[s] = SitemapOnly /\ source[s].page.kind = "rest"

\* Mutant of Resolved: only sources whose metadata_hash moved, or that are new.
ResolvedIfChanged(p) ==
    {s \in Seen(found[p]) :
        ~LeftAlone(p, s) /\ (source[s].page # found[p].page[s] \/ ~source[s].active)}

\* Sources whose row and relationships follow the discovery, whether or not
\* their metadata_hash moved.
Resolved(p) == {s \in Seen(found[p]) : ~LeftAlone(p, s)}

\* insert_sources, update_sources and touch_sources stamp every record's row.
Stamped(p) == Seen(found[p])

WriteSources(p) ==
    /\ pc[p] = "sources"
    /\ source' = [s \in Sources |->
                    IF s \in Resolved(p)
                      THEN [page |-> found[p].page[s], active |-> TRUE, stamp |-> run[p]]
                    ELSE IF s \in Stamped(p)
                      THEN [source[s] EXCEPT !.stamp = run[p]]
                    ELSE source[s]]
    /\ was' = [was EXCEPT ![p] = {s \in Sources : source[s].active}]
    /\ todo' = [todo EXCEPT ![p] = Resolved(p)]
    /\ Goto(p, "links")
    /\ UNCHANGED <<site, links, file, found, index, run, fetchVars, masked, left>>

\* insert_, update_ and delete_relationships bring one source's rows to what was
\* found; the files themselves stay.
Relationships(p, s) == [links EXCEPT ![s] = found[p].page[s].files]

\* Relationships commit at source boundaries: one source's set at a time.
WriteLinks(p) ==
    /\ pc[p] = "links"
    /\ \E s \in todo[p] :
          /\ links' = Relationships(p, s)
          /\ todo' = [todo EXCEPT ![p] = @ \ {s}]
    /\ UNCHANGED <<site, source, file, pc, found, index, was, run, fetchVars, masked, left>>

\* The shrink floor counts every record of the discovery, new ones included.
BelowFloor(p) ==
    /\ Cardinality(was[p]) >= FloorMin
    /\ Cardinality(Stamped(p)) * 100 < FloorPercent * Cardinality(was[p])

MayDeactivate(p) == found[p].complete /\ ~BelowFloor(p)

\* deactivate_unseen, and finish_run.
Deactivate(p) ==
    /\ pc[p] = "links" /\ todo[p] = {}
    /\ MayDeactivate(p)
    /\ source' = [s \in Sources |->
                    IF source[s].active /\ source[s].stamp # run[p]
                    THEN [source[s] EXCEPT !.active = FALSE]
                    ELSE source[s]]
    /\ Leave(p)
    /\ UNCHANGED <<site, links, file, masked, left>>

SkipDeactivation(p) ==
    /\ pc[p] = "links" /\ todo[p] = {}
    /\ ~MayDeactivate(p)
    /\ Leave(p)
    /\ UNCHANGED <<site, catalog, masked, left>>

-----------------------------------------------------------------------------
(* Fetch.                                                                  *)

Fetching(p) == pc[p] = "fetch"

\* select_fetch_targets: pending files, failed ones too when a retry is asked
\* for, that an active source publishes.
Selectable(retryFailed) ==
    {f \in Files :
        /\ file[f].status \in {"pending"} \union (IF retryFailed THEN {"failed"} ELSE {})
        /\ \E s \in Sources : source[s].active /\ f \in links[s]}

\* run_fetch: the lock, the selection in the operator's scope and the run row.
\* A second fetch is refused (FetchBusy).
BeginFetch(p) ==
    /\ pc[p] = "idle"
    /\ \A q \in Procs : ~Fetching(q)
    /\ Spend("fetches")
    /\ \E retryFailed \in BOOLEAN :
       \E scope \in SUBSET Selectable(retryFailed) \ {{}} :
          targets' = [targets EXCEPT ![p] = scope]
    /\ Goto(p, "fetch")
    /\ UNCHANGED <<site, catalog, syncVars, rows, masked>>

Batch(p) == {f \in Files : rows[p][f] # NoOutcome}

\* fetch_one and _row_for: what one attempt at f can come to.  The guard is asked
\* again, and may refuse by now the URL the selection held.
OutcomesOf(f) ==
    {[status |-> "fetched", content |-> siteVersion[f]], [status |-> "failed", content |-> 0]}
    \union (IF f \in refused THEN {[status |-> "blocked_host", content |-> 0]} ELSE {})

FetchOne(p) ==
    /\ Fetching(p)
    /\ Cardinality(Batch(p)) < RecordBatch
    /\ \E f \in targets[p] :
          /\ \E outcome \in OutcomesOf(f) : rows' = [rows EXCEPT ![p][f] = outcome]
          /\ targets' = [targets EXCEPT ![p] = @ \ {f}]
    /\ UNCHANGED <<site, catalog, pc, syncVars, masked, left>>

\* Mutant of RowAfter: a failed attempt writes its empty content columns.
RowAfterNulling(f, outcome) ==
    [file[f] EXCEPT !.status = outcome.status, !.content = outcome.content]

\* record_fetch_outcomes: by id, whatever the row has become since it was
\* selected; the content columns only on success.
RowAfter(f, outcome) ==
    [file[f] EXCEPT !.status = outcome.status,
                    !.content = IF outcome.status = "fetched" THEN outcome.content ELSE @]

Recorded(p) ==
    [f \in Files |-> IF f \in Batch(p) THEN RowAfter(f, rows[p][f]) ELSE file[f]]

\* ck_nrb_files_blocked_reason: no other status on a row a sync has blocked.
RowsRefused(p) ==
    \E f \in Batch(p) : file[f].status = "blocked_host" /\ rows[p][f].status # "blocked_host"

RecordOutcomes(p) ==
    /\ Fetching(p)
    /\ Cardinality(Batch(p)) = RecordBatch
    /\ ~RowsRefused(p)
    /\ file' = Recorded(p)
    /\ rows' = [rows EXCEPT ![p] = NoOutcomes]
    /\ UNCHANGED <<site, source, links, pc, syncVars, targets, masked, left>>

\* The targets are done, the byte budget is spent or the loop raised: the
\* `finally` records what is pending.
EndFetch(p) ==
    /\ Fetching(p)
    /\ Cardinality(Batch(p)) < RecordBatch
    /\ ~RowsRefused(p)
    /\ file' = Recorded(p)
    /\ Leave(p)
    /\ UNCHANGED <<site, source, links, masked, left>>

\* One refused row aborts the transaction, the `except` and the `finally` that
\* write in it fail too, and the whole batch is lost.
LoseBatch(p) ==
    /\ Fetching(p)
    /\ RowsRefused(p)
    /\ Leave(p)
    /\ UNCHANGED <<site, catalog, masked, left>>

-----------------------------------------------------------------------------

\* The process dies, or a phase of a sync raises: the open transaction is rolled
\* back, committed phases stay.
Crash(p) ==
    /\ pc[p] # "idle"
    /\ Spend("crashes")
    /\ Leave(p)
    /\ UNCHANGED <<site, catalog, masked>>

Next ==
    \/ EditSite
    \/ \E p \in Procs :
        \/ BeginSync(p) \/ LoadFiles(p) \/ WriteFiles(p) \/ WriteFilesRefused(p)
        \/ WriteSources(p) \/ WriteLinks(p) \/ Deactivate(p) \/ SkipDeactivation(p)
        \/ BeginFetch(p) \/ FetchOne(p) \/ RecordOutcomes(p) \/ EndFetch(p) \/ LoseBatch(p)
        \/ Crash(p)

Spec == Init /\ [][Next]_vars

-----------------------------------------------------------------------------
(* Properties.                                                             *)

\* When a sync applies its deactivation, the sources mirror what it read: what
\* it saw is active and has exactly the files it publishes, whatever earlier
\* syncs left half done, and the rest is inactive (sync.py: "the next run
\* finishes the job").  Rows left alone for want of REST data are exempt.
CompletedSyncMirrorsTheSite ==
    [][\A p \in Procs : Deactivate(p) =>
          \A s \in Sources :
             LET page == found[p].page[s]
             IN IF page = Absent THEN ~source'[s].active
                ELSE \/ page = SitemapOnly /\ source[s].page.kind = "rest"
                     \/ /\ source'[s].active
                        /\ source'[s].page = page
                        /\ links'[s] = page.files]_vars

\* A download never loses bytes already had, nor puts older ones back: the
\* content pointer of a row only moves to a later version.
ContentNeverGoesBack ==
    [][\A f \in Files : file'[f].content >= file[f].content]_vars

\* A fetched row holds bytes at least as new as the size it reports, unless the
\* replacement came behind a refused URL, without a size, or under a fetch.
NoticedReplacementIsRefetched ==
    \A f \in Files : file[f].status = "fetched" /\ f \notin masked =>
        file[f].content >= file[f].reported
=============================================================================

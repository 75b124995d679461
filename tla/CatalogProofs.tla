--------------------------- MODULE CatalogProofs ---------------------------
(***************************************************************************)
(* Theorems about Catalog, for any sources, files, processes, batches and  *)
(* floors: what a completed sync leaves, and what a fetch does to the      *)
(* bytes a row already names.                                              *)
(***************************************************************************)
EXTENDS Catalog, Integers, TLAPS

\* The advisory locks: a sync and a fetch may be under way, never two of a kind.
OnePassOfAKind ==
    \A p, q \in Procs : (Syncing(p) /\ Syncing(q)) \/ (Fetching(p) /\ Fetching(q)) => p = q

\* No row and no discovery is ahead of the site.
SiteIsAhead ==
    \A f \in Files :
        /\ file[f].content <= siteVersion[f] /\ file[f].reported <= siteVersion[f]
        /\ \A p \in Procs : found[p].reported[f] <= siteVersion[f]

\* Bytes in the hands of a fetch are no older than those of the row.
OutcomesInHand ==
    \A p \in Procs, f \in Files :
        /\ rows[p][f] # NoOutcome => Fetching(p)
        /\ rows[p][f].status = "fetched" =>
             /\ file[f].content <= rows[p][f].content
             /\ rows[p][f].content <= siteVersion[f]
             /\ f \notin masked => file[f].reported <= rows[p][f].content

\* A row whose size is not known was met without one.
SizesAreKnown ==
    \A f \in Files : file[f].status # "none" /\ f \notin masked => file[f].reported # 0

\* A sync under way has the last number, and nothing is stamped with it before it writes.
SyncsAreNumbered ==
    /\ left["syncs"] <= MaxSyncs
    /\ \A s \in Sources : source[s].stamp <= MaxSyncs - left["syncs"]
    /\ \A p \in Procs : Syncing(p) =>
         /\ run[p] = MaxSyncs - left["syncs"]
         /\ pc[p] # "links" => \A s \in Sources : source[s].stamp # run[p]

\* Once the sources are written, the stamp tells what was seen, and what is not left
\* alone is as discovered, but for the relationships that are still to be written.
SourcesFollow ==
    \A p \in Procs : pc[p] = "links" => \A s \in Sources :
        LET page == found[p].page[s]
        IN IF page = Absent THEN source[s].stamp # run[p]
           ELSE /\ source[s].stamp = run[p]
                /\ \/ page = SitemapOnly /\ source[s].page.kind = "rest"
                   \/ /\ source[s].active /\ source[s].page = page
                      /\ s \in todo[p] \/ links[s] = page.files

Inv ==
    /\ TypeOK /\ NoticedReplacementIsRefetched /\ OnePassOfAKind /\ SiteIsAhead
    /\ OutcomesInHand /\ SizesAreKnown /\ SyncsAreNumbered /\ SourcesFollow

-----------------------------------------------------------------------------
(* Types *)

LEMMA EmptyIsTyped ==
  /\ NoRow \in FileRows /\ NoRows \in [Files -> FileRows]
  /\ NoOutcome \in Outcomes /\ NoOutcomes \in [Files -> Outcomes]
  /\ NoDiscovery \in Discoveries
  /\ \A f \in Files : NoOutcomes[f] = NoOutcome /\ NoDiscovery.reported[f] = 0
  /\ NoOutcome.status = "none"
  <1>1. 0 \in Versions
    BY CatalogAssumption DEF Versions
  <1>2. QED
    BY <1>1 DEF NoRow, FileRows, NoRows, NoOutcome, Outcomes, NoOutcomes, NoDiscovery, Discoveries,
                Pages, Statuses

LEMMA InitIsTyped == Init => TypeOK
  <1>1. 0 \in Versions /\ 1 \in Versions /\ 0 \in 0..MaxSyncs
    BY CatalogAssumption DEF Versions
  <1>2. Rest(Files) \in Pages /\ Absent \in Pages
    BY DEF Pages
  <1>3. QED
    BY <1>1, <1>2, EmptyIsTyped, CatalogAssumption DEF Init, TypeOK, Bounds, SyncStations, SourceFiles

LEMMA EditIsTyped == TypeOK /\ EditSite => TypeOK'
  <1> SUFFICES ASSUME TypeOK, EditSite PROVE TypeOK'
    OBVIOUS
  <1>1. /\ UNCHANGED <<source, links, file, pc, found, index, was, todo, run, targets, rows, masked>>
        /\ left["edits"] > 0 /\ left' = [left EXCEPT !["edits"] = @ - 1]
    BY DEF EditSite, catalog, syncVars, fetchVars, Spend
  <1>2. left' \in [Bounds -> Nat]
    BY <1>1 DEF TypeOK, Bounds
  <1>3. sitePage' \in [Sources -> Pages]
    BY DEF EditSite, TypeOK
  <1>4. siteVersion' \in [Files -> Versions]
    <2>1. ASSUME NEW f \in Files, siteVersion[f] < MaxVersion PROVE siteVersion[f] + 1 \in Versions
      BY <2>1, CatalogAssumption DEF TypeOK, Versions
    <2>2. QED
      BY <2>1 DEF EditSite, TypeOK
  <1>5. unsized' \subseteq Files
    BY CatalogAssumption DEF EditSite, TypeOK
  <1>6. refused' \subseteq Files
    BY CatalogAssumption DEF EditSite, TypeOK
  <1>7. QED
    BY <1>1, <1>2, <1>3, <1>4, <1>5, <1>6 DEF TypeOK

\* A pass forgets what it held, and the others keep theirs.
LEMMA LeaveForgets ==
  ASSUME TypeOK, NEW p \in Procs, Leave(p)
  PROVE  /\ pc' \in [Procs -> SyncStations \union {"idle", "fetch"}]
         /\ found' \in [Procs -> Discoveries] /\ index' \in [Procs -> [Files -> FileRows]]
         /\ was' \in [Procs -> SUBSET Sources] /\ todo' \in [Procs -> SUBSET Sources]
         /\ run' \in [Procs -> 0..MaxSyncs] /\ targets' \in [Procs -> SUBSET Files]
         /\ rows' \in [Procs -> [Files -> Outcomes]]
         /\ pc'[p] = "idle" /\ found'[p] = NoDiscovery /\ rows'[p] = NoOutcomes
         /\ \A q \in Procs \ {p} :
              /\ pc'[q] = pc[q] /\ found'[q] = found[q] /\ index'[q] = index[q]
              /\ todo'[q] = todo[q] /\ run'[q] = run[q] /\ rows'[q] = rows[q]
  BY EmptyIsTyped, CatalogAssumption DEF TypeOK, Leave, Goto

LEMMA PagesHoldFiles ==
  ASSUME TypeOK, NEW p \in Procs
  PROVE  /\ found[p].page \in [Sources -> Pages]
         /\ \A s \in Sources : found[p].page[s].files \subseteq Files
  <1>1. \A g \in Pages : g.files \subseteq Files
    BY DEF Pages, Rest, Absent, SitemapOnly
  <1>2. found[p].page \in [Sources -> Pages]
    BY DEF TypeOK, Discoveries
  <1>3. QED
    BY <1>1, <1>2

LEMMA ReadingIsTyped ==
  ASSUME TypeOK, NEW seen \in SUBSET Sources, NEW missed \in SUBSET Sources, NEW complete \in BOOLEAN
  PROVE  /\ Reading(PagesRead(seen, missed), complete) \in Discoveries
         /\ \A f \in Files : Reading(PagesRead(seen, missed), complete).reported[f] \in {0, siteVersion[f]}
  <1> DEFINE page == PagesRead(seen, missed)
             read == UNION {page[s].files : s \in Sources}
  <1>1. page \in [Sources -> Pages]
    BY DEF PagesRead, Pages, TypeOK
  <1>2. \A g \in Pages : g.files \subseteq Files
    BY DEF Pages, Rest, Absent, SitemapOnly
  <1>3. read \subseteq Files
    BY <1>1, <1>2
  <1> HIDE DEF page, read
  <1>4. Reading(page, complete) = [page |-> page,
                       reported |-> [f \in Files |-> IF f \in read \ unsized THEN siteVersion[f] ELSE 0],
                       refused |-> refused \intersect read, complete |-> complete]
    BY DEF Reading, read
  <1>5. 0 \in Versions
    BY CatalogAssumption DEF Versions
  <1>6. Reading(page, complete) \in Discoveries
    BY <1>1, <1>3, <1>4, <1>5 DEF Discoveries, TypeOK
  <1>7. QED
    BY <1>4, <1>6 DEF page

-----------------------------------------------------------------------------
(* A step of a pass that leaves the tables alone *)

LEMMA LeaveStands ==
  ASSUME Inv, NEW p \in Procs, Leave(p), UNCHANGED <<site, catalog, masked>>,
         left' \in [Bounds -> Nat], left'["syncs"] = left["syncs"]
  PROVE  Inv'
  <1> USE DEF Inv
  <1>0. /\ pc'[p] = "idle" /\ found'[p] = NoDiscovery /\ rows'[p] = NoOutcomes
        /\ \A q \in Procs \ {p} :
              /\ pc'[q] = pc[q] /\ found'[q] = found[q] /\ todo'[q] = todo[q]
              /\ run'[q] = run[q] /\ rows'[q] = rows[q]
    BY LeaveForgets
  <1>1. UNCHANGED <<sitePage, siteVersion, unsized, refused, source, links, file, masked>>
    BY DEF site, catalog
  <1>2. TypeOK'
    BY <1>1, LeaveForgets DEF TypeOK
  <1>3. NoticedReplacementIsRefetched' /\ SizesAreKnown'
    BY <1>1 DEF NoticedReplacementIsRefetched, SizesAreKnown
  <1>4. OnePassOfAKind'
    BY <1>0 DEF OnePassOfAKind, Syncing, Fetching, SyncStations
  <1>5. SiteIsAhead'
    <2>1. \A f \in Files : siteVersion[f] \in Nat
      BY CatalogAssumption DEF TypeOK, Versions
    <2>2. QED
      BY <1>0, <1>1, <2>1, EmptyIsTyped DEF SiteIsAhead
  <1>6. OutcomesInHand'
    BY <1>0, <1>1, EmptyIsTyped DEF OutcomesInHand, Fetching
  <1>7. SyncsAreNumbered'
    BY <1>0, <1>1 DEF SyncsAreNumbered, Syncing, SyncStations
  <1>8. SourcesFollow'
    BY <1>0, <1>1 DEF SourcesFollow
  <1>9. QED
    BY <1>2, <1>3, <1>4, <1>5, <1>6, <1>7, <1>8

LEMMA EditStands == Inv /\ EditSite => Inv'
  <1> SUFFICES ASSUME Inv, EditSite PROVE Inv'
    OBVIOUS
  <1> USE DEF Inv
  <1>1. /\ UNCHANGED <<source, links, file, pc, found, index, was, todo, run, targets, rows, masked>>
        /\ left'["syncs"] = left["syncs"]
    BY DEF EditSite, catalog, syncVars, fetchVars, Spend, TypeOK, Bounds
  <1>2. \A f \in Files : siteVersion[f] \in Nat /\ siteVersion'[f] \in Nat /\ siteVersion[f] <= siteVersion'[f]
    BY CatalogAssumption DEF EditSite, TypeOK, Versions
  <1>3. TypeOK'
    BY EditIsTyped
  <1>4. NoticedReplacementIsRefetched' /\ SizesAreKnown' /\ OnePassOfAKind' /\ SyncsAreNumbered' /\ SourcesFollow'
    BY <1>1 DEF NoticedReplacementIsRefetched, SizesAreKnown, OnePassOfAKind, SyncsAreNumbered, SourcesFollow,
                Syncing, Fetching
  <1>5. SiteIsAhead'
    <2>1. \A f \in Files : file[f].content \in Nat /\ file[f].reported \in Nat
      BY CatalogAssumption DEF TypeOK, Versions, FileRows
    <2>2. \A f \in Files, p \in Procs : found[p].reported[f] \in Nat
      BY CatalogAssumption DEF TypeOK, Versions, Discoveries
    <2>3. QED
      BY <1>1, <1>2, <2>1, <2>2 DEF SiteIsAhead
  <1>6. OutcomesInHand'
    <2>1. \A p \in Procs, f \in Files : rows[p][f].content \in Nat
      BY CatalogAssumption DEF TypeOK, Versions, Outcomes
    <2>2. QED
      BY <1>1, <1>2, <2>1 DEF OutcomesInHand, Fetching
  <1>7. QED
    BY <1>3, <1>4, <1>5, <1>6

-----------------------------------------------------------------------------
(* The steps of a sync *)

LEMMA BeginSyncStands ==
  ASSUME Inv, NEW p \in Procs, BeginSync(p)
  PROVE  Inv'
  <1> USE DEF Inv
  <1>1. PICK d \in Discoveries :
          /\ \A f \in Files : d.reported[f] \in {0, siteVersion[f]}
          /\ found' = [found EXCEPT ![p] = d]
    BY ReadingIsTyped DEF BeginSync
  <1>2. /\ UNCHANGED <<sitePage, siteVersion, unsized, refused, source, links, file, index, was, todo,
                       targets, rows, masked>>
        /\ left["syncs"] > 0 /\ left' = [left EXCEPT !["syncs"] = @ - 1]
        /\ run' = [run EXCEPT ![p] = MaxSyncs - left["syncs"] + 1] /\ pc' = [pc EXCEPT ![p] = "load"]
        /\ \A q \in Procs : ~Syncing(q)
    BY DEF BeginSync, site, catalog, fetchVars, Spend, Goto
  <1>3. left["syncs"] \in Nat /\ left["syncs"] <= MaxSyncs /\ MaxSyncs \in Nat
    BY CatalogAssumption DEF TypeOK, Bounds, SyncsAreNumbered
  <1>4. /\ left' \in [Bounds -> Nat] /\ left'["syncs"] = left["syncs"] - 1
        /\ run' \in [Procs -> 0..MaxSyncs]
    BY <1>2, <1>3 DEF TypeOK, Bounds
  <1>5. /\ pc'[p] = "load" /\ found'[p] = d /\ run'[p] = MaxSyncs - left["syncs"] + 1
        /\ \A q \in Procs \ {p} : pc'[q] = pc[q] /\ found'[q] = found[q] /\ run'[q] = run[q]
        /\ pc[p] = "idle"
    BY <1>1, <1>2 DEF TypeOK, BeginSync
  <1>6. TypeOK'
    <2>1. pc' \in [Procs -> SyncStations \union {"idle", "fetch"}] /\ found' \in [Procs -> Discoveries]
      BY <1>1, <1>2 DEF TypeOK, SyncStations
    <2>2. QED
      BY <1>2, <1>4, <2>1 DEF TypeOK
  <1>7. NoticedReplacementIsRefetched' /\ SizesAreKnown'
    BY <1>2 DEF NoticedReplacementIsRefetched, SizesAreKnown
  <1>8. OnePassOfAKind'
    BY <1>2, <1>5 DEF OnePassOfAKind, Syncing, Fetching, SyncStations
  <1>9. SiteIsAhead'
    <2>1. \A f \in Files : siteVersion[f] \in Nat
      BY CatalogAssumption DEF TypeOK, Versions
    <2>2. QED
      BY <1>1, <1>2, <1>5, <2>1 DEF SiteIsAhead
  <1>10. OutcomesInHand'
    BY <1>2, <1>5 DEF OutcomesInHand, Fetching
  <1>11. SyncsAreNumbered'
    <2>1. \A s \in Sources : source[s].stamp \in Nat /\ source[s].stamp <= MaxSyncs - left["syncs"]
      BY CatalogAssumption DEF TypeOK, SyncsAreNumbered
    <2>2. \A q \in Procs : Syncing(q)' => q = p
      BY <1>2, <1>5 DEF Syncing
    <2>3. QED
      BY <1>2, <1>3, <1>4, <1>5, <2>1, <2>2 DEF SyncsAreNumbered
  <1>12. SourcesFollow'
    BY <1>2, <1>5 DEF SourcesFollow, Syncing, SyncStations
  <1>13. QED
    BY <1>6, <1>7, <1>8, <1>9, <1>10, <1>11, <1>12

LEMMA LoadFilesStands ==
  ASSUME Inv, NEW p \in Procs, LoadFiles(p)
  PROVE  Inv'
  <1> USE DEF Inv
  <1>1. /\ UNCHANGED <<sitePage, siteVersion, unsized, refused, source, links, file, found, was, todo, run,
                       targets, rows, masked, left>>
        /\ index' = [index EXCEPT ![p] = file] /\ pc[p] = "load" /\ pc' = [pc EXCEPT ![p] = "files"]
    BY DEF LoadFiles, site, catalog, fetchVars, Goto
  <1>2. pc'[p] = "files" /\ \A q \in Procs \ {p} : pc'[q] = pc[q]
    BY <1>1 DEF TypeOK
  <1>3. TypeOK'
    BY <1>1 DEF TypeOK, SyncStations
  <1>4. NoticedReplacementIsRefetched' /\ SizesAreKnown' /\ SiteIsAhead'
    BY <1>1 DEF NoticedReplacementIsRefetched, SizesAreKnown, SiteIsAhead
  <1>5. OnePassOfAKind' /\ OutcomesInHand' /\ SyncsAreNumbered' /\ SourcesFollow'
    BY <1>1, <1>2 DEF OnePassOfAKind, OutcomesInHand, SyncsAreNumbered, SourcesFollow, Syncing, Fetching, SyncStations
  <1>6. QED
    BY <1>3, <1>4, <1>5

\* What a sync writes of a file keeps its bytes, and calls it fetched only where it
\* was and no replacement can be told.
LEMMA ReconciledRow ==
  ASSUME TypeOK, NEW p \in Procs, NEW f \in Files
  PROVE  /\ Reconciled(p, f) \in FileRows
         /\ Reconciled(p, f).reported = found[p].reported[f]
         /\ Reconciled(p, f).content = file[f].content
         /\ Reconciled(p, f).status = "fetched" =>
              /\ file[f].status = "fetched"
              /\ \/ file[f].reported = found[p].reported[f] \/ file[f].reported = 0
                 \/ f \in found[p].refused \/ found[p].reported[f] = 0 \/ index[p][f] # file[f]
  <1> DEFINE row == index[p][f]
             reported == found[p].reported[f]
             t == TransitionOf(p, f)
             status == IF row.status = "none"
                       THEN IF f \in found[p].refused THEN "blocked_host" ELSE "pending"
                       ELSE IF t = "keep" THEN file[f].status ELSE t
  <1>1. row \in FileRows /\ file[f] \in FileRows /\ reported \in Versions
    BY DEF TypeOK, Discoveries
  <1>2. t \in {"keep", "blocked_host", "pending"}
    BY DEF TransitionOf, Transition
  <1>3. t = "keep" /\ f \notin found[p].refused /\ row.status = "fetched" => ~Replaced(row, reported)
    BY DEF TransitionOf, Transition
  <1>4. Reconciled(p, f) = [status |-> status, reported |-> reported, content |-> file[f].content]
    BY DEF Reconciled
  <1> HIDE DEF t
  <1>5. status \in Statuses \union {"none"} /\ (status = "fetched" => file[f].status = "fetched" /\ t = "keep")
    BY <1>1, <1>2 DEF FileRows, Statuses
  <1> HIDE DEF status, row, reported
  <1>6. Reconciled(p, f) \in FileRows
    BY <1>1, <1>4, <1>5 DEF FileRows
  <1>7. status = "fetched" => \/ file[f].reported = reported \/ file[f].reported = 0
                              \/ f \in found[p].refused \/ reported = 0 \/ row # file[f]
    BY <1>3, <1>5 DEF Replaced
  <1>8. QED
    BY <1>4, <1>5, <1>6, <1>7 DEF row, reported

LEMMA WriteFilesStands ==
  ASSUME Inv, NEW p \in Procs, WriteFiles(p)
  PROVE  Inv'
  <1> USE DEF Inv
  <1> DEFINE Met == FoundFiles(found[p])
  <1>1. /\ UNCHANGED <<sitePage, siteVersion, unsized, refused, source, links, found, index, was, todo, run,
                       targets, rows, left>>
        /\ pc[p] = "files" /\ pc' = [pc EXCEPT ![p] = "sources"] /\ masked' = masked \union Masked(p)
        /\ file' = [f \in Files |-> IF f \in Met THEN Reconciled(p, f) ELSE file[f]]
    BY DEF WriteFiles, site, syncVars, fetchVars, Goto
  <1>2. pc'[p] = "sources" /\ \A q \in Procs \ {p} : pc'[q] = pc[q]
    BY <1>1 DEF TypeOK
  <1>3. \A f \in Files : f \notin Met => file'[f] = file[f]
    BY <1>1
  <1>4. \A f \in Files : f \in Met => file'[f] = Reconciled(p, f)
    BY <1>1
  <1>5. \A f \in Files : f \in Met /\ f \notin masked' =>
          /\ f \notin masked /\ f \notin found[p].refused /\ found[p].reported[f] # 0 /\ file[f] = index[p][f]
          /\ \A q \in Procs : rows[q][f] = NoOutcome
    BY <1>1 DEF Masked
  <1>6. TypeOK'
    <2>1. file' \in [Files -> FileRows]
      BY <1>1, ReconciledRow DEF TypeOK
    <2>2. masked' \subseteq Files
      <3>1. Met \subseteq Files
        BY PagesHoldFiles DEF FoundFiles
      <3>2. QED
        BY <1>1, <3>1 DEF Masked, TypeOK
    <2>3. QED
      BY <1>1, <2>1, <2>2 DEF TypeOK, SyncStations
  <1>7. NoticedReplacementIsRefetched'
    <2> SUFFICES ASSUME NEW f \in Files, file'[f].status = "fetched", f \notin masked'
                 PROVE  file'[f].content >= file'[f].reported
      BY DEF NoticedReplacementIsRefetched
    <2>1. f \notin masked
      BY <1>1
    <2>2. CASE f \notin Met
      BY <1>3, <2>1, <2>2 DEF NoticedReplacementIsRefetched
    <2>3. CASE f \in Met
      <3>1. /\ file'[f].content = file[f].content /\ file'[f].reported = found[p].reported[f]
            /\ file[f].status = "fetched"
            /\ file[f].reported = found[p].reported[f] \/ file[f].reported = 0
        BY <1>4, <1>5, <2>3, ReconciledRow
      <3>2. file[f].reported # 0
        <4>1. file[f].status # "none"
          BY <3>1
        <4>2. QED
          BY <2>1, <4>1 DEF SizesAreKnown
      <3>3. QED
        BY <2>1, <3>1, <3>2 DEF NoticedReplacementIsRefetched
    <2>4. QED
      BY <2>2, <2>3
  <1>8. SizesAreKnown'
    BY <1>1, <1>3, <1>4, <1>5, ReconciledRow DEF SizesAreKnown
  <1>9. SiteIsAhead'
    BY <1>1, <1>3, <1>4, ReconciledRow DEF SiteIsAhead
  <1>10. OutcomesInHand'
    <2>1. \A q \in Procs, f \in Files : rows[q][f].status = "fetched" => rows[q][f] # NoOutcome
      BY DEF NoOutcome
    <2>2. \A f \in Files : file'[f].content = file[f].content
      BY <1>3, <1>4, ReconciledRow
    <2>3. \A q \in Procs, f \in Files : rows[q][f].status = "fetched" /\ f \notin masked' => file'[f] = file[f]
      BY <1>3, <1>5, <2>1
    <2>4. \A q \in Procs : Fetching(q) => Fetching(q)'
      BY <1>1, <1>2 DEF Fetching
    <2>5. QED
      BY <1>1, <2>2, <2>3, <2>4 DEF OutcomesInHand
  <1>11. OnePassOfAKind' /\ SyncsAreNumbered' /\ SourcesFollow'
    BY <1>1, <1>2 DEF OnePassOfAKind, SyncsAreNumbered, SourcesFollow, Syncing, Fetching, SyncStations
  <1>12. QED
    BY <1>6, <1>7, <1>8, <1>9, <1>10, <1>11

LEMMA WriteSourcesStands ==
  ASSUME Inv, NEW p \in Procs, WriteSources(p)
  PROVE  Inv'
  <1> USE DEF Inv
  <1>1. /\ UNCHANGED <<sitePage, siteVersion, unsized, refused, links, file, found, index, run,
                       targets, rows, masked, left>>
        /\ pc[p] = "sources" /\ pc' = [pc EXCEPT ![p] = "links"]
        /\ was' = [was EXCEPT ![p] = {s \in Sources : source[s].active}]
        /\ todo' = [todo EXCEPT ![p] = Resolved(p)]
        /\ source' = [s \in Sources |->
                        IF s \in Resolved(p)
                          THEN [page |-> found[p].page[s], active |-> TRUE, stamp |-> run[p]]
                        ELSE IF s \in Stamped(p)
                          THEN [source[s] EXCEPT !.stamp = run[p]]
                        ELSE source[s]]
    BY DEF WriteSources, site, fetchVars, Goto
  <1>2. /\ pc'[p] = "links" /\ todo'[p] = Resolved(p) /\ \A q \in Procs \ {p} : pc'[q] = pc[q]
        /\ Syncing(p) /\ \A q \in Procs : Syncing(q) => q = p
    BY <1>1 DEF TypeOK, Syncing, SyncStations, OnePassOfAKind
  <1>3. Resolved(p) \subseteq Sources /\ Resolved(p) \subseteq Stamped(p)
          /\ \A s \in Sources : s \in Stamped(p) <=> found[p].page[s] # Absent
    BY DEF Resolved, Stamped, Seen
  <1>4. run[p] \in 0..MaxSyncs /\ found[p] \in Discoveries
    BY DEF TypeOK
  <1>5. \A s \in Sources :
          /\ s \in Resolved(p) => source'[s] = [page |-> found[p].page[s], active |-> TRUE, stamp |-> run[p]]
          /\ s \in Stamped(p) \ Resolved(p) => source'[s] = [source[s] EXCEPT !.stamp = run[p]]
          /\ s \notin Stamped(p) => source'[s] = source[s]
    BY <1>1, <1>3
  <1>6. \A s \in Sources : source[s] \in [page: Pages, active: BOOLEAN, stamp: 0..MaxSyncs]
    BY DEF TypeOK
  <1>7. \A s \in Sources :
          /\ source'[s] \in [page: Pages, active: BOOLEAN, stamp: 0..MaxSyncs]
          /\ s \in Stamped(p) => source'[s].stamp = run[p]
          /\ s \in Resolved(p) => source'[s].active /\ source'[s].page = found[p].page[s]
          /\ s \in Stamped(p) \ Resolved(p) => source'[s].page = source[s].page
          /\ s \notin Stamped(p) => source'[s].stamp = source[s].stamp
    <2>1. ASSUME NEW s \in Resolved(p)
          PROVE  /\ source'[s] \in [page: Pages, active: BOOLEAN, stamp: 0..MaxSyncs]
                 /\ source'[s].stamp = run[p] /\ source'[s].active /\ source'[s].page = found[p].page[s]
      <3>1. found[p].page[s] \in Pages
        BY <1>3, <2>1, PagesHoldFiles
      <3>2. QED
        <4> DEFINE page == found[p].page[s]
                   n == run[p]
        <4>1. page \in Pages /\ n \in 0..MaxSyncs /\ source'[s] = [page |-> page, active |-> TRUE, stamp |-> n]
          BY <1>3, <1>4, <1>5, <2>1, <3>1
        <4> HIDE DEF page, n
        <4>2. /\ source'[s] \in [page: Pages, active: BOOLEAN, stamp: 0..MaxSyncs]
              /\ source'[s].active = TRUE /\ source'[s].page = page /\ source'[s].stamp = n
          BY <4>1
        <4>3. QED
          BY <4>2 DEF page, n
    <2>2. ASSUME NEW s \in Sources, s \in Stamped(p) \ Resolved(p)
          PROVE  /\ source'[s] \in [page: Pages, active: BOOLEAN, stamp: 0..MaxSyncs]
                 /\ source'[s].stamp = run[p] /\ source'[s].page = source[s].page
      BY <1>4, <1>5, <1>6, <2>2
    <2>3. QED
      BY <1>3, <1>5, <1>6, <2>1, <2>2
  <1>8. TypeOK'
    <2>1. source' \in [Sources -> [page: Pages, active: BOOLEAN, stamp: 0..MaxSyncs]]
      BY <1>1, <1>7
    <2>2. QED
      BY <1>1, <1>3, <2>1 DEF TypeOK, SyncStations
  <1>9. NoticedReplacementIsRefetched' /\ SizesAreKnown' /\ SiteIsAhead'
    BY <1>1 DEF NoticedReplacementIsRefetched, SizesAreKnown, SiteIsAhead
  <1>10. OnePassOfAKind' /\ OutcomesInHand'
    BY <1>1, <1>2 DEF OnePassOfAKind, OutcomesInHand, Syncing, Fetching, SyncStations
  <1>11. SyncsAreNumbered'
    <2>1. run[p] = MaxSyncs - left["syncs"]
      BY <1>2 DEF SyncsAreNumbered
    <2>2. \A s \in Sources : source'[s].stamp <= MaxSyncs - left["syncs"]
      <3>1. MaxSyncs - left["syncs"] \in Int
        BY CatalogAssumption DEF TypeOK, Bounds
      <3>2. QED
        BY <1>7, <2>1, <3>1 DEF SyncsAreNumbered
    <2>3. \A q \in Procs : Syncing(q)' => q = p
      BY <1>2 DEF Syncing
    <2>4. QED
      BY <1>1, <1>2, <2>1, <2>2, <2>3 DEF SyncsAreNumbered
  <1>12. SourcesFollow'
    <2>1. \A q \in Procs : pc'[q] = "links" => q = p
      BY <1>2 DEF Syncing, SyncStations
    <2>2. ASSUME NEW s \in Sources, found[p].page[s] = Absent PROVE source'[s].stamp # run[p]
      BY <1>1, <1>2, <1>3, <1>7, <2>2 DEF SyncsAreNumbered
    <2>3. ASSUME NEW s \in Sources, found[p].page[s] # Absent
          PROVE  /\ source'[s].stamp = run[p]
                 /\ \/ found[p].page[s] = SitemapOnly /\ source'[s].page.kind = "rest"
                    \/ source'[s].active /\ source'[s].page = found[p].page[s] /\ s \in todo'[p]
      <3>1. s \in Stamped(p)
        BY <1>3, <2>3
      <3>2. s \notin Resolved(p) => LeftAlone(p, s)
        BY <2>3 DEF Resolved, Seen
      <3>3. QED
        BY <1>2, <1>7, <3>1, <3>2 DEF LeftAlone
    <2>4. QED
      BY <1>1, <2>1, <2>2, <2>3 DEF SourcesFollow
  <1>13. QED
    BY <1>8, <1>9, <1>10, <1>11, <1>12

LEMMA WriteLinksStands ==
  ASSUME Inv, NEW p \in Procs, WriteLinks(p)
  PROVE  Inv'
  <1> USE DEF Inv
  <1>1. PICK s \in todo[p] : /\ links' = [links EXCEPT ![s] = found[p].page[s].files]
                             /\ todo' = [todo EXCEPT ![p] = @ \ {s}]
    BY DEF WriteLinks, Relationships
  <1>2. /\ UNCHANGED <<sitePage, siteVersion, unsized, refused, source, file, pc, found, index, was, run,
                       targets, rows, masked, left>>
        /\ pc[p] = "links"
    BY DEF WriteLinks, site, fetchVars
  <1>3. s \in Sources /\ todo[p] \subseteq Sources
    BY <1>1 DEF TypeOK
  <1>4. TypeOK'
    <2>1. found[p].page[s].files \subseteq Files
      BY <1>3, PagesHoldFiles
    <2>2. QED
      BY <1>1, <1>2, <1>3, <2>1 DEF TypeOK, SourceFiles
  <1>5. /\ NoticedReplacementIsRefetched' /\ SizesAreKnown' /\ SiteIsAhead' /\ OnePassOfAKind'
        /\ OutcomesInHand' /\ SyncsAreNumbered'
    BY <1>2 DEF NoticedReplacementIsRefetched, SizesAreKnown, SiteIsAhead, OnePassOfAKind, OutcomesInHand,
                SyncsAreNumbered, Syncing, Fetching
  <1>6. SourcesFollow'
    <2>1. \A q \in Procs : pc[q] = "links" => q = p
      BY <1>2 DEF OnePassOfAKind, Syncing, SyncStations
    <2>2. links'[s] = found[p].page[s].files /\ todo'[p] = todo[p] \ {s}
            /\ \A r \in Sources \ {s} : links'[r] = links[r]
      BY <1>1, <1>3 DEF TypeOK, SourceFiles
    <2>3. QED
      BY <1>2, <1>3, <2>1, <2>2 DEF SourcesFollow
  <1>7. QED
    BY <1>4, <1>5, <1>6

LEMMA DeactivateStands ==
  ASSUME Inv, NEW p \in Procs, Deactivate(p)
  PROVE  Inv'
  <1> USE DEF Inv
  <1>1. /\ UNCHANGED <<sitePage, siteVersion, unsized, refused, links, file, masked, left>>
        /\ pc[p] = "links" /\ Leave(p)
        /\ source' = [s \in Sources |->
                        IF source[s].active /\ source[s].stamp # run[p]
                        THEN [source[s] EXCEPT !.active = FALSE] ELSE source[s]]
    BY DEF Deactivate, site
  <1>2. /\ pc'[p] = "idle" /\ found'[p] = NoDiscovery /\ rows'[p] = NoOutcomes
        /\ \A q \in Procs \ {p} :
              /\ pc'[q] = pc[q] /\ found'[q] = found[q] /\ todo'[q] = todo[q]
              /\ run'[q] = run[q] /\ rows'[q] = rows[q]
    BY <1>1, LeaveForgets
  <1>3. \A q \in Procs : ~Syncing(q)'
    BY <1>1, <1>2 DEF OnePassOfAKind, Syncing, SyncStations
  <1>4. \A s \in Sources : source'[s].stamp = source[s].stamp
    BY <1>1 DEF TypeOK
  <1>5. TypeOK'
    <2>1. \A s \in Sources : source[s] \in [page: Pages, active: BOOLEAN, stamp: 0..MaxSyncs]
      BY DEF TypeOK
    <2>2. \A s \in Sources : [source[s] EXCEPT !.active = FALSE]
                               \in [page: Pages, active: BOOLEAN, stamp: 0..MaxSyncs]
      BY <2>1
    <2>3. source' \in [Sources -> [page: Pages, active: BOOLEAN, stamp: 0..MaxSyncs]]
      BY <1>1, <2>1, <2>2
    <2>4. QED
      BY <1>1, <2>3, LeaveForgets DEF TypeOK
  <1>6. NoticedReplacementIsRefetched' /\ SizesAreKnown'
    BY <1>1 DEF NoticedReplacementIsRefetched, SizesAreKnown
  <1>7. OnePassOfAKind'
    BY <1>2, <1>3 DEF OnePassOfAKind, Fetching
  <1>8. SiteIsAhead'
    <2>1. \A f \in Files : siteVersion[f] \in Nat
      BY CatalogAssumption DEF TypeOK, Versions
    <2>2. QED
      BY <1>1, <1>2, <2>1, EmptyIsTyped DEF SiteIsAhead
  <1>9. OutcomesInHand'
    BY <1>1, <1>2, EmptyIsTyped DEF OutcomesInHand, Fetching
  <1>10. SyncsAreNumbered' /\ SourcesFollow'
    BY <1>1, <1>3, <1>4 DEF SyncsAreNumbered, SourcesFollow, Syncing, SyncStations
  <1>11. QED
    BY <1>5, <1>6, <1>7, <1>8, <1>9, <1>10

-----------------------------------------------------------------------------
(* The steps of a fetch *)

LEMMA BeginFetchStands ==
  ASSUME Inv, NEW p \in Procs, BeginFetch(p)
  PROVE  Inv'
  <1> USE DEF Inv
  <1>1. /\ UNCHANGED <<sitePage, siteVersion, unsized, refused, source, links, file, found, index, was, todo,
                       run, rows, masked>>
        /\ pc[p] = "idle" /\ pc' = [pc EXCEPT ![p] = "fetch"]
        /\ left["fetches"] > 0 /\ left' = [left EXCEPT !["fetches"] = @ - 1]
        /\ \A q \in Procs : ~Fetching(q)
    BY DEF BeginFetch, site, catalog, syncVars, Goto, Spend
  <1>2. targets' \in [Procs -> SUBSET Files]
    BY DEF BeginFetch, Selectable, TypeOK
  <1>3. left' \in [Bounds -> Nat] /\ left'["syncs"] = left["syncs"]
    BY <1>1 DEF TypeOK, Bounds
  <1>4. pc'[p] = "fetch" /\ \A q \in Procs \ {p} : pc'[q] = pc[q]
    BY <1>1 DEF TypeOK
  <1>5. TypeOK'
    BY <1>1, <1>2, <1>3 DEF TypeOK
  <1>6. NoticedReplacementIsRefetched' /\ SizesAreKnown' /\ SiteIsAhead'
    BY <1>1 DEF NoticedReplacementIsRefetched, SizesAreKnown, SiteIsAhead
  <1>7. OnePassOfAKind' /\ OutcomesInHand' /\ SourcesFollow'
    BY <1>1, <1>4 DEF OnePassOfAKind, OutcomesInHand, SourcesFollow, Syncing, Fetching, SyncStations
  <1>8. SyncsAreNumbered'
    BY <1>1, <1>3, <1>4 DEF SyncsAreNumbered, Syncing, SyncStations
  <1>9. QED
    BY <1>5, <1>6, <1>7, <1>8

LEMMA FetchOneStands ==
  ASSUME Inv, NEW p \in Procs, FetchOne(p)
  PROVE  Inv'
  <1> USE DEF Inv
  <1>0. PICK f \in targets[p] :
          /\ \E outcome \in OutcomesOf(f) : rows' = [rows EXCEPT ![p][f] = outcome]
          /\ targets' = [targets EXCEPT ![p] = @ \ {f}]
    BY DEF FetchOne
  <1>1. PICK outcome \in OutcomesOf(f) : rows' = [rows EXCEPT ![p][f] = outcome]
    BY <1>0
  <1>2. /\ UNCHANGED <<sitePage, siteVersion, unsized, refused, source, links, file, pc, found, index, was,
                       todo, run, masked, left>>
        /\ Fetching(p)
    BY DEF FetchOne, site, catalog, syncVars
  <1>3. f \in Files
    BY <1>0 DEF TypeOK
  <1>4. outcome \in Outcomes /\ (outcome.status = "fetched" => outcome.content = siteVersion[f])
    <2>1. siteVersion[f] \in Versions /\ 0 \in Versions
      BY <1>3, CatalogAssumption DEF TypeOK, Versions
    <2>2. QED
      BY <1>1, <2>1 DEF OutcomesOf, Outcomes, Statuses
  <1>5. /\ rows'[p][f] = outcome /\ \A g \in Files \ {f} : rows'[p][g] = rows[p][g]
        /\ \A q \in Procs \ {p} : rows'[q] = rows[q]
    BY <1>1, <1>3 DEF TypeOK
  <1>6. TypeOK'
    BY <1>0, <1>1, <1>2, <1>3, <1>4 DEF TypeOK
  <1>7. /\ NoticedReplacementIsRefetched' /\ SizesAreKnown' /\ SiteIsAhead' /\ OnePassOfAKind'
        /\ SyncsAreNumbered' /\ SourcesFollow'
    BY <1>2 DEF NoticedReplacementIsRefetched, SizesAreKnown, SiteIsAhead, OnePassOfAKind,
                SyncsAreNumbered, SourcesFollow, Syncing, Fetching
  <1>8. OutcomesInHand'
    <2>1. siteVersion[f] \in Nat
      BY <1>3, CatalogAssumption DEF TypeOK, Versions
    <2>2. QED
      BY <1>2, <1>3, <1>4, <1>5, <2>1 DEF OutcomesInHand, SiteIsAhead, Fetching
  <1>9. QED
    BY <1>6, <1>7, <1>8

LEMMA RecordedIsTyped ==
  ASSUME TypeOK, NEW p \in Procs
  PROVE  Recorded(p) \in [Files -> FileRows]
  <1>1. ASSUME NEW g \in Files PROVE RowAfter(g, rows[p][g]) \in FileRows
    <2>1. file[g] \in FileRows /\ rows[p][g] \in Outcomes
      BY DEF TypeOK
    <2>2. QED
      BY <2>1 DEF RowAfter, FileRows, Outcomes
  <1>2. QED
    BY <1>1 DEF Recorded, TypeOK

\* What a fetch writes of a file: its bytes are the row's or the newer ones it holds.
LEMMA RecordedRow ==
  ASSUME Inv, NEW p \in Procs, NEW f \in Files
  PROVE  /\ Recorded(p)[f] \in FileRows
         /\ Recorded(p)[f].reported = file[f].reported
         /\ file[f].content <= Recorded(p)[f].content /\ Recorded(p)[f].content <= siteVersion[f]
         /\ f \notin Batch(p) => Recorded(p)[f] = file[f]
         /\ Recorded(p)[f].status = "fetched" /\ f \notin masked =>
              Recorded(p)[f].reported <= Recorded(p)[f].content
         /\ Recorded(p)[f].status # "none" => file[f].status # "none" \/ f \in Batch(p)
  <1> USE DEF Inv
  <1>2. Recorded(p) \in [Files -> FileRows]
    BY RecordedIsTyped
  <1>3. /\ f \in Batch(p) => Recorded(p)[f] = RowAfter(f, rows[p][f])
        /\ f \notin Batch(p) => Recorded(p)[f] = file[f]
    BY DEF Recorded
  <1>4. file[f] \in FileRows /\ rows[p][f] \in Outcomes /\ siteVersion[f] \in Nat
          /\ file[f].content \in Nat /\ file[f].reported \in Nat
    BY CatalogAssumption DEF TypeOK, FileRows, Versions
  <1>5. CASE f \notin Batch(p)
    BY <1>2, <1>3, <1>4, <1>5 DEF SiteIsAhead, NoticedReplacementIsRefetched
  <1>6. CASE f \in Batch(p)
    <2> DEFINE row == RowAfter(f, rows[p][f])
    <2>1. /\ row.status = rows[p][f].status /\ row.reported = file[f].reported
          /\ rows[p][f].status = "fetched" => row.content = rows[p][f].content
          /\ rows[p][f].status # "fetched" => row.content = file[f].content
      BY <1>4 DEF RowAfter, FileRows
    <2>2. rows[p][f].content \in Nat
      BY <1>4, CatalogAssumption DEF Outcomes, Versions
    <2>3. Recorded(p)[f] = row
      BY <1>3, <1>6
    <2> HIDE DEF row
    <2>4. QED
      BY <1>2, <1>4, <1>6, <2>1, <2>2, <2>3 DEF SiteIsAhead, OutcomesInHand
  <1>7. QED
    BY <1>5, <1>6

\* Only files that exist are in the hands of a fetch.
TargetsExist ==
    \A p \in Procs, f \in Files :
        /\ f \in targets[p] \/ rows[p][f] # NoOutcome => file[f].status # "none"
        /\ rows[p][f] # NoOutcome => rows[p][f].status # "none"

LEMMA RecordOutcomesStands ==
  ASSUME Inv, TargetsExist, NEW p \in Procs, RecordOutcomes(p)
  PROVE  Inv'
  <1> USE DEF Inv
  <1>1. /\ UNCHANGED <<sitePage, siteVersion, unsized, refused, source, links, pc, found, index, was,
                       todo, run, targets, masked, left>>
        /\ Fetching(p) /\ file' = Recorded(p) /\ rows' = [rows EXCEPT ![p] = NoOutcomes]
    BY DEF RecordOutcomes, site, syncVars
  <1>2. rows'[p] = NoOutcomes /\ \A q \in Procs \ {p} : rows'[q] = rows[q]
    BY <1>1 DEF TypeOK
  <1>3. TypeOK'
    BY <1>1, RecordedIsTyped, EmptyIsTyped DEF TypeOK
  <1>4. NoticedReplacementIsRefetched'
    <2>1. \A f \in Files : Recorded(p)[f].reported \in Nat /\ Recorded(p)[f].content \in Nat
      BY RecordedRow, CatalogAssumption DEF FileRows, Versions
    <2>2. QED
      BY <1>1, <2>1, RecordedRow DEF NoticedReplacementIsRefetched
  <1>5. SizesAreKnown'
    BY <1>1, RecordedRow DEF SizesAreKnown, TargetsExist, Batch
  <1>6. SiteIsAhead'
    BY <1>1, RecordedRow DEF SiteIsAhead
  <1>7. OutcomesInHand'
    <2>1. \A q \in Procs \ {p}, f \in Files : rows'[q][f] = NoOutcome
      BY <1>1, <1>2 DEF OnePassOfAKind, OutcomesInHand
    <2>2. \A f \in Files : rows'[p][f] = NoOutcome
      BY <1>2, EmptyIsTyped
    <2>3. \A q \in Procs, f \in Files : rows'[q][f] = NoOutcome
      BY <2>1, <2>2
    <2>4. QED
      BY <2>3, EmptyIsTyped DEF OutcomesInHand
  <1>8. OnePassOfAKind' /\ SyncsAreNumbered' /\ SourcesFollow'
    BY <1>1 DEF OnePassOfAKind, SyncsAreNumbered, SourcesFollow, Syncing, Fetching
  <1>9. QED
    BY <1>3, <1>4, <1>5, <1>6, <1>7, <1>8

LEMMA EndFetchStands ==
  ASSUME Inv, TargetsExist, NEW p \in Procs, EndFetch(p)
  PROVE  Inv'
  <1> USE DEF Inv
  <1>1. /\ UNCHANGED <<sitePage, siteVersion, unsized, refused, source, links, masked, left>>
        /\ Fetching(p) /\ file' = Recorded(p) /\ Leave(p)
    BY DEF EndFetch, site
  <1>2. /\ pc'[p] = "idle" /\ found'[p] = NoDiscovery /\ rows'[p] = NoOutcomes
        /\ \A q \in Procs \ {p} :
              /\ pc'[q] = pc[q] /\ found'[q] = found[q] /\ todo'[q] = todo[q]
              /\ run'[q] = run[q] /\ rows'[q] = rows[q]
    BY <1>1, LeaveForgets
  <1>3. TypeOK'
    BY <1>1, RecordedIsTyped, LeaveForgets DEF TypeOK
  <1>4. NoticedReplacementIsRefetched'
    <2>1. \A f \in Files : Recorded(p)[f].reported \in Nat /\ Recorded(p)[f].content \in Nat
      BY RecordedRow, CatalogAssumption DEF FileRows, Versions
    <2>2. QED
      BY <1>1, <2>1, RecordedRow DEF NoticedReplacementIsRefetched
  <1>5. SizesAreKnown'
    BY <1>1, RecordedRow DEF SizesAreKnown, TargetsExist, Batch
  <1>6. SiteIsAhead'
    <2>1. \A f \in Files : siteVersion[f] \in Nat
      BY CatalogAssumption DEF TypeOK, Versions
    <2>2. QED
      BY <1>1, <1>2, <2>1, RecordedRow, EmptyIsTyped DEF SiteIsAhead
  <1>7. OutcomesInHand'
    <2>1. \A q \in Procs \ {p}, f \in Files : rows'[q][f] = NoOutcome
      BY <1>1, <1>2 DEF OnePassOfAKind, OutcomesInHand
    <2>2. \A f \in Files : rows'[p][f] = NoOutcome
      BY <1>2, EmptyIsTyped
    <2>3. \A q \in Procs, f \in Files : rows'[q][f] = NoOutcome
      BY <2>1, <2>2
    <2>4. QED
      BY <2>3, EmptyIsTyped DEF OutcomesInHand
  <1>8. OnePassOfAKind' /\ SyncsAreNumbered' /\ SourcesFollow'
    BY <1>1, <1>2 DEF OnePassOfAKind, SyncsAreNumbered, SourcesFollow, Syncing, Fetching, SyncStations
  <1>9. QED
    BY <1>3, <1>4, <1>5, <1>6, <1>7, <1>8

-----------------------------------------------------------------------------
(* The files in the hands of a fetch *)

\* A row stays: no step deletes one.
LEMMA FilesStay ==
  ASSUME Inv, TargetsExist, Next
  PROVE  \A f \in Files : file[f].status # "none" => file'[f].status # "none"
  <1> SUFFICES ASSUME NEW f \in Files, file[f].status # "none" PROVE file'[f].status # "none"
    OBVIOUS
  <1>1. CASE UNCHANGED file
    BY <1>1
  <1>2. ASSUME NEW p \in Procs, WriteFiles(p) PROVE file'[f].status # "none"
    <2>1. Reconciled(p, f).status # "none"
      BY DEF Reconciled, TransitionOf, Transition
    <2>2. file' = [g \in Files |-> IF g \in FoundFiles(found[p]) THEN Reconciled(p, g) ELSE file[g]]
      BY <1>2 DEF WriteFiles
    <2>3. QED
      BY <2>1, <2>2
  <1>3. ASSUME NEW p \in Procs, file' = Recorded(p) PROVE file'[f].status # "none"
    <2>1. file[f] \in FileRows
      BY DEF Inv, TypeOK
    <2>2. QED
      BY <1>3, <2>1 DEF Recorded, RowAfter, FileRows, Batch, TargetsExist
  <1>4. QED
    BY <1>1, <1>2, <1>3 DEF Next, EditSite, BeginSync, LoadFiles, WriteFilesRefused, WriteSources, WriteLinks,
          Deactivate, SkipDeactivation, BeginFetch, FetchOne, RecordOutcomes, EndFetch, LoseBatch, Crash, catalog

LEMMA TargetsExistStands == Inv /\ TargetsExist /\ Next => TargetsExist'
  <1> SUFFICES ASSUME Inv, TargetsExist, Next PROVE TargetsExist'
    OBVIOUS
  <1>1. \A f \in Files : file[f].status # "none" => file'[f].status # "none"
    BY FilesStay
  <1>2. CASE UNCHANGED <<targets, rows>>
    BY <1>1, <1>2 DEF TargetsExist
  <1>3. ASSUME NEW p \in Procs, Leave(p) PROVE TargetsExist'
    <2>1. \A q \in Procs, f \in Files : /\ f \in targets'[q] => f \in targets[q]
                                        /\ rows'[q][f] # NoOutcome => rows'[q][f] = rows[q][f]
      BY <1>3, EmptyIsTyped DEF Leave, Inv, TypeOK
    <2>2. QED
      BY <1>1, <2>1 DEF TargetsExist
  <1>4. ASSUME NEW p \in Procs, BeginFetch(p) PROVE TargetsExist'
    <2>1. UNCHANGED <<rows, file>> /\ \E retry \in BOOLEAN : \E scope \in SUBSET Selectable(retry) :
            targets' = [targets EXCEPT ![p] = scope]
      BY <1>4 DEF BeginFetch, catalog
    <2>2. \A retry \in BOOLEAN : \A f \in Selectable(retry) : file[f].status # "none"
      BY DEF Selectable
    <2>3. QED
      BY <2>1, <2>2 DEF TargetsExist, Inv, TypeOK
  <1>5. ASSUME NEW p \in Procs, FetchOne(p) PROVE TargetsExist'
    <2>1. PICK f \in targets[p] :
            /\ \E outcome \in OutcomesOf(f) : rows' = [rows EXCEPT ![p][f] = outcome]
            /\ targets' = [targets EXCEPT ![p] = @ \ {f}]
      BY <1>5 DEF FetchOne
    <2>2. PICK outcome \in OutcomesOf(f) : rows' = [rows EXCEPT ![p][f] = outcome]
      BY <2>1
    <2>3. outcome.status # "none" /\ f \in Files /\ file[f].status # "none"
      BY <2>1 DEF OutcomesOf, TargetsExist, Inv, TypeOK
    <2>4. \A q \in Procs, g \in Files : /\ g \in targets'[q] => g \in targets[q]
                                        /\ rows'[q][g] = IF q = p /\ g = f THEN outcome ELSE rows[q][g]
      BY <2>1, <2>2, <2>3 DEF Inv, TypeOK
    <2>5. QED
      BY <1>1, <2>3, <2>4 DEF TargetsExist
  <1>6. ASSUME NEW p \in Procs, RecordOutcomes(p) PROVE TargetsExist'
    <2>1. \A q \in Procs, f \in Files : /\ f \in targets'[q] => f \in targets[q]
                                        /\ rows'[q][f] # NoOutcome => rows'[q][f] = rows[q][f]
      BY <1>6, EmptyIsTyped DEF RecordOutcomes, Inv, TypeOK
    <2>2. QED
      BY <1>1, <2>1 DEF TargetsExist
  <1>7. QED
    BY <1>2, <1>3, <1>4, <1>5, <1>6 DEF Next, EditSite, BeginSync, LoadFiles, WriteFiles, WriteFilesRefused,
          WriteSources, WriteLinks, Deactivate, SkipDeactivation, EndFetch, LoseBatch, Crash, fetchVars

-----------------------------------------------------------------------------
(* The invariant *)

LEMMA InitStands == Init => Inv /\ TargetsExist
  <1> SUFFICES ASSUME Init PROVE Inv /\ TargetsExist
    OBVIOUS
  <1>1. \A p \in Procs : pc[p] = "idle" /\ targets[p] = {}
    BY DEF Init
  <1>2. \A f \in Files : file[f].status = "none" /\ file[f].content = 0 /\ file[f].reported = 0
    BY DEF Init, NoRows, NoRow
  <1>3. \A p \in Procs, f \in Files : rows[p][f] = NoOutcome /\ found[p].reported[f] = 0
    BY EmptyIsTyped DEF Init
  <1>4. \A f \in Files : siteVersion[f] = 1
    BY DEF Init
  <1>5. NoticedReplacementIsRefetched /\ OnePassOfAKind /\ SizesAreKnown /\ SourcesFollow
    BY <1>1, <1>2 DEF NoticedReplacementIsRefetched, OnePassOfAKind, SizesAreKnown, SourcesFollow, Syncing,
                      Fetching, SyncStations
  <1>6. SiteIsAhead
    BY <1>2, <1>3, <1>4 DEF SiteIsAhead
  <1>7. OutcomesInHand /\ TargetsExist
    BY <1>1, <1>3, EmptyIsTyped DEF OutcomesInHand, TargetsExist
  <1>8. SyncsAreNumbered
    <2>1. left["syncs"] = MaxSyncs /\ MaxSyncs \in Nat
      BY CatalogAssumption DEF Init, Bounds
    <2>2. \A s \in Sources : source[s].stamp = 0
      BY DEF Init
    <2>3. QED
      BY <1>1, <2>1, <2>2 DEF SyncsAreNumbered, Syncing, SyncStations
  <1>9. QED
    BY <1>5, <1>6, <1>7, <1>8, InitIsTyped DEF Inv

LEMMA CrashStands ==
  ASSUME Inv, NEW p \in Procs, Crash(p)
  PROVE  Inv'
  <1>1. left["crashes"] > 0 /\ left' = [left EXCEPT !["crashes"] = @ - 1]
    BY DEF Crash, Spend
  <1>2. left' \in [Bounds -> Nat] /\ left'["syncs"] = left["syncs"]
    BY <1>1 DEF Inv, TypeOK, Bounds
  <1>3. QED
    BY <1>2, LeaveStands DEF Crash

LEMMA NextStands == Inv /\ TargetsExist /\ [Next]_vars => Inv' /\ TargetsExist'
  <1> SUFFICES ASSUME Inv, TargetsExist, [Next]_vars PROVE Inv' /\ TargetsExist'
    OBVIOUS
  <1>1. CASE Next
    <2>1. ASSUME NEW p \in Procs, BeginSync(p) \/ LoadFiles(p) \/ WriteFiles(p) \/ WriteSources(p) \/ WriteLinks(p)
                                    \/ Deactivate(p)
          PROVE  Inv'
      BY <2>1, BeginSyncStands, LoadFilesStands, WriteFilesStands, WriteSourcesStands, WriteLinksStands,
         DeactivateStands
    <2>2. ASSUME NEW p \in Procs, BeginFetch(p) \/ FetchOne(p) \/ RecordOutcomes(p) \/ EndFetch(p)
          PROVE  Inv'
      BY <2>2, BeginFetchStands, FetchOneStands, RecordOutcomesStands, EndFetchStands
    <2>3. ASSUME NEW p \in Procs, WriteFilesRefused(p) \/ SkipDeactivation(p) \/ LoseBatch(p)
          PROVE  Inv'
      <3>1. Leave(p) /\ UNCHANGED <<site, catalog, masked, left>>
        BY <2>3 DEF WriteFilesRefused, SkipDeactivation, LoseBatch
      <3>2. left' \in [Bounds -> Nat]
        BY <3>1 DEF Inv, TypeOK
      <3>3. QED
        BY <3>1, <3>2, LeaveStands
    <2>4. QED
      BY <1>1, <2>1, <2>2, <2>3, CrashStands, EditStands, TargetsExistStands DEF Next
  <1>2. CASE UNCHANGED vars
    <2>1. UNCHANGED <<sitePage, siteVersion, unsized, refused, source, links, file, pc, found, index, was, todo,
                      run, targets, rows, masked, left>>
      BY <1>2 DEF vars, site, catalog, syncVars, fetchVars
    <2>2. QED
      BY <2>1 DEF Inv, TypeOK, NoticedReplacementIsRefetched, OnePassOfAKind, SiteIsAhead, OutcomesInHand,
                  SizesAreKnown, SyncsAreNumbered, SourcesFollow, TargetsExist, Syncing, Fetching
  <1>3. QED
    BY <1>1, <1>2

LEMMA InvHolds == Spec => [](Inv /\ TargetsExist)
  <1>1. QED
    BY InitStands, NextStands, PTL DEF Spec

\* Every row, discovery and outcome is of its type.
THEOREM CatalogTypeCorrect == Spec => []TypeOK
  <1>1. Inv => TypeOK
    BY DEF Inv
  <1>2. QED
    BY <1>1, InvHolds, PTL

\* However syncs and fetches overlap, a fetched row is as new as the size it reports,
\* unless its replacement could not be told.
THEOREM ReplacementsAreRefetched == Spec => []NoticedReplacementIsRefetched
  <1>1. Inv => NoticedReplacementIsRefetched
    BY DEF Inv
  <1>2. QED
    BY <1>1, InvHolds, PTL

\* No step of any pass puts older bytes in the place of newer ones.
THEOREM BytesOnlyMoveForward == Spec => ContentNeverGoesBack
  <1>1. Inv /\ TargetsExist /\ [Next]_vars => [\A f \in Files : file'[f].content >= file[f].content]_vars
    <2> SUFFICES ASSUME Inv, Next, NEW f \in Files PROVE file'[f].content >= file[f].content
      OBVIOUS
    <2>1. file[f].content \in Nat
      BY CatalogAssumption DEF Inv, TypeOK, FileRows, Versions
    <2>2. CASE UNCHANGED file
      BY <2>1, <2>2
    <2>3. ASSUME NEW p \in Procs, WriteFiles(p) PROVE file'[f].content >= file[f].content
      <3>1. file' = [g \in Files |-> IF g \in FoundFiles(found[p]) THEN Reconciled(p, g) ELSE file[g]]
        BY <2>3 DEF WriteFiles
      <3>2. Reconciled(p, f).content = file[f].content
        BY ReconciledRow DEF Inv
      <3>3. QED
        BY <2>1, <3>1, <3>2
    <2>4. ASSUME NEW p \in Procs, file' = Recorded(p) PROVE file'[f].content >= file[f].content
      <3>1. Recorded(p)[f].content \in Nat /\ file[f].content <= Recorded(p)[f].content
        BY RecordedRow, CatalogAssumption DEF FileRows, Versions
      <3>2. QED
        BY <2>1, <2>4, <3>1
    <2>5. QED
      BY <2>2, <2>3, <2>4 DEF Next, EditSite, BeginSync, LoadFiles, WriteFilesRefused, WriteSources, WriteLinks,
          Deactivate, SkipDeactivation, BeginFetch, FetchOne, RecordOutcomes, EndFetch, LoseBatch, Crash, catalog
  <1>2. QED
    BY <1>1, InvHolds, PTL DEF Spec, ContentNeverGoesBack

\* When a sync deactivates what it did not see, the sources mirror what it read.
THEOREM CompletedSyncsMirror == Spec => CompletedSyncMirrorsTheSite
  <1> DEFINE Mirrors(p) == \A s \in Sources :
               LET page == found[p].page[s]
               IN IF page = Absent THEN ~source'[s].active
                  ELSE \/ page = SitemapOnly /\ source[s].page.kind = "rest"
                       \/ /\ source'[s].active
                          /\ source'[s].page = page
                          /\ links'[s] = page.files
  <1>1. Inv /\ TargetsExist /\ [Next]_vars => [\A p \in Procs : Deactivate(p) => Mirrors(p)]_vars
    <2> SUFFICES ASSUME Inv, NEW p \in Procs, Deactivate(p), NEW s \in Sources
                 PROVE  LET page == found[p].page[s]
                        IN IF page = Absent THEN ~source'[s].active
                           ELSE \/ page = SitemapOnly /\ source[s].page.kind = "rest"
                                \/ /\ source'[s].active
                                   /\ source'[s].page = page
                                   /\ links'[s] = page.files
      OBVIOUS
    <2> DEFINE page == found[p].page[s]
    <2>1. /\ pc[p] = "links" /\ todo[p] = {} /\ links' = links
          /\ source' = [r \in Sources |->
                          IF source[r].active /\ source[r].stamp # run[p]
                          THEN [source[r] EXCEPT !.active = FALSE] ELSE source[r]]
      BY DEF Deactivate
    <2>2. source[s] \in [page: Pages, active: BOOLEAN, stamp: 0..MaxSyncs]
      BY DEF Inv, TypeOK
    <2>3. CASE page = Absent
      <3>1. source[s].stamp # run[p]
        BY <2>1, <2>3 DEF Inv, SourcesFollow
      <3>2. source[s].active => source'[s] = [source[s] EXCEPT !.active = FALSE]
        BY <2>1, <3>1
      <3>3. ~source[s].active => source'[s] = source[s]
        BY <2>1
      <3>4. ~source'[s].active
        BY <2>2, <3>2, <3>3
      <3>5. QED
        BY <2>3, <3>4
    <2>4. CASE page # Absent
      <3>1. /\ source[s].stamp = run[p]
            /\ \/ page = SitemapOnly /\ source[s].page.kind = "rest"
               \/ source[s].active /\ source[s].page = page /\ links[s] = page.files
        BY <2>1, <2>4 DEF Inv, SourcesFollow
      <3>2. source'[s] = source[s]
        BY <2>1, <3>1
      <3>3. QED
        BY <2>1, <2>4, <3>1, <3>2
    <2>5. QED
      BY <2>3, <2>4
  <1>2. QED
    BY <1>1, InvHolds, PTL DEF Spec, CompletedSyncMirrorsTheSite
=============================================================================

----------------------------- MODULE Discovery -----------------------------
(***************************************************************************)
(* One read of what the bank publishes (app/nrb/discovery.py) and what a   *)
(* sync makes of it in nrb_sources (app/nrb/records.py, and the sources    *)
(* phase of app/nrb/sync.py).  Module Catalog takes a page's identity for  *)
(* granted; here it is what WordPress says: a post has an id and a URL,    *)
(* the URL may change, REST pages through posts by position and the        *)
(* sitemap lists URLs, and the bank goes on editing while both are read.   *)
(*                                                                         *)
(* One post type is served by REST, another only listed by the sitemap.    *)
(***************************************************************************)
EXTENDS Integers, Sequences, FiniteSetsExt, SequencesExt

CONSTANTS
  Posts,        \* ids of the posts of the type REST serves; 0 stands for NULL
  Urls,         \* page URLs, in their order as strings
  FirstPosts,   \* the posts of that type at the start, newest first
  FirstUrl,     \* their URLs
  FirstRows,    \* tables earlier syncs may have left: see RowOf
  Unserved,     \* the URLs of the type REST does not serve
  PerPage,      \* wp_api.PER_PAGE
  PerSitemap,   \* entries the site puts in one child sitemap
  MaxEdits, MaxSyncs, MaxFaults,   \* bounds on a behaviour
  MaxRemovals   \* posts the bank removes while one discovery reads: see StayedIsActive

ASSUME DiscoveryAssumption ==
  /\ 0 \notin Posts /\ Posts \subseteq Nat /\ Urls \subseteq Nat \ {0}
  /\ Unserved \subseteq Urls
  /\ {PerPage, PerSitemap} \subseteq Nat \ {0}
  /\ {MaxEdits, MaxRemovals, MaxSyncs, MaxFaults} \subseteq Nat

VARIABLES
  posts,    \* the published posts, newest first, as REST orders them
  url,      \* where each published post is
  pc,       \* where the sync is
  d,        \* what its discovery holds
  stayed,   \* history: what has been published, unmoved, since the discovery began
  rows,     \* nrb_sources: the ids are their positions
  failed,   \* history: an update met a unique index
  left      \* what remains of each bound

vars == <<posts, url, pc, d, stayed, rows, failed, left>>
site == <<posts, url>>

Unread == [at |-> 1, items |-> <<>>, total |-> -1, restRead |-> TRUE,
           seen |-> 0, listed |-> {}, mapRead |-> TRUE, refused |-> FALSE,
           queue |-> <<>>]

Published == Range(posts)
Pages == {[id |-> p, url |-> url[p]] : p \in Published} \cup {[id |-> 0, url |-> u] : u \in Unserved}

Init ==
  /\ posts = FirstPosts
  /\ url = FirstUrl
  /\ pc = "idle"
  /\ d = Unread
  /\ stayed = {}
  /\ rows \in FirstRows
  /\ failed = FALSE
  /\ left = [edits |-> MaxEdits, removals |-> 0, syncs |-> MaxSyncs, faults |-> MaxFaults]

Spend(b) == left[b] > 0 /\ left' = [left EXCEPT ![b] = @ - 1]
Fault == left.faults > 0 /\ left' = [left EXCEPT !.faults = @ - 1]

-----------------------------------------------------------------------------
(* The website.  Each edit comes while a sync is under way: one made between *)
(* two syncs is one made when the first has read everything.               *)

Taken == {url[p] : p \in Published} \cup Unserved

Publish ==
  /\ pc # "idle"
  /\ Spend("edits")
  /\ \E p \in Posts \ DOMAIN url, u \in Urls \ Taken :
       posts' = <<p>> \o posts /\ url' = url @@ (p :> u)
  /\ UNCHANGED <<pc, d, stayed, rows, failed>>

Move ==
  /\ pc # "idle"
  /\ Spend("edits")
  /\ \E p \in Published, u \in Urls \ Taken :
       /\ url' = [url EXCEPT ![p] = u]
       /\ stayed' = {page \in stayed : page.id # p}
  /\ UNCHANGED <<posts, pc, d, rows, failed>>

Unpublish ==
  /\ pc # "idle"
  /\ left.edits > 0 /\ left.removals > 0
  /\ left' = [left EXCEPT !.edits = @ - 1, !.removals = @ - 1]
  /\ \E p \in Published :
       /\ posts' = SelectSeq(posts, LAMBDA q: q # p)
       /\ stayed' = {page \in stayed : page.id # p}
  /\ UNCHANGED <<url, pc, d, rows, failed>>

-----------------------------------------------------------------------------
(* REST.                                                                   *)

\* create_run, fetch_categories, fetch_post_types: the taxonomy must be there,
\* but an error on the way to it is only remembered; without the list of types
\* every type is asked for, and the one not served answers 404.
BeginSync ==
  /\ pc = "idle"
  /\ left.syncs > 0
  /\ \/ d' = Unread /\ left' = [left EXCEPT !.syncs = @ - 1, !.removals = MaxRemovals]
     \/ /\ left.faults > 0
        /\ d' = [Unread EXCEPT !.restRead = FALSE]
        /\ left' = [left EXCEPT !.syncs = @ - 1, !.faults = @ - 1, !.removals = MaxRemovals]
  /\ stayed' = Pages
  /\ pc' = "rest"
  /\ UNCHANGED <<site, rows, failed>>

\* DiscoveryError: no taxonomy, no sync.
RefuseSync ==
  /\ pc = "idle"
  /\ Spend("syncs")
  /\ UNCHANGED <<site, pc, d, stayed, rows, failed>>

PageOf(k) == SubSeq(posts, (k - 1) * PerPage + 1, Min({k * PerPage, Len(posts)}))

\* A 400 after the promised count is the end; short of it, an error.
Exhausted(held) == held.total # -1 /\ Len(held.items) >= held.total

RestEnds(held) == d' = [held EXCEPT !.at = 1, !.total = -1] /\ pc' = "sitemap"

\* One request of _fetch_collection.
FetchPage ==
  /\ pc = "rest"
  /\ LET k == d.at
         page == PageOf(k)
         items == [i \in DOMAIN page |-> [id |-> page[i], url |-> url[page[i]]]]
         grown == [d EXCEPT !.items = @ \o items, !.at = @ + 1,
                            !.total = IF @ = -1 THEN Len(posts) ELSE @]
     IN IF page = <<>> /\ k > 1
          THEN RestEnds([d EXCEPT !.restRead = @ /\ Exhausted(d)])
        ELSE IF Len(page) < PerPage THEN RestEnds(grown)
        ELSE d' = grown /\ UNCHANGED pc
  /\ UNCHANGED <<site, stayed, rows, failed, left>>

\* An error ends the walk, and so does MAX_PAGES: either makes the run incomplete.
FetchPageFails ==
  /\ pc = "rest"
  /\ Fault
  /\ RestEnds([d EXCEPT !.restRead = FALSE])
  /\ UNCHANGED <<site, stayed, rows, failed>>

-----------------------------------------------------------------------------
(* The sitemap.                                                            *)

\* The children of the index: the served type in the order of publication, a
\* fixed number of entries each, and the other type.
Children == [i \in 1..((Len(posts) + PerSitemap - 1) \div PerSitemap + 1) |-> i - 1]
Entries(c) ==
  IF c = 0 THEN Unserved
  ELSE {url[posts[i]] : i \in {j \in DOMAIN posts : (Len(posts) - j) \div PerSitemap = c - 1}}

\* _probe_root and the root index; the first candidate may fail.
ReadRoot ==
  /\ pc = "sitemap"
  /\ \/ UNCHANGED left /\ d' = [d EXCEPT !.seen = 1, !.queue = Children]
     \/ /\ Fault
        /\ d' = [d EXCEPT !.seen = 1, !.queue = Children, !.mapRead = FALSE]
  /\ pc' = "children"
  /\ UNCHANGED <<site, stayed, rows, failed>>

\* SitemapError: no sitemap at all.
ReadNoRoot ==
  /\ pc = "sitemap"
  /\ Fault
  /\ d' = [d EXCEPT !.mapRead = FALSE]
  /\ pc' = "apply"
  /\ UNCHANGED <<site, stayed, rows, failed>>

NextChild(held) == d' = held /\ pc' = IF held.queue = <<>> THEN "apply" ELSE "children"

ReadChild ==
  /\ pc = "children"
  /\ NextChild([d EXCEPT !.queue = Tail(@), !.seen = @ + 1, !.listed = @ \cup Entries(Head(d.queue))])
  /\ UNCHANGED <<site, stayed, rows, failed, left>>

\* A child that can not be fetched or parsed is an error, a bound says so, and a
\* child the guard refuses, or that redirects, is rejected and no more.
SkipChild ==
  /\ pc = "children"
  /\ Fault
  /\ \/ NextChild([d EXCEPT !.queue = Tail(@), !.mapRead = FALSE])
     \/ NextChild([d EXCEPT !.queue = <<>>, !.mapRead = FALSE])
     \/ NextChild([d EXCEPT !.queue = Tail(@), !.refused = TRUE])
  /\ UNCHANGED <<site, stayed, rows, failed>>

\* Mutant of Complete: the sitemap is not asked for.
CompleteRest == d.restRead

Complete == d.restRead /\ d.mapRead /\ d.seen > 0

-----------------------------------------------------------------------------
(* Records, and the rows of nrb_sources they resolve to.                   *)

\* build_source_records, the REST half: sorted by URL and id, the first of each
\* URL and of each identity.
RestRecords ==
  LET before(a, b) == a.url < b.url \/ (a.url = b.url /\ a.id < b.id)
      keep(kept, i) ==
        IF \E j \in DOMAIN kept : kept[j].url = i.url \/ kept[j].id = i.id THEN kept
        ELSE Append(kept, i)
  IN FoldLeft(keep, <<>>, SortSeq(d.items, before))

\* The sitemap half: what REST did not return, if REST is to be believed.
StubRecords(rest) ==
  LET stubs == IF d.restRead THEN d.listed \ {r.url : r \in Range(rest)} ELSE {}
  IN [i \in 1..Cardinality(stubs) |->
        [id |-> 0, url |-> CHOOSE u \in stubs : Cardinality({v \in stubs : v < u}) = i - 1]]

Records == LET rest == RestRecords IN rest \o StubRecords(rest)

\* SourceIndex.match: by identity, then by URL; 0 is no row.
ByPost(r) == {n \in DOMAIN rows : r.id # 0 /\ rows[n].id = r.id}
ByUrl(r) == {n \in DOMAIN rows : rows[n].url = r.url}
Match(r) == Max((IF ByPost(r) # {} THEN ByPost(r) ELSE ByUrl(r)) \cup {0})

\* A stub does not overwrite a row REST described, and a post that has moved to
\* a URL another row owns stays where it is.
Dropout(r) == r.id = 0 /\ rows[Match(r)].rest
Collides(r) == rows[Match(r)].url # r.url /\ ByUrl(r) # {}

\* Mutant of LeftAlone: a URL may be taken from another row.
LeftAloneDropout(r) == Match(r) # 0 /\ Dropout(r)

LeftAlone(r) == Match(r) # 0 /\ (Dropout(r) \/ Collides(r))

RowOf(r) == [id |-> r.id, url |-> r.url, rest |-> r.id # 0, active |-> TRUE, stamped |-> TRUE]

\* insert_sources, then update_sources row after row in the order of the records,
\* every statement against the unique indexes; touch_sources stamps the rest.
Distinct(table) ==
  \A m, n \in DOMAIN table : m # n =>
    table[m].url # table[n].url /\ (table[m].id # table[n].id \/ table[m].id = 0)

Update(state, r) ==
  LET table == [state.table EXCEPT ![Match(r)] = RowOf(r)]
  IN IF state.ok /\ Distinct(table) THEN [state EXCEPT !.table = table]
     ELSE [state EXCEPT !.ok = FALSE]

Resolved ==
  LET records == Records
      matched == SelectSeq(records, LAMBDA r: Match(r) # 0 /\ ~LeftAlone(r))
      inserts == SelectSeq(records, LAMBDA r: Match(r) = 0)
      touched == {Match(r) : r \in {r \in Range(records) : LeftAlone(r)}}
      unstamped == [n \in DOMAIN rows |-> [rows[n] EXCEPT !.stamped = n \in touched]]
      inserted == unstamped \o [i \in DOMAIN inserts |-> RowOf(inserts[i])]
  IN FoldLeft(Update, [table |-> inserted, ok |-> Distinct(inserted)], matched)

\* deactivate_unseen, of a complete discovery; the floor that may still refuse it
\* is in Catalog.
Deactivated(table) ==
  [n \in DOMAIN table |->
     [table[n] EXCEPT !.active = @ /\ (table[n].stamped \/ ~Complete), !.stamped = FALSE]]

ApplySources ==
  /\ pc = "apply"
  /\ LET resolved == Resolved IN
     IF resolved.ok THEN rows' = Deactivated(resolved.table) /\ UNCHANGED failed
     ELSE UNCHANGED rows /\ failed' = TRUE
  /\ pc' = "idle" /\ d' = Unread /\ stayed' = {}
  /\ left' = [left EXCEPT !.removals = 0]
  /\ UNCHANGED site

Next ==
  \/ Publish \/ Move \/ Unpublish
  \/ BeginSync \/ RefuseSync \/ FetchPage \/ FetchPageFails
  \/ ReadRoot \/ ReadNoRoot \/ ReadChild \/ SkipChild
  \/ ApplySources

Spec == Init /\ [][Next]_vars

-----------------------------------------------------------------------------
\* No order of records, and no state earlier syncs left, makes the sources phase
\* of a sync fail on a unique index (SourceIndex, sync.py: "would violate
\* ux_nrb_sources_url_key and abort the batch").
SourcesPhaseSucceeds == ~failed

\* Two records of one sync may resolve to one row: a post that took the URL
\* another has just left, beside that other post.
OneRecordPerRow ==
  LET matched == {r \in Range(Records) : Match(r) # 0}
  IN Cardinality({Match(r) : r \in matched}) = Cardinality(matched)

IsRowOf(row, page) == row.url = page.url \/ (page.id # 0 /\ row.id = page.id)

\* The exception the code makes to "reappears | reactivated"
\* (docs/nrb-integration.md:756): a row the sync leaves alone, because only the
\* sitemap showed a page REST once described or because another row owns the URL,
\* is touched and not reactivated.
StaysInactive(n) ==
  /\ n \in DOMAIN rows /\ ~rows[n].active
  /\ \E r \in Range(Records) : Match(r) = n /\ LeftAlone(r)

\* A complete sync leaves the row of a page that was published, unmoved, all the
\* while the site was read active, whatever the rows before it, active and inactive,
\* and the bank's edits beside it: it deactivates none of them, and reactivates the
\* inactive ones it does not leave alone (discovery.py:21, "deactivation is only
\* permitted when it is True").  Not claimed: of a discovery that rejected a child
\* sitemap, which is a finding and no error, so that the run still counts as complete
\* (sitemap.py:325, 351); when two records compete for one row; and for a second
\* removal during one read (MaxRemovals).  What one removal shifts past the cursor of
\* REST is in the sitemap; a second, while that is read, can hide it there too.
StayedIsActive ==
  [][ApplySources /\ ~failed' /\ Complete /\ ~d.refused /\ OneRecordPerRow =>
       \A page \in stayed : \E n \in DOMAIN rows' :
         IsRowOf(rows'[n], page) /\ (rows'[n].active \/ StaysInactive(n))]_vars
=============================================================================

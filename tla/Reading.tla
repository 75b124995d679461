----------------------------- MODULE Reading -----------------------------
(***************************************************************************)
(* A department's documents from the file to the answer: the worker        *)
(* indexes them (module Chunking), a chat turn searches the index and      *)
(* reads documents page by page, and the turn's sources are resolved from  *)
(* what the searches presented and what the answer cites                   *)
(* (app/rag/retrieval.py, ranking.py, sources.py, and the tools            *)
(* search_department_docs and read_department_doc).                        *)
(*                                                                         *)
(* A department is one turn's: every query is bound to it by the composite *)
(* key of document_chunks.  The three channels of the search and their     *)
(* fusion are an order of the indexed passages; the reranker is a score    *)
(* for each, or none, or a failure.                                        *)
(***************************************************************************)
EXTENDS Chunking

CONSTANTS
  Docs,
  Corpora,     \* the corpora considered: functions from Docs to files
  Settings,    \* chunker settings a worker may run with: [maxChars, overlap, minBody]
  Pool,        \* config.rag_rerank_pool
  TopK,        \* config.rag_top_k
  LineCap, CharBudget,        \* READ_DOC_MAX_LINES, DOC_MAX_CHARS
  MaxIndexings, MaxSearches   \* bounds on a behaviour

ASSUME ReadingAssumption ==
  /\ {Pool, TopK, LineCap, CharBudget} \subseteq Nat \ {0}
  /\ {MaxIndexings, MaxSearches} \subseteq Nat
  \* the shipped settings are 2000, 200 and 40
  /\ \A s \in Settings : s.minBody >= 0 /\ s.maxChars >= 2 * s.minBody /\ s.overlap >= 0

NoScore == "none"
Scores == {NoScore, "below", "reaching"}   \* against config.rag_relevance_threshold

NoDoc == "no document"
RecoveredRoutes == {"ocr", "legacy_conversion"}

VARIABLES
  corpus,    \* what each document's file holds
  index,     \* per document: its chunks, none unless it is ready, and the setting they were cut with
  told,      \* history: what each search told the model
  records,   \* sources.SourceCollector: what each search recorded
  reader,    \* a document being read page by page
  sources,   \* what the turn published
  left       \* what remains of each bound

vars == <<corpus, index, told, records, reader, sources, left>>

NotRead == [doc |-> NoDoc, overlap |-> 0, next |-> 1, seen |-> <<>>, done |-> FALSE, moved |-> FALSE]
Open == [kind |-> "open", list |-> {}, cites |-> {}]

Init ==
  /\ corpus \in Corpora
  /\ index = [d \in Docs |-> [chunks |-> <<>>, setting |-> CHOOSE s \in Settings : TRUE]]
  /\ told = <<>>
  /\ records = <<>>
  /\ reader = NotRead
  /\ sources = Open
  /\ left = [indexings |-> MaxIndexings, searches |-> MaxSearches]

-----------------------------------------------------------------------------
(* The worker: the old chunks go and the new ones come in one transaction. *)
(* A ParseError leaves a document as it was.                               *)
Ingest(d) ==
  /\ left.indexings > 0
  /\ left' = [left EXCEPT !.indexings = @ - 1]
  /\ \E s \in Settings :
       LET chunks == LoadChunks(corpus[d], s)
       IN  /\ chunks # <<>>
           /\ index' = [index EXCEPT ![d] = [chunks |-> chunks, setting |-> s]]
           /\ reader' = [reader EXCEPT !.moved = @ \/ (reader.doc = d /\ chunks # index[d].chunks)]
  /\ UNCHANGED <<corpus, told, records, sources>>

-----------------------------------------------------------------------------
(* search_department_docs                                                  *)
Passages == UNION {{<<d, i>> : i \in DOMAIN index[d].chunks} : d \in Docs}

\* retrieval.search_chunks: the fused order of the best candidates.
Retrieved == UNION {SetToSeqs(S) : S \in {S \in SUBSET Passages : Cardinality(S) \in 1 .. Pool}}

\* Mutant: a candidate without a score is taken for one that was rejected.
KeptScored(candidates, scores) ==
  LET with(v) == SelectSeq([i \in DOMAIN candidates |-> <<candidates[i], scores[i]>>], LAMBDA p : p[2] = v)
  IN  [i \in DOMAIN with("reaching") |-> with("reaching")[i][1]]

\* ranking.decide over one score for each candidate: those that reach the
\* threshold, then those the reranker was silent about.
Kept(candidates, scores) ==
  LET with(v) == SelectSeq([i \in DOMAIN candidates |-> <<candidates[i], scores[i]>>], LAMBDA p : p[2] = v)
      ranked == with("reaching") \o with(NoScore)
  IN  IF Range(scores) = {NoScore} THEN candidates
      ELSE [i \in DOMAIN ranked |-> ranked[i][1]]

AtMostTopK(passages) == SubSeq(passages, 1, Min({TopK, Len(passages)}))

\* sources.SourceChunk of a passage
Source(p) == LET c == index[p[1]].chunks[p[2]]
             IN  [doc |-> p[1], page |-> c.page, route |-> c.route, authoritative |-> c.authoritative]

\* What the tool may hand to the model of what was kept: as many as were asked for
\* and as fit its budget, from the front.
Presentable(kept) == {SubSeq(kept, 1, n) : n \in 1 .. Len(kept)}

Searching == sources.kind = "open" /\ left.searches > 0

Tell(kind, passages, promising) ==
  /\ left' = [left EXCEPT !.searches = @ - 1]
  /\ told' = Append(told, [kind |-> kind, passages |-> passages, promising |-> promising])

RecordSearch(passages) == records' = Append(records, passages)

\* No chunk in the department: answered without a record.
SearchNothing ==
  /\ Searching
  /\ Passages = {}
  /\ Tell("nothing", <<>>, FALSE)
  /\ UNCHANGED <<corpus, index, records, reader, sources>>

Present(kept, promising) ==
  \E presented \in Presentable(AtMostTopK(kept)) :
    LET shown == [i \in DOMAIN presented |-> Source(presented[i])]
    IN  /\ Tell("passages", shown, promising)
        /\ RecordSearch(shown)

\* ranking.apply with the reranker off or failing: the fused order, no abstention.
SearchDegraded ==
  /\ Searching
  /\ \E candidates \in Retrieved : Present(candidates, TRUE)
  /\ UNCHANGED <<corpus, index, reader, sources>>

SearchRanked ==
  /\ Searching
  /\ \E candidates \in Retrieved : \E scores \in [DOMAIN candidates -> Scores] :
       LET kept == Kept(candidates, scores)
           promising == Range(scores) # {"below"}
       IN  IF kept = <<>> THEN Tell("abstained", <<>>, promising) /\ RecordSearch(<<>>)
           ELSE Present(kept, promising)
  /\ UNCHANGED <<corpus, index, reader, sources>>

-----------------------------------------------------------------------------
(* read_department_doc: a first page, and the page the last header named.   *)
(* The overlap it takes out is the one the reading process is configured    *)
(* with, whatever the document was cut with.                                *)
Lines(d, overlap) == ToLines(index[d].chunks, overlap)

\* The page from a line on, and what its header says of the rest.
ReadPage(from) ==
  LET w == Window(Lines(from.doc, from.overlap), from.next, LineCap, CharBudget)
  IN  reader' = [from EXCEPT !.next = w.last + 1, !.seen = @ \o w.shown, !.done = ~w.truncated]

BeginReading(d) ==
  /\ sources.kind = "open"
  /\ reader = NotRead
  /\ index[d].chunks # <<>>
  /\ \E s \in Settings : ReadPage([NotRead EXCEPT !.doc = d, !.overlap = s.overlap])
  /\ UNCHANGED <<corpus, index, told, records, sources, left>>

ContinueReading ==
  /\ sources.kind = "open"
  /\ reader.doc # NoDoc /\ ~reader.done
  /\ ReadPage(reader)
  /\ UNCHANGED <<corpus, index, told, records, sources, left>>

-----------------------------------------------------------------------------
(* sources.resolve_sources, when the turn ends.                            *)
\* is_machine_recovered
Recovered(p) == p.route \in RecoveredRoutes \/ ~p.authoritative

DocumentSources(passages, cited) ==
  LET of(d) == {p \in passages : p.doc = d}
  IN  {[doc |-> d, cited |-> cited,
        pages |-> {p.page : p \in of(d)} \ {""},
        recovered |-> \E p \in of(d) : Recovered(p)] : d \in {p.doc : p \in passages}}

\* Of several searches, a document's entry is that of the first that presented it.
FirstSeen(presented) ==
  LET add(out, record) ==
        out \cup {e \in DocumentSources(Range(record), FALSE) : e.doc \notin {o.doc : o \in out}}
  IN  FoldLeft(add, {}, presented)

\* cites: the numbers in brackets that the answer holds.
Resolved(cites) ==
  LET presented == SelectSeq(records, LAMBDA r : r # <<>>)
      addressed == cites \cap DOMAIN Head(presented)
  IN  IF Len(presented) # 1 THEN FirstSeen(presented)
      ELSE IF addressed # {} THEN DocumentSources({Head(presented)[i] : i \in addressed}, TRUE)
      ELSE DocumentSources(Range(Head(presented)), FALSE)

\* An answer may hold the number of a passage, and one that no passage has.
Finish ==
  /\ sources.kind = "open"
  /\ \E cites \in SUBSET (1 .. TopK + 1) :
       sources' = [kind |-> IF records = <<>> THEN "null" ELSE "list",
                   list |-> Resolved(cites), cites |-> cites]
  /\ UNCHANGED <<corpus, index, told, records, reader, left>>

Next ==
  \/ \E d \in Docs : Ingest(d) \/ BeginReading(d)
  \/ SearchNothing \/ SearchDegraded \/ SearchRanked
  \/ ContinueReading
  \/ Finish

Spec == Init /\ [][Next]_vars

-----------------------------------------------------------------------------
(* What could be true of the chunks.                                       *)
Letters(text) == Range(text) \ Blank
Indexed(d) == UNION {Letters(c.text) : c \in Range(index[d].chunks)}

\* A run of blocks of a layout under one heading on one page, no table among them.
Run(blocks, i, j) ==
  \A k \in i .. j : /\ ~blocks[k].table
                    /\ blocks[k].section = blocks[i].section /\ blocks[k].page = blocks[i].page

RunLength(blocks, i, j) ==
  FoldLeft(LAMBDA n, k : n + Len(blocks[k].text) + 1, -1, [k \in 1 .. j - i + 1 |-> i + k - 1])

LayoutHeld(d, blocks, setting) ==
  LET missing(k) == /\ Len(blocks[k].text) <= setting.maxChars
                    /\ ~ Letters(blocks[k].text) \subseteq Indexed(d)
  IN  /\ \A i \in DOMAIN blocks : \A j \in i .. Len(blocks) :
           Run(blocks, i, j) /\ (\A k \in i .. j : missing(k))
             => RunLength(blocks, i, j) < setting.minBody
      /\ \A k \in DOMAIN blocks : blocks[k].table => ~missing(k)
      /\ \A c \in Range(index[d].chunks) : \A x \in Letters(c.text) :
           \E b \in Range(blocks) : x \in Letters(b.text) /\ b.section = c.section /\ b.page = c.page

SheetHeld(d, file) ==
  \A r \in Range(file.rows) : \E c \in Range(index[d].chunks) :
    /\ Letters(r) \subseteq Letters(c.text)
    /\ SubSeq(c.text, 1, Len(file.header)) = file.header

RecoveredHeld(d, file, setting) ==
  /\ \A p \in Range(file.pages) :
       Len(p.text) <= setting.maxChars => Letters(p.text) \subseteq Indexed(d)
  /\ \A c \in Range(index[d].chunks) : \E p \in Range(file.pages) :
       /\ Letters(c.text) \subseteq Letters(p.text)
       /\ c.page = p.page /\ c.route = p.route
       /\ p.garbled => ~c.authoritative \/ c.route \in RecoveredRoutes

\* What is indexed of a document is the document: no heading's text that amounts to
\* a body is left out, however the parser splits it; a table or a row is never left
\* out, and never loses its header; and a chunk holds only text that stands under
\* its heading, on its page, by its route, and is not authoritative if its page was
\* found garbled.  A text longer than a chunk is the business of EveryWordIsIndexed.
IndexHoldsTheDocument ==
  \A d \in Docs : LET file == corpus[d] setting == index[d].setting
    IN index[d].chunks = <<>> \/
       CASE file.kind = "layout" -> LayoutHeld(d, Collect(file.items), setting)
         [] file.kind = "sheet" -> SheetHeld(d, file)
         [] file.kind = "nrb" -> RecoveredHeld(d, file, setting)
         [] file.kind = "text" -> Len(file.text) > setting.maxChars \/ Letters(file.text) \subseteq Indexed(d)

\* chunking.py:5: prose splits with overlap, so that a sentence straddling a
\* boundary is retrievable from either side: every word of a text that is indexed is
\* in one of its chunks.
EveryWordIsIndexed ==
  \A d \in Docs : corpus[d].kind = "text" /\ index[d].chunks # <<>>
                    => Letters(corpus[d].text) \subseteq Indexed(d)

-----------------------------------------------------------------------------
\* The model is told that a department's documents hold nothing on a question only
\* when there are none, or when the reranker judged every candidate and rejected it;
\* silence and failure never refuse.
RefusalIsEarned ==
  \A i \in DOMAIN told : told[i].kind # "passages" => ~told[i].promising

\* An entry stands for its document's passages: their pages and no others, and the
\* caveat if there is text to verify among them.
StandsFor(entry, passages, cited) ==
  LET own == {p \in passages : p.doc = entry.doc}
  IN  /\ own # {} /\ entry.cited = cited
      /\ entry.pages = {p.page : p \in own} \ {""}
      /\ entry.recovered <=> \E p \in own : Recovered(p)

\* One entry for each document.
OneEach(list, passages) ==
  /\ {s.doc : s \in list} = {p.doc : p \in passages}
  /\ Cardinality(list) = Cardinality({s.doc : s \in list})

\* What a turn publishes as its sources was before the model: of one list of
\* passages, the cited ones and their pages, text to verify told apart; of one list
\* and no citation that resolves, all of it; of several, every document once, none
\* cited.  Of several lists the entry of a document is that of the first that
\* presented it: the pages that later lists presented, and text to verify that only
\* they did, are not in it (sources.py:271, against sources.py:206, "naming only the
\* first route would hide the recovered page").  With no passage at all nothing is
\* listed, and the turn says that it searched if some search rejected its candidates;
\* one that found none is not recorded, and the turn says that it did not search
\* (search_department_docs.py:258, against sources.py:113, "INCLUDING one that
\* presented nothing").
CitationsAreSound ==
  LET lists == SelectSeq(told, LAMBDA t : t.kind = "passages")
      of(i) == Range(lists[i].passages)
      shown == UNION {of(i) : i \in DOMAIN lists}
      quoted == {lists[1].passages[i] : i \in sources.cites \cap DOMAIN lists[1].passages}
      relevant == IF quoted = {} THEN shown ELSE quoted
      first(entry) == Min({i \in DOMAIN lists : \E p \in of(i) : p.doc = entry.doc})
  IN  sources.kind = "open" \/
      CASE Len(lists) = 1 -> /\ OneEach(sources.list, relevant)
                             /\ \A s \in sources.list : StandsFor(s, relevant, quoted # {})
        [] Len(lists) > 1 -> /\ OneEach(sources.list, shown)
                             /\ \A s \in sources.list : StandsFor(s, of(first(s)), FALSE)
        [] lists = <<>> -> /\ sources.list = {}
                           /\ sources.kind = "list" <=> \E t \in Range(told) : t.kind = "abstained"

AnswersAreGrounded == RefusalIsEarned /\ CitationsAreSound

\* Whoever follows the headers of a document's pages is shown every line of it once,
\* in order, whole unless it is longer than a page, and the header that names no
\* next line has the last one.  (Not of a document that is indexed anew meanwhile:
\* the line numbers are those of the text at hand.)
ReadingReachesTheEnd ==
  LET lines == Lines(reader.doc, reader.overlap)
  IN  reader.doc = NoDoc \/ reader.moved \/
      /\ Len(reader.seen) = reader.next - 1
      /\ \A i \in DOMAIN reader.seen :
           reader.seen[i] = SubSeq(lines[i], 1, IF Len(lines[i]) < CharBudget THEN Len(lines[i]) ELSE CharBudget)
      /\ IF reader.done THEN Len(reader.seen) = Len(lines)
         ELSE reader.next \in 2 .. Len(lines)
=============================================================================

------------------------------ MODULE Recovery ------------------------------
(***************************************************************************)
(* Turning one downloaded file into text that may be searched, and the     *)
(* cache that spares the work the next time (app/nrb/recovery.py,          *)
(* recovery_cache.py, rag.py, legacy_convert.py, ocr.py).                  *)
(*                                                                         *)
(* Ingest workers share the cache tables and nothing else.  Each runs the  *)
(* engines its deployment has: a legacy-font converter with its lexicon,   *)
(* an OCR engine, a font repair, each of some version or absent (0), and   *)
(* the conversion gate its code was built with.  chunks_for_blob reads the *)
(* cache in one transaction, works for minutes in none, and stores in      *)
(* another, so whatever a worker has read may be replaced meanwhile by a   *)
(* worker with other engines.                                              *)
(*                                                                         *)
(* A text is a set of <<line kind, form>>: a line of some kind, as it is   *)
(* in the file, converted, read by OCR or repaired.                        *)
(***************************************************************************)
EXTENDS TextVerdict

CONSTANTS
    Workers,        \* ingest workers
    Blobs,          \* files the pipeline may meet
    Deployments,    \* engine configurations a worker may run with
    Nothing,        \* no cache row, no document
    MaxDeploys,     \* bound on redeployments, which also kill the worker
    MaxReadFaults   \* bound on reads that fail after an earlier one worked

\* A workbook without sheets is read as one, and a flat text is one page.
ASSUME BlobsAssumption ==
    /\ Blobs \subseteq FileFacts
    /\ \A b \in Blobs : Family(b) # "pdf" => b.pages # <<>>
ASSUME DeploymentsAssumption ==
    Deployments \subseteq
        [converter : Nat, lexicon : Nat, ocr : Nat, repair : Nat, gate : Nat]
ASSUME BoundsAssumption == MaxDeploys \in Nat /\ MaxReadFaults \in Nat

VARIABLES
    blob,      \* the file: a constant of each behaviour
    cache,     \* gate -> the stored units, or Nothing (nrb_recoveries and units)
    pc,        \* where each worker is in chunks_for_blob
    engines,   \* the deployment each worker runs
    header,    \* unit_count read by load's first statement
    cached,    \* what load returned
    doc,       \* the document the worker last recovered, until it is stored
    left       \* what remains of each bound

vars == <<blob, cache, pc, engines, header, cached, doc, left>>

Gates == {d.gate : d \in Deployments}
Forms == {"original", "converted", "read", "repaired"}

\* The kinds of line in the file that may be handed to the converter.
Candidates ==
    {"glyph", "short"} \intersect UNION {blob.pages[k].lines : k \in DOMAIN blob.pages}

\* validate_conversion: what the guards say of one converted line.
Validations == {"accepted", "ambiguous", "rejected"}

\* ocr_page: the text of the page, no text at all, or OcrUnavailable.
OcrAnswers == {"text", "blank", "failure"}

\* repair_page: every check passed, or the page stays as it is.
Repairs == {"repaired", "unrepaired"}

\* What the engines make of one run over the file; the converter may also raise.
Outcomes ==
    [convert : [Candidates -> Validations], raises : BOOLEAN,
     ocr : OcrAnswers, repair : Repairs]

\* Why a unit is as it is: what decided its route, or what failed.
UnitReasons ==
    RouteReasons \union
    {"below_conversion_gate", "conversion_unavailable", "conversion_failed",
     "conversion_unresolved", "reread_failed"}

\* nrb_recovery_units: a unit's route, why, its text and what made it.
Units ==
    [route : Routes, reason : UnitReasons, ok : BOOLEAN,
     text : SUBSET (LineKinds \X Forms), engine : Seq(Nat), by : Seq(Nat)]

\* nrb_recoveries: a document is as many units as its header counts, at least
\* one and no more than the file has pages.
Documents == {d \in Seq(Units) : Len(d) \in 1..Len(blob.pages)}

TypeOK ==
    /\ blob \in Blobs
    /\ cache \in [Gates -> Documents \union {Nothing}]
    /\ pc \in [Workers -> {"idle", "units", "work", "save"}]
    /\ engines \in [Workers -> Deployments]
    /\ header \in [Workers -> Nat]
    /\ cached \in [Workers -> Documents \union {Nothing}]
    /\ doc \in [Workers -> Documents \union {Nothing}]
    /\ left \in [{"deploys", "faults"} -> Nat]

Init ==
    /\ blob \in Blobs
    /\ cache = [g \in Gates |-> Nothing]
    /\ pc = [w \in Workers |-> "idle"]
    /\ engines \in {[w \in Workers |-> d] : d \in Deployments}
    /\ header = [w \in Workers |-> 0]
    /\ cached = [w \in Workers |-> Nothing]
    /\ doc = [w \in Workers |-> Nothing]
    /\ left = [deploys |-> MaxDeploys, faults |-> MaxReadFaults]

-----------------------------------------------------------------------------
(* Engines.                                                                *)

\* Mistake: the lexicon is not part of the identity of a conversion.
VersionWithoutLexicon(d, route) ==
    CASE route = "legacy_conversion" ->
            IF d.converter = 0 \/ d.lexicon = 0 THEN <<0, 0>> ELSE <<d.converter, 1>>
      [] route = "ocr" -> <<d.ocr>>
      [] route = "native" -> <<d.repair>>

\* engine_versions, for_route: the identity of whatever produces a route's
\* text.  An absent engine is a version like any other.
Version(d, route) ==
    CASE route = "legacy_conversion" ->
            IF d.converter = 0 \/ d.lexicon = 0 THEN <<0, 0>>
            ELSE <<d.converter, d.lexicon>>
      [] route = "ocr" -> <<d.ocr>>
      [] route = "native" -> <<d.repair>>

Original(lines) == lines \X {"original"}

\* The native text of unit i: a page, a sheet, or the whole of a flat document.
NativeLines(i, flat) ==
    IF flat THEN UNION {blob.pages[k].lines : k \in DOMAIN blob.pages}
    ELSE blob.pages[i].lines

\* _classify_line: is the line handed to the converter?
Candidate(kind) == kind = "glyph" \/ (kind = "short" /\ blob.legacy = 2)

\* _convert_units: the candidates whose conversion replaces them.
Replaced(lines, out) ==
    {k \in lines : /\ Candidate(k)
                   /\ \/ out.convert[k] = "accepted"
                      \/ out.convert[k] = "ambiguous" /\ blob.legacy = 2}

\* Mistake: LineOutcome.text is published as it is, originals included.
WithholdNothing(lines, replaced) ==
    (replaced \X {"converted"}) \union Original(lines \ replaced)

\* _withhold: a candidate that was not replaced is blanked.
Withhold(lines, replaced) ==
    (replaced \X {"converted"})
        \union Original({k \in lines : ~Candidate(k)})

\* History, not stored: the engines that really made a unit's text; a converter
\* without a lexicon, or a lexicon without a converter, makes none.
Producer(d, route) ==
    CASE route = "legacy_conversion" ->
            IF 0 \in {d.converter, d.lexicon} THEN <<>> ELSE <<d.converter, d.lexicon>>
      [] route = "ocr" -> <<d.ocr>>
      [] route = "native" -> <<d.repair>>

\* One row of nrb_recovery_units.
Unit(d, route, reason, ok, text) ==
    [route |-> route, reason |-> reason, ok |-> ok, text |-> text,
     engine |-> Version(d, route), by |-> Producer(d, route)]

\* convert_unit, and one sheet of _recover_spreadsheet.
ConvertUnit(d, lines, reason, out) ==
    LET replaced == Replaced(lines, out)
        unresolved == {k \in lines : Candidate(k)} \ replaced
    IN IF Version(d, "legacy_conversion") = <<0, 0>>
       THEN Unit(d, "legacy_conversion", "conversion_unavailable", FALSE, {})
       ELSE IF out.raises
       THEN Unit(d, "legacy_conversion", "conversion_failed", FALSE, {})
       ELSE IF unresolved # {} /\ replaced = {}
       THEN Unit(d, "legacy_conversion", "conversion_unresolved", FALSE,
                 Withhold(lines, replaced))
       ELSE Unit(d, "legacy_conversion", reason, TRUE, Withhold(lines, replaced))

ReadText(out) == IF out.ocr = "text" THEN {<<"plain", "read">>} ELSE {}

\* Mistake: a page OCR could not read falls back to its text layer.
OcrFallingBack(d, lines, reason, out) ==
    IF d.ocr = 0 \/ out.ocr = "failure"
    THEN Unit(d, "ocr", reason, TRUE, Original(lines))
    ELSE Unit(d, "ocr", reason, TRUE, ReadText(out))

\* ocr_unit: fails closed, never back to the page's text layer.
OcrUnit(d, lines, reason, out) ==
    IF d.ocr = 0 \/ out.ocr = "failure" THEN Unit(d, "ocr", reason, FALSE, {})
    ELSE Unit(d, "ocr", reason, TRUE, ReadText(out))

\* native_unit: a page the repair could not fix keeps its text.
NativeUnit(d, lines, reason, suspect, out) ==
    Unit(d, "native", reason, TRUE,
         IF d.repair # 0 /\ suspect /\ out.repair = "repaired"
         THEN lines \X {"repaired"} ELSE Original(lines))

\* Run one unit on a route that is already decided.
Execute(d, lines, routed, suspect, out) ==
    CASE routed.route = "legacy_conversion" ->
            ConvertUnit(d, lines, routed.reason, out)
      [] routed.route = "ocr" -> OcrUnit(d, lines, routed.reason, out)
      [] routed.route = "native" ->
            NativeUnit(d, lines, routed.reason, suspect, out)

-----------------------------------------------------------------------------
(* Recovery.                                                               *)

\* recover: a document read afresh.  A workbook whose converter is missing is
\* one failed unit whatever its sheets.
Cold(d, out) ==
    LET routes == UnitRoutes(blob, d.gate)
        units == [i \in DOMAIN routes |->
                    Execute(d, NativeLines(i, Family(blob) # "pdf" /\ Len(routes) = 1),
                            routes[i], blob.suspect, out)]
    IN IF Family(blob) = "spreadsheet" /\ Plan(blob, d.gate) = "convert_units"
          /\ Version(d, "legacy_conversion") = <<0, 0>>
       THEN <<units[1]>> ELSE units

\* recover, when the PDF can not be read a second time: the flat text, which is
\* withheld if pages were to be routed.
ColdFlat(d) ==
    LET routed == Plan(blob, d.gate) = "route_pages" IN
    <<Unit(d, "native", IF routed THEN "reread_failed" ELSE PlanReason(blob, d.gate),
           ~routed, Original(NativeLines(1, TRUE)))>>

\* _recover_spreadsheet raises: the flat text is a failed unit, and not withheld.
UnreadWorkbook(d) ==
    <<Unit(d, "legacy_conversion", PlanReason(blob, d.gate), FALSE,
           Original(NativeLines(1, TRUE)))>>

\* Mistake: units are not compared one by one; the first speaks for all.
StaleByFirst(units, d) ==
    IF units[1].engine = Version(d, units[1].route) THEN {} ELSE DOMAIN units

\* CachedRecovery.stale.
Stale(units, d) ==
    {i \in DOMAIN units : units[i].engine # Version(d, units[i].route)}

\* resolve, partial: stale units are executed again on the route they have.
Refreshed(units, d, out) ==
    [i \in DOMAIN units |->
        IF i \in Stale(units, d)
        THEN Execute(d, NativeLines(i, FALSE), units[i], blob.suspect, out)
        ELSE units[i]]

Indexable(unit) == unit.ok /\ unit.text # {}

-----------------------------------------------------------------------------
(* Workers: chunks_for_blob.                                               *)

\* load, first statement: the header of this code's routing version.
LoadHeader(w) ==
    /\ pc[w] = "idle"
    /\ LET row == cache[engines[w].gate] IN
        header' = [header EXCEPT ![w] = IF row = Nothing THEN 0 ELSE Len(row)]
    /\ pc' = [pc EXCEPT ![w] = "units"]
    /\ doc' = [doc EXCEPT ![w] = Nothing]
    /\ UNCHANGED <<blob, cache, engines, cached, left>>

\* load, second statement: another worker may have stored in between, and a set
\* of units the header does not count is a miss.
LoadUnits(w) ==
    /\ pc[w] = "units"
    /\ LET row == cache[engines[w].gate] IN
        cached' = [cached EXCEPT ![w] =
                     IF header[w] = 0 \/ row = Nothing \/ Len(row) # header[w]
                     THEN Nothing ELSE row]
    /\ pc' = [pc EXCEPT ![w] = "work"]
    /\ UNCHANGED <<blob, cache, engines, header, doc, left>>

\* recover_and_chunk: without one indexable unit it raises, and nothing is
\* stored; a warm hit has nothing to store.
Finish(w, recovered, warm) ==
    /\ pc[w] = "work"
    /\ cached' = [cached EXCEPT ![w] = Nothing]
    /\ LET chunks == \E i \in DOMAIN recovered : Indexable(recovered[i]) IN
        /\ doc' = [doc EXCEPT ![w] = IF chunks THEN recovered ELSE Nothing]
        /\ pc' = [pc EXCEPT ![w] = IF chunks /\ ~warm THEN "save" ELSE "idle"]
    /\ header' = [header EXCEPT ![w] = 0]
    /\ UNCHANGED <<blob, cache, engines>>

\* resolve: every unit is current.
Warm(w) == cached[w] # Nothing /\ Stale(cached[w], engines[w]) = {}

ServeWarm(w) ==
    /\ Warm(w)
    /\ Finish(w, cached[w], TRUE)
    /\ UNCHANGED left

\* resolve, partial: only for a PDF.
RefreshUnits(w) ==
    /\ cached[w] # Nothing /\ ~Warm(w)
    /\ Family(blob) = "pdf"
    /\ \E out \in Outcomes : Finish(w, Refreshed(cached[w], engines[w], out), FALSE)
    /\ UNCHANGED left

\* resolve, cold: a miss, or a stale document that is no PDF.
RecoverCold(w) ==
    /\ cached[w] = Nothing \/ (~Warm(w) /\ Family(blob) # "pdf")
    /\ \E out \in Outcomes : Finish(w, Cold(engines[w], out), FALSE)
    /\ UNCHANGED left

\* A read fails after an earlier one worked: the refresh of a PDF falls back to a
\* cold recovery, and a cold one is left with the flat text of its first read.
RereadFails(w) ==
    /\ ~Warm(w)
    /\ left.faults > 0
    /\ left' = [left EXCEPT !.faults = @ - 1]
    /\ \/ /\ Family(blob) = "pdf" /\ Plan(blob, engines[w].gate) # "no_recovery"
          /\ Finish(w, ColdFlat(engines[w]), FALSE)
       \/ /\ Family(blob) = "pdf" /\ cached[w] # Nothing
          /\ \E out \in Outcomes : Finish(w, Cold(engines[w], out), FALSE)
       \/ /\ Family(blob) = "spreadsheet" /\ Plan(blob, engines[w].gate) = "convert_units"
          /\ Version(engines[w], "legacy_conversion") # <<0, 0>>
          /\ Finish(w, UnreadWorkbook(engines[w]), FALSE)

\* save: the header is upserted and its units replaced, in one transaction.
Save(w) ==
    /\ pc[w] = "save"
    /\ cache' = [cache EXCEPT ![engines[w].gate] = doc[w]]
    /\ pc' = [pc EXCEPT ![w] = "idle"]
    /\ doc' = [doc EXCEPT ![w] = Nothing]
    /\ UNCHANGED <<blob, engines, header, cached, left>>

\* A cache write that fails is swallowed: the chunks are served all the same.
SaveFails(w) ==
    /\ pc[w] = "save"
    /\ pc' = [pc EXCEPT ![w] = "idle"]
    /\ doc' = [doc EXCEPT ![w] = Nothing]
    /\ UNCHANGED <<blob, cache, engines, header, cached, left>>

\* scripts/nrb_recovery_cache.py --purge: the header goes and its units with it,
\* so a worker that holds its id finds none.
Purge(g) ==
    /\ cache[g] # Nothing
    /\ cache' = [cache EXCEPT ![g] = Nothing]
    /\ header' = [w \in Workers |-> IF engines[w].gate = g THEN 0 ELSE header[w]]
    /\ UNCHANGED <<blob, pc, engines, cached, doc, left>>

\* A worker dies, or is stopped, and comes back with the engines of d.
Redeploy(w, d) ==
    /\ left.deploys > 0
    /\ left' = [left EXCEPT !.deploys = @ - 1]
    /\ engines' = [engines EXCEPT ![w] = d]
    /\ pc' = [pc EXCEPT ![w] = "idle"]
    /\ header' = [header EXCEPT ![w] = 0]
    /\ cached' = [cached EXCEPT ![w] = Nothing]
    /\ doc' = [doc EXCEPT ![w] = Nothing]
    /\ UNCHANGED <<blob, cache>>

Next ==
    \/ \E w \in Workers :
        \/ LoadHeader(w) \/ LoadUnits(w)
        \/ ServeWarm(w) \/ RefreshUnits(w) \/ RecoverCold(w) \/ RereadFails(w)
        \/ Save(w) \/ SaveFails(w)
        \/ \E d \in Deployments : Redeploy(w, d)
    \/ \E g \in Gates : Purge(g)

Spec == Init /\ [][Next]_vars

-----------------------------------------------------------------------------
(* Properties.                                                             *)

AsIfRecoveredBy(unit, fresh) ==
    /\ unit.route = fresh.route /\ unit.ok = fresh.ok
    /\ unit.text = fresh.text /\ unit.by = fresh.by

\* A PDF that could not be read a second time is one flat text.
IsFlat(units) == Family(blob) = "pdf" /\ Len(units) = 1 /\ Len(blob.pages) > 1

\* "This module chooses what to SKIP; it never chooses differently": whatever a
\* worker serves, warm, partly refreshed or cold, with other workers storing and
\* purging meanwhile, is unit by unit what a cold recovery with the engines this
\* worker has could have produced: the same route, the same text, from the same
\* converter, lexicon, OCR engine and repair.
CacheIsTransparent ==
    \A w \in Workers :
        (doc[w] # Nothing /\ ~IsFlat(doc[w])) =>
            LET fresh == [out \in Outcomes |-> Cold(engines[w], out)] IN
            \A i \in DOMAIN doc[w] :
                \E out \in Outcomes :
                    /\ Len(fresh[out]) = Len(doc[w])
                    /\ AsIfRecoveredBy(doc[w][i], fresh[out][i])

\* The glyph-mapped original of a line no engine could vouch for is neither
\* served nor in the database: not on a page that was converted, not under a
\* page OCR could not read, whichever worker stored it and however often it was
\* refreshed; and a page without a legacy font is not taken for one.
UntrustedTextIsWithheld ==
    LET Safe(units) ==
            \A i \in DOMAIN units :
                LET unit == units[i] IN
                /\ unit.route = "legacy_conversion" =>
                        /\ \A k \in LineKinds :
                            <<k, "original">> \in unit.text => ~Candidate(k)
                        /\ Family(blob) = "pdf" => blob.pages[i].font # "none"
                /\ unit.route = "ocr" => unit.text \subseteq {<<"plain", "read">>}
    IN /\ \A g \in Gates : cache[g] # Nothing => Safe(cache[g])
       /\ \A w \in Workers : doc[w] # Nothing => Safe(doc[w])
=============================================================================

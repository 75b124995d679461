---------------------------- MODULE TextVerdict ----------------------------
(***************************************************************************)
(* What the NRB pipeline decides about the text of one downloaded file     *)
(* before it touches it: which family of file it is, whether its native    *)
(* text can be trusted, what to do about it when it can not, and which     *)
(* route each page takes (app/nrb/extraction.py, units.py, routing.py,     *)
(* quality.py, provenance.py, recovery.plan_document, route_page).         *)
(*                                                                         *)
(* A measurement is the interval of it the thresholds tell apart; a blob   *)
(* is the record of the facts these decisions read.                        *)
(***************************************************************************)
EXTENDS Naturals, Sequences, FiniteSetsExt

Statuses == {"failed", "unsupported", "needs_ocr", "suspicious", "extracted"}
Plans == {"no_recovery", "keep_native", "route_pages", "convert_units"}
Routes == {"native", "legacy_conversion", "ocr"}

\* Why a file has its verdict, and why a page has its route.
VerdictReasons ==
    {"no_native_parser", "image_file", "parser_error", "empty_spreadsheet",
     "legacy_font_suspected", "clean", "no_text_layer", "sparse_text_layer",
     "defective_text", "partial_text_coverage"}
RouteReasons ==
    VerdictReasons \union
    {"provenance_unavailable", "embedded_font", "legacy_font_referenced",
     "no_font_scan_backed", "empty_page", "no_font_provenance", "page_has_text_layer"}

\* sniff, family_for: what the first bytes of a file say it is.
SniffedFamilies ==
    {"pdf", "document", "spreadsheet", "text", "image", "office_legacy", "archive",
     "web", "unknown"}

\* measure_text, in the terms of classify_v2: nothing but white space; characters
\* that are no text (replacement, control, unprintable).
TextFacts == [blank : BOOLEAN, defect : BOOLEAN]

\* profile_units, _legacy_by_units, minority_legacy_detected: the units that look
\* glyph-mapped are none to speak of (0), a minority or below 80% (1), or 80% of
\* the judged ones and more (2).
LegacyLevels == 0..2

\* measure_pages: the share of pages with text (below 10%, below 60%, the rest)
\* and whether the median of them is shorter than a stamped page number.
Coverages == {"none", "low", "high"}

\* _font_is_embedded, _walk: the best legacy-font evidence on a page.
FontEvidence == {"embedded", "named", "none"}

\* assess_unit, _classify_line: a line of latin codes that carries a legacy font,
\* one too short to judge, and one no converter is offered (Unicode, English).
LineKinds == {"glyph", "short", "plain"}

\* PageProvenance beside the page's own text; a sheet or a flat text is one page.
PageFacts ==
    [font : FontEvidence, image : BOOLEAN, chars : {"none", "few", "many"},
     lines : SUBSET LineKinds]

FileFacts ==
    [extension : STRING, sniffed : SniffedFamilies, size : {"empty", "fine", "over"},
     parses : BOOLEAN, text : TextFacts, legacy : LegacyLevels, coverage : Coverages,
     sparse : BOOLEAN, provenance : BOOLEAN, suspect : BOOLEAN, pages : Seq(PageFacts)]

LegacyOffice == {"xls", "doc", "ppt"}
FamilyOfExtension ==
    [pdf |-> "pdf", docx |-> "document", xlsx |-> "spreadsheet", csv |-> "spreadsheet"]
Unsupported == {"office_legacy", "archive", "web", "unknown"}

\* The first rule of a list that applies: the functions below are cascades of
\* early returns.
FirstOf(rules) ==
    rules[Min({i \in DOMAIN rules : rules[i].when})]

\* extract_file: the extension decides what the sniffer could not, and an old
\* Office file is unsupported whatever it was sniffed as.
Family(blob) ==
    IF blob.extension \in LegacyOffice THEN "office_legacy"
    ELSE IF blob.sniffed = "unknown" /\ blob.extension \in DOMAIN FamilyOfExtension
         THEN FamilyOfExtension[blob.extension]
         ELSE blob.sniffed

\* The size gate, and a parser that ran to its end.
Readable(blob) == blob.size = "fine" /\ blob.parses

\* classify_v2 over the evidence extract_file gathers, in its order.
Verdict(blob) ==
    LET family == Family(blob)
        isPdf == family = "pdf" /\ blob.pages # <<>>
        rule(when, status, reason) ==
            [when |-> when, status |-> status, reason |-> reason]
    IN FirstOf(<<
        rule(family \in Unsupported, "unsupported", "no_native_parser"),
        rule(family = "image", "needs_ocr", "image_file"),
        rule(~Readable(blob), "failed", "parser_error"),
        rule(family = "spreadsheet" /\ blob.text.blank, "suspicious", "empty_spreadsheet"),
        rule(family = "spreadsheet" /\ blob.legacy > 0,
             "suspicious", "legacy_font_suspected"),
        rule(family = "spreadsheet", "extracted", "clean"),
        rule(isPdf /\ blob.coverage = "none", "needs_ocr", "no_text_layer"),
        rule(isPdf /\ blob.sparse, "needs_ocr", "sparse_text_layer"),
        rule(blob.legacy > 0, "suspicious", "legacy_font_suspected"),
        rule(blob.text.defect, "suspicious", "defective_text"),
        rule(isPdf /\ blob.coverage = "low", "suspicious", "partial_text_coverage"),
        rule(blob.text.blank, "needs_ocr", "no_text_layer"),
        rule(TRUE, "extracted", "clean") >>)

\* plan_document: what to do about the verdict, when conversion is open to
\* documents whose legacy ratio reaches the gate.
Plan(blob, gate) ==
    LET family == Family(blob)
        status == Verdict(blob).status
        suspected == Verdict(blob).reason = "legacy_font_suspected"
        rule(when, plan) == [when |-> when, plan |-> plan]
    IN FirstOf(<<
        rule(status \in {"failed", "unsupported"} \/ family = "image", "no_recovery"),
        rule(status = "needs_ocr" /\ family = "pdf", "route_pages"),
        rule(status = "needs_ocr", "no_recovery"),
        rule(suspected /\ blob.legacy < gate, "keep_native"),
        rule(suspected /\ family = "pdf", "route_pages"),
        rule(suspected, "convert_units"),
        rule(TRUE, "keep_native") >>).plan

\* route_page: fonts before pixels in a legacy document, a real text layer
\* before pixels in one that needs OCR, and the native text in every doubt.
Route(blob, page) ==
    LET suspected == Verdict(blob).reason = "legacy_font_suspected"
        rule(when, route, reason) ==
            [when |-> when, route |-> route, reason |-> reason]
    IN FirstOf(<<
        rule(~blob.provenance, "native", "provenance_unavailable"),
        rule(suspected /\ page.font = "embedded", "legacy_conversion", "embedded_font"),
        rule(suspected /\ page.font = "named",
             "legacy_conversion", "legacy_font_referenced"),
        rule(suspected /\ page.image, "ocr", "no_font_scan_backed"),
        rule(suspected /\ page.chars = "none", "native", "empty_page"),
        rule(suspected, "native", "no_font_provenance"),
        rule(page.chars = "many" /\ page.font = "embedded",
             "native", "page_has_text_layer"),
        rule(page.image, "ocr", Verdict(blob).reason),
        rule(page.chars = "many", "native", "page_has_text_layer"),
        rule(TRUE, "native", "empty_page") >>)

\* DocumentPlan.reason: a document below the gate says so.
PlanReason(blob, gate) ==
    IF Plan(blob, gate) = "keep_native" /\ Verdict(blob).reason = "legacy_font_suspected"
    THEN "below_conversion_gate" ELSE Verdict(blob).reason

\* page_routes and recover: the route of every unit of a document that is read
\* afresh.  A PDF has one unit per page, a workbook to convert one per sheet;
\* everything else is one flat text.
UnitRoutes(blob, gate) ==
    LET plan == Plan(blob, gate)
        alike(units, route, reason) ==
            [i \in units |-> [route |-> route, reason |-> reason]]
        reason == PlanReason(blob, gate)
    IN CASE plan = "no_recovery" -> <<>>
         [] plan = "route_pages" ->
                [i \in DOMAIN blob.pages |-> Route(blob, blob.pages[i])]
         [] plan = "convert_units" ->
                alike(DOMAIN blob.pages, "legacy_conversion", reason)
         [] plan = "keep_native" ->
                alike(IF Family(blob) = "pdf" THEN DOMAIN blob.pages ELSE {1},
                      "native", reason)

=============================================================================

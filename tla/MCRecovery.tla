----------------------------- MODULE MCRecovery -----------------------------
(* Instances of Recovery for TLC.                                          *)
EXTENDS Recovery, TLC

CONSTANTS w1, w2

Page(font, image, chars, lines) ==
    [font |-> font, image |-> image, chars |-> chars, lines |-> lines]

\* A file that parses, with full coverage and nothing wrong with its text.
Clean(extension, sniffed, pages) ==
    [extension |-> extension, sniffed |-> sniffed, size |-> "fine", parses |-> TRUE,
     text |-> [blank |-> FALSE, defect |-> FALSE], sparse |-> FALSE, coverage |-> "high",
     legacy |-> 0, provenance |-> TRUE, suspect |-> FALSE, pages |-> pages]

Typeset == Page("embedded", FALSE, "many", {"glyph", "plain"})
Headed == Page("embedded", FALSE, "many", {"glyph", "short"})
Named == Page("named", FALSE, "many", {"glyph", "plain"})
Scan == Page("none", TRUE, "few", {"glyph"})
Prose == Page("none", FALSE, "many", {"plain"})
Empty == Page("none", FALSE, "none", {})

Legacy == [Clean("pdf", "pdf", <<Typeset, Scan>>) EXCEPT !.legacy = 2]
LegacyNamed == [Clean("pdf", "pdf", <<Named>>) EXCEPT !.legacy = 2]
Minority == [Clean("pdf", "pdf", <<Typeset, Prose>>) EXCEPT !.legacy = 1, !.suspect = TRUE]
Scanned == [Clean("pdf", "pdf", <<Scan, Prose>>) EXCEPT !.coverage = "none"]
Sparse == [Clean("pdf", "pdf", <<Typeset>>) EXCEPT !.sparse = TRUE]
Unwalkable == [Clean("pdf", "pdf", <<Typeset>>) EXCEPT !.legacy = 2, !.provenance = FALSE]
MisMapped == [Clean("pdf", "unknown", <<Prose, Typeset>>) EXCEPT !.suspect = TRUE]
Workbook == [Clean("xlsx", "spreadsheet", <<Typeset, Typeset>>) EXCEPT !.legacy = 2]
EmptyBook == [Clean("xlsx", "spreadsheet", <<Empty>>) EXCEPT !.text.blank = TRUE]
Letter == [Clean("docx", "document", <<Headed>>) EXCEPT !.legacy = 2]
BlankText == [Clean("txt", "text", <<Empty>>) EXCEPT !.text.blank = TRUE]
OldOffice == Clean("xls", "spreadsheet", <<Prose>>)
Picture == Clean("jpg", "image", <<Scan>>)
Broken == [Clean("pdf", "pdf", <<Prose>>) EXCEPT !.parses = FALSE]
Oversized == [Legacy EXCEPT !.size = "over", !.parses = FALSE]
Partial == [Clean("pdf", "pdf", <<Prose, Empty>>) EXCEPT !.coverage = "low"]
Garbled == [Clean("pdf", "pdf", <<Prose>>) EXCEPT !.text.defect = TRUE]

EveryBlob ==
    {Legacy, LegacyNamed, Minority, Scanned, Sparse, Unwalkable, MisMapped, Workbook,
     EmptyBook, Letter, BlankText, OldOffice, Picture, Broken, Oversized, Partial,
     Garbled}

With(converter, lexicon, ocr, repair, gate) ==
    [converter |-> converter, lexicon |-> lexicon, ocr |-> ocr, repair |-> repair,
     gate |-> gate]

\* The engines of today, a new lexicon with the repair on, no engines at all,
\* and a release that lowers the gate.
EveryDeployment ==
    {With(1, 1, 1, 0, 2), With(1, 2, 1, 1, 2), With(0, 0, 0, 0, 2), With(1, 1, 1, 0, 1)}

\* One legacy PDF, converted with and without the converter.
OneLegacyPdf == {Legacy}
WithAndWithout == {With(1, 1, 1, 0, 2), With(0, 1, 1, 0, 2)}
WorkerSymmetry == Permutations(Workers)
=============================================================================

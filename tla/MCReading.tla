----------------------------- MODULE MCReading -----------------------------
(* Instances of Reading for TLC.                                           *)
EXTENDS Reading, TLC

CONSTANTS d1, d2

Setting(max, overlap, min) == [maxChars |-> max, overlap |-> overlap, minBody |-> min]
MCSettings == {Setting(8, 2, 3), Setting(12, 1, 4)}

Heading(level, title) == [kind |-> "heading", level |-> level, title |-> title]
Body(page, text) == [kind |-> "text", page |-> page, text |-> text]
Table(page, text) == [kind |-> "table", page |-> page, text |-> text]
Layout(items) == [kind |-> "layout", items |-> items]
Text(text) == [kind |-> "text", text |-> text]

\* A contents page, a term and its short definition that the parser split, a page
\* number, a table under a subheading.
Policy == Layout(<<
  Heading(1, "Contents"), Body("p1", <<"z">>),
  Heading(1, "Terms"), Body("p1", <<"a", "b">>), Body("p1", <<"c", "d">>), Body("p2", <<"1">>),
  Heading(2, "Limits"), Table("p2", <<"e", "|", "f">>), Body("p2", <<"g">>)>>)

\* Passages that fill up, the last of them too short to stand alone.
Circular == Layout(<<
  Heading(1, "Scope"), Body("p1", <<"a", "b", "c", "d">>), Body("p1", <<"e", "f", "g">>),
  Body("p1", <<"h">>), Body("p1", <<"i", "j", " ", "k">>)>>)

Rates == [kind |-> "sheet", sheet |-> "Rates", header |-> <<"H", "|">>,
          rows |-> << <<"a", "b">>, <<"c", "d", "e">>, <<"f", "g", "h", "i", "j", "k", "l">> >>]

Scan == [kind |-> "nrb", pages |-> <<
  [page |-> "p1", route |-> "native", garbled |-> TRUE, text |-> <<"a", "b", ".", " ", "c", "d">>],
  [page |-> "p2", route |-> "ocr", garbled |-> FALSE, text |-> <<"e", "f">>],
  [page |-> "p3", route |-> "legacy_conversion", garbled |-> FALSE, text |-> <<"g", " ", "h", "\n", "i", "j", "k", "l", "m", "n">>]>>]

Memo == Text(<<"a", "b", "c", " ", "d", "\n", "e">>)

Pairs(first, others) == {d1 :> first @@ d2 :> other : other \in others}
MCCorpora == Pairs(Scan, {Policy}) \cup Pairs(Circular, {Rates, Memo})

\* A word ends in the second half of the first window, before the place where the
\* next window starts.
Straddling == Text(<<"a", "b", "c", "d", "e", "f", "g", " ", "h", "i", "j", "k", "l", "m", "n">>)
MCStraddling == Pairs(Memo, {Straddling})
=============================================================================

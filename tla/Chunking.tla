----------------------------- MODULE Chunking -----------------------------
(***************************************************************************)
(* From a parsed file to the chunks that are indexed (app/rag/parsing.py,  *)
(* app/rag/chunking.py, chunks_from_recovery of app/nrb/rag.py), and back  *)
(* from the chunks to the lines a reader is shown (app/rag/reassemble.py,  *)
(* app/tools/local/_paging.py).                                            *)
(*                                                                         *)
(* A text is a sequence of characters.  A heading path is a sequence of    *)
(* headings, <<>> for none; the code writes it in front of a chunk's       *)
(* content and takes it off again when it reassembles, so here a chunk has *)
(* its section and its text apart.  A page is a string, "" for none.       *)
(***************************************************************************)
EXTENDS Integers, FiniteSetsExt, SequencesExt

CONSTANT SkippedSections   \* config.rag_skipped_sections: front matter

Blank == {" ", "\n"}

\* str.strip
Strip(text) ==
  LET inked == {i \in DOMAIN text : text[i] \notin Blank}
  IN  IF inked = {} THEN <<>> ELSE SubSeq(text, Min(inked), Max(inked))

Joined(a, b) == a \o <<"\n">> \o b

-----------------------------------------------------------------------------
\* Paragraph, then sentence, then line, then word.
Separators == << <<"\n", "\n">>, <<".", " ">>, <<"\n">>, <<" ">> >>

\* Where to cut a text that is longer than the limit: behind the last separator
\* of the best kind that has one in the second half of the window.
SplitPoint(text, limit) ==
  LET ends(sep) == {i + Len(sep) : i \in {i \in (limit \div 2) + 1 .. limit - Len(sep) :
                                            SubSeq(text, i + 1, i + Len(sep)) = sep}}
      usable == {k \in DOMAIN Separators : ends(Separators[k]) # {}}
  IN  IF usable = {} THEN limit ELSE Max(ends(Separators[Min(usable)]))

\* The pieces of a prose text, in order; setting: maxChars, overlap, minBody.
ChunkText(text, setting) ==
  LET body == Strip(text)
      max == setting.maxChars
      overlap == Max({0, Min({setting.overlap, max \div 2})})
      stepFloor == Max({1, max - overlap})
      pieces[pos \in 0 .. Len(body)] ==
        LET rest == SubSeq(body, pos + 1, Len(body))
            cut == SplitPoint(rest, max)
        IN  IF Len(rest) <= max THEN <<rest>>
            ELSE <<SubSeq(rest, 1, cut)>> \o pieces[pos + Max({cut - overlap, stepFloor})]
  IN  SelectSeq([i \in DOMAIN pieces[0] |-> Strip(pieces[0][i])], LAMBDA p : p # <<>>)

\* Rows grouped under a repeated header, each row whole.
ChunkTable(header, rows, max) ==
  LET opened(row) == Joined(header, row)
      add(chunks, row) ==
        IF chunks # <<>> /\ Len(Last(chunks)) + 1 + Len(row) + 1 <= max
        THEN Front(chunks) \o <<Joined(Last(chunks), row)>>
        ELSE Append(chunks, opened(row))
  IN  FoldLeft(add, <<>>, rows)

-----------------------------------------------------------------------------
\* Items of a layout, in reading order, to blocks: headings become the section of
\* what follows, front matter is left out.
Collect(items) ==
  LET under(path, level) == SelectSeq(path, LAMBDA h : h.level < level)
      section(path) == [i \in DOMAIN path |-> path[i].title]
      skipped(path) == path # <<>> /\ Head(path).title \in SkippedSections
      step(acc, item) ==
        IF item.kind = "heading"
        THEN [acc EXCEPT !.path = Append(under(@, item.level), [level |-> item.level, title |-> item.title])]
        ELSE IF skipped(acc.path) \/ Strip(item.text) = <<>> THEN acc
        ELSE [acc EXCEPT !.blocks = Append(@, [text |-> Strip(item.text), page |-> item.page,
                                               section |-> section(acc.path), table |-> item.kind = "table"])]
  IN  FoldLeft(step, [path |-> <<>>, blocks |-> <<>>], items).blocks

\* Consecutive blocks of one passage, joined; a table stands alone.
MergeBlocks(blocks, max) ==
  LET apart(a, b) == \/ a.table \/ b.table
                     \/ a.section # b.section \/ a.page # b.page
                     \/ Len(a.text) + 1 + Len(b.text) + 1 > max
      add(merged, b) ==
        IF merged = <<>> \/ apart(Last(merged), b) THEN Append(merged, b)
        ELSE Front(merged) \o <<[Last(merged) EXCEPT !.text = Joined(@, b.text)]>>
  IN  FoldLeft(add, <<>>, blocks)

DropSmallBlocks(blocks, min) ==
  SelectSeq(blocks, LAMBDA b : b.table \/ Len(Strip(b.text)) >= min)

\* authoritative: not marked as text to verify.
Chunk(text, section, page, route, authoritative) ==
  [text |-> text, section |-> section, page |-> page, route |-> route, authoritative |-> authoritative]

ChunksOfBlock(b, setting) ==
  LET pieces == ChunkText(b.text, setting)
  IN  [i \in DOMAIN pieces |-> Chunk(pieces[i], b.section, b.page, "native", TRUE)]

\* Mutant: the small blocks are dropped before the passages are joined.
ParseLayoutFilteredFirst(file, setting) ==
  LET blocks == MergeBlocks(DropSmallBlocks(Collect(file.items), setting.minBody), setting.maxChars)
  IN  FlattenSeq([i \in DOMAIN blocks |-> ChunksOfBlock(blocks[i], setting)])

ParseLayout(file, setting) ==
  LET blocks == DropSmallBlocks(MergeBlocks(Collect(file.items), setting.maxChars), setting.minBody)
  IN  FlattenSeq([i \in DOMAIN blocks |-> ChunksOfBlock(blocks[i], setting)])

ParseText(file, setting) ==
  LET pieces == ChunkText(file.text, setting)
  IN  [i \in DOMAIN pieces |-> Chunk(pieces[i], <<>>, "", "native", TRUE)]

ParseSheet(file, setting) ==
  LET tables == ChunkTable(file.header, file.rows, setting.maxChars)
  IN  [i \in DOMAIN tables |-> Chunk(tables[i], <<file.sheet>>, "", "native", TRUE)]

\* _chunk_meta: what OCR read is not authoritative, nor is a text layer that was
\* found garbled, repaired or not.
Authoritative(p) == ~(p.route = "ocr" \/ (p.route = "native" /\ p.garbled))

\* An NRB blob: each page through the chunker by itself, with the route it was
\* recovered by.
ParseRecovered(file, setting) ==
  LET ofPage(p) == LET pieces == ChunkText(p.text, setting)
                   IN  [i \in DOMAIN pieces |-> Chunk(pieces[i], <<>>, p.page, p.route, Authoritative(p))]
  IN  FlattenSeq([i \in DOMAIN file.pages |-> ofPage(file.pages[i])])

\* The chunks of a file, in the order of chunk_index; <<>> is a ParseError.
ParseToChunks(file, setting) ==
  CASE file.kind = "layout" -> ParseLayout(file, setting)
    [] file.kind = "text" -> ParseText(file, setting)
    [] file.kind = "sheet" -> ParseSheet(file, setting)

\* The worker: a blob of the bank goes through its recovery, every other file
\* through the parser of its type.
LoadChunks(file, setting) ==
  IF file.kind = "nrb" THEN ParseRecovered(file, setting) ELSE ParseToChunks(file, setting)

-----------------------------------------------------------------------------
SplitLines(text) ==
  LET add(lines, c) == IF c = "\n" THEN Append(lines, <<>>)
                       ELSE Front(lines) \o <<Append(Last(lines), c)>>
  IN  FoldLeft(add, << <<>> >>, text)

\* How many characters at the start of a text repeat the end of the one before.
Repeated(previous, text, overlap) ==
  LET reach == Min({overlap, Len(previous), Len(text)})
      sizes == {n \in 1 .. reach :
                  SubSeq(text, 1, n) = SubSeq(previous, Len(previous) - n + 1, Len(previous))}
  IN  IF sizes = {} THEN 0 ELSE Max(sizes)

\* The lines of a document, from its chunks in order: a marker where the page
\* changes, a heading where the section changes, the overlap taken out.
ToLines(chunks, overlap) ==
  LET step(acc, chunk) ==
        LET turned == chunk.page # "" /\ chunk.page # acc.page
            headed == chunk.section # <<>> /\ chunk.section # acc.section
            tail == IF turned THEN <<>> ELSE acc.tail
            n == Repeated(tail, chunk.text, overlap)
            body == SubSeq(chunk.text, n + 1, Len(chunk.text))
            lines == acc.lines \o (IF turned THEN << <<chunk.page>> >> ELSE <<>>)
                               \o (IF headed THEN <<chunk.section, <<>>>> ELSE <<>>)
            parts == SplitLines(body)
            rest == IF Tail(parts) = << <<>> >> THEN <<>> ELSE Tail(parts)
            gap == IF \/ parts[1] # <<>> /\ Head(parts[1]) = " "
                      \/ Last(lines) # <<>> /\ Last(Last(lines)) = " "
                   THEN <<>> ELSE <<" ">>
        IN  [page |-> IF turned THEN chunk.page ELSE acc.page,
             section |-> IF headed THEN chunk.section ELSE acc.section,
             tail |-> IF body = <<>> THEN tail ELSE body,
             lines |-> IF body = <<>> THEN lines
                       ELSE IF n > 0 /\ lines # <<>>
                            THEN Front(lines) \o <<Last(lines) \o gap \o parts[1]>> \o rest
                            ELSE lines \o parts]
  IN  FoldLeft(step, [page |-> "", section |-> <<>>, tail |-> <<>>, lines |-> <<>>], chunks).lines

\* Mutant: a line that crosses the budget is dropped and yet counted.
WindowCountingDropped(lines, startLine, lineCap, charBudget) ==
  LET start == Max({1, startLine})
      selected == SubSeq(lines, start, Min({Len(lines), start + lineCap - 1}))
      cost(k) == FoldLeft(LAMBDA sum, line : sum + Len(line) + 1, 0, SubSeq(selected, 1, k))
      n == Max({k \in 0 .. Len(selected) : cost(k) <= charBudget})
      last == start - 1 + Len(selected)
  IN  [shown |-> SubSeq(selected, 1, n), last |-> last, truncated |-> last < Len(lines), hardCut |-> FALSE]

\* One window of whole lines.  Only the first line may be longer than the budget,
\* and it is then cut and shown alone.
Window(lines, startLine, lineCap, charBudget) ==
  LET start == Max({1, startLine})
      selected == SubSeq(lines, start, Min({Len(lines), start + lineCap - 1}))
      cost(k) == FoldLeft(LAMBDA sum, line : sum + Len(line) + 1, 0, SubSeq(selected, 1, k))
      hardCut == selected # <<>> /\ cost(1) > charBudget
      n == IF hardCut THEN 1 ELSE Max({k \in 0 .. Len(selected) : cost(k) <= charBudget})
      last == start - 1 + n
  IN  [shown |-> IF hardCut THEN <<SubSeq(selected[1], 1, charBudget)>> ELSE SubSeq(selected, 1, n),
       last |-> last,
       truncated |-> last < Len(lines),
       hardCut |-> hardCut]
=============================================================================

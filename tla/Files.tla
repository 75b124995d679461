------------------------------- MODULE Files -------------------------------
(***************************************************************************)
(* The files of a conversation: uploads and deletions over HTTP            *)
(* (app/files/router.py) beside the tools of a chat turn, which resolve a  *)
(* file id, read the file, and save what they make of it as a new file     *)
(* (app/files/store.py, sink.py, source.py; app/tools/local/*_excel.py,    *)
(* read_document.py, read_image.py).  The row in generated_files and the   *)
(* file on disk are written and dropped one after the other; every await   *)
(* between is the end of a step.                                           *)
(***************************************************************************)
EXTENDS Workbook

CONSTANTS
  Users,
  Uploads,       \* what is uploaded: books, documents and images
  Edits,         \* the edits the model asks for
  Queries,       \* the aggregations it asks for
  LineCap,       \* READ_DOC_MAX_LINES, READ_IMAGE_MAX_LINES
  CharBudget,    \* DOC_MAX_CHARS, IMAGE_MAX_CHARS
  MaxFiles,      \* bound on the files of a behaviour
  MaxTools,      \* bound on the tool calls of a behaviour
  MaxCrashes     \* bound on crashes of the API

Ids == 1 .. MaxFiles
Paging == INSTANCE Chunking WITH SkippedSections <- {}

NoFile == [kind |-> "no file"]
NoRow == "no row"
Idle == [at |-> "idle"]
Nothing == [kind |-> "nothing"]

VARIABLES
  disk,      \* the file of each id
  rows,      \* generated_files: the owner of each id
  written,   \* history: what was first written under an id
  used,      \* ids drawn so far
  upload,    \* the upload under way
  removal,   \* the deletion under way
  turn,      \* the chat turn: the tool call it is at, and the last answer
  reading,   \* the file that was shown up to a row or line, and what was shown
  calls,     \* tool calls so far
  crashes

vars == <<disk, rows, written, used, upload, removal, turn, reading, calls, crashes>>

Init ==
  /\ disk = [id \in Ids |-> NoFile]
  /\ rows = [id \in Ids |-> NoRow]
  /\ written = [id \in Ids |-> NoFile]
  /\ used = 0
  /\ upload = Idle
  /\ removal = Idle
  /\ turn = [at |-> "idle", answer |-> Nothing]
  /\ reading = Idle
  /\ calls = 0
  /\ crashes = 0

Write(id, content) ==
  /\ disk' = [disk EXCEPT ![id] = content]
  /\ written' = [written EXCEPT ![id] = content]

\* record_file
Record(id, user) == rows' = [rows EXCEPT ![id] = user]

\* get_owned_file: the row, and only to its owner.
Owned(id, user) == rows[id] = user

\* GET /v1/files and GET /v1/files/{id}
ListFiles(user) == {id \in Ids : Owned(id, user)}
GetFile(user, id) ==
  IF ~Owned(id, user) THEN [kind |-> "404"]
  ELSE IF disk[id] = NoFile THEN [kind |-> "410"] ELSE disk[id]

-----------------------------------------------------------------------------
(* POST /v1/files *)

\* The bytes are on disk under a new id.  An extension that is not accepted is
\* refused before, a file that is too large or empty is unlinked again.
ReceiveUpload(user, content) ==
  /\ upload = Idle /\ used < MaxFiles
  /\ used' = used + 1
  /\ Write(used + 1, content)
  /\ upload' = [at |-> "check", id |-> used + 1, user |-> user]
  /\ UNCHANGED <<rows, removal, turn, reading, calls, crashes>>

\* ingest.summarize parses it.
Summarized(content) == content.kind \in {"book", "document", "image"}

AcceptUpload ==
  /\ upload.at = "check" /\ Summarized(disk[upload.id])
  /\ upload' = [upload EXCEPT !.at = "record"]
  /\ UNCHANGED <<disk, rows, written, used, removal, turn, reading, calls, crashes>>

\* _reject unlinks the file, as well as it can.
RefuseUpload ==
  /\ upload.at = "check" /\ ~Summarized(disk[upload.id])
  /\ disk' = [disk EXCEPT ![upload.id] = NoFile] \/ UNCHANGED disk
  /\ upload' = Idle
  /\ UNCHANGED <<rows, written, used, removal, turn, reading, calls, crashes>>

\* record_file and the commit.
RecordUpload ==
  /\ upload.at = "record"
  /\ Record(upload.id, upload.user)
  /\ upload' = Idle
  /\ UNCHANGED <<disk, written, used, removal, turn, reading, calls, crashes>>

\* The disk, the database or the client fails: the request ends, the file stays.
AbandonUpload ==
  /\ upload # Idle
  /\ upload' = Idle
  /\ UNCHANGED <<disk, rows, written, used, removal, turn, reading, calls, crashes>>

-----------------------------------------------------------------------------
(* DELETE /v1/files/{id} *)

\* The file is unlinked before the row is dropped.
DropRowAfterTheFile(user, id) ==
  /\ removal = Idle /\ Owned(id, user)
  /\ disk' = [disk EXCEPT ![id] = NoFile]
  /\ removal' = [at |-> "unlink", id |-> id]
  /\ UNCHANGED <<rows, written, used, upload, turn, reading, calls, crashes>>

\* The row is dropped and committed.
DropRow(user, id) ==
  /\ removal = Idle /\ Owned(id, user)
  /\ rows' = [rows EXCEPT ![id] = NoRow]
  /\ removal' = [at |-> "unlink", id |-> id]
  /\ UNCHANGED <<disk, written, used, upload, turn, reading, calls, crashes>>

\* The file is unlinked; another failure than its absence leaves it.
Unlink ==
  /\ removal.at = "unlink"
  /\ disk' = [disk EXCEPT ![removal.id] = NoFile] \/ UNCHANGED disk
  /\ removal' = Idle
  /\ UNCHANGED <<rows, written, used, upload, turn, reading, calls, crashes>>

-----------------------------------------------------------------------------
(* The tools of a turn.  A call resolves its file in one session and opens  *)
(* it afterwards.                                                           *)

Answer(answer) == turn' = [at |-> "idle", answer |-> answer]
Failure == [kind |-> "error"]
ToolNames == {"inspect_excel", "read_excel", "aggregate_excel", "edit_excel", "read_document", "read_image"}

\* resolve_file: another user's file is as unknown as none.
Resolve(user, id, call) ==
  /\ turn.at = "idle" /\ calls < MaxTools
  /\ calls' = calls + 1
  /\ IF Owned(id, user)
     THEN turn' = [at |-> call.tool, user |-> user, id |-> id, call |-> call, answer |-> Nothing]
     ELSE Answer(Failure)
  /\ UNCHANGED <<disk, rows, written, used, upload, removal, reading, crashes>>

\* What each tool opens.
Opens(tool) == CASE tool = "read_document" -> "document" [] tool = "read_image" -> "image" [] OTHER -> "book"

At(tool) == turn.at = tool /\ disk[turn.id].kind = Opens(tool)

\* The file a call opens is gone, or of another kind; a scan has no text.
OpenFails ==
  /\ turn.at \in ToolNames
  /\ \/ ~At(turn.at)
     \/ At("read_document") /\ disk[turn.id].scan
     \/ At("read_image") /\ disk[turn.id].boxes = {}
  /\ Answer(Failure)
  /\ UNCHANGED <<disk, rows, written, used, upload, removal, reading, calls, crashes>>

\* A page was shown, with the lines its header called cut; what comes next was named
\* with it, or nothing does.
Show(shown, short, truncated, next) ==
  LET seen == turn.call.seen \o shown
      cut == turn.call.cut \cup short
  IN
  IF truncated
  THEN /\ reading' = [turn EXCEPT !.call.start = next, !.call.seen = seen, !.call.cut = cut]
       /\ Answer(Nothing)
  ELSE /\ reading' = Idle
       /\ Answer([kind |-> "read", id |-> turn.id, seen |-> seen, cut |-> cut])

\* The loop cut the result off and said so; the note that named the next row, being
\* the last of it, is lost.
ShowCut(shown) ==
  /\ reading' = Idle
  /\ Answer([kind |-> "cut off", id |-> turn.id, seen |-> turn.call.seen \o shown])

InspectSheet ==
  /\ At("inspect_excel")
  /\ Answer([kind |-> "inspected", id |-> turn.id, result |-> Inspected(disk[turn.id])])
  /\ UNCHANGED <<disk, rows, written, used, upload, removal, reading, calls, crashes>>

ReadSheet ==
  LET start == turn.call.start
      page == LoadTable(disk[turn.id].sheet, <<>>, start, turn.call.maxRows)
      result == ForModel(page)
  IN
  /\ At("read_excel")
  /\ IF result.cut THEN ShowCut(result.rows)
     ELSE Show(page.rows, {}, page.truncated, NextRow(start, page))
  /\ UNCHANGED <<disk, rows, written, used, upload, removal, calls, crashes>>

\* The words of a picture by their rows, each row from left to right.
GroupLines(boxes) ==
  LET ordered == SetToSortSeq(boxes, LAMBDA a, b : a.centre < b.centre \/ (a.centre = b.centre /\ a.left < b.left))
      place(state, box) ==
        IF state.rows # <<>> /\ box.centre <= state.bottom
        THEN [rows |-> Append(Front(state.rows), Append(Last(state.rows), box)),
              bottom |-> Max({state.bottom, box.bottom})]
        ELSE [rows |-> Append(state.rows, <<box>>), bottom |-> box.bottom]
      placed == FoldLeft(place, [rows |-> <<>>, bottom |-> 0], ordered).rows
      line(row) == LET words == SetToSortSeq(Range(row), LAMBDA a, b : a.left < b.left)
                   IN  [i \in DOMAIN words |-> words[i].text]
  IN  [i \in DOMAIN placed |-> line(placed[i])]

\* read_lines of a document; ocr_image's lines of an image.
LinesOf(content) == IF content.kind = "image" THEN GroupLines(content.boxes) ELSE content.lines

ShowLines(lines) ==
  LET page == Paging!Window(lines, turn.call.start, LineCap, CharBudget)
  IN  Show(page.shown, IF page.hardCut THEN {page.last} ELSE {}, page.truncated, page.last + 1)

ReadDocument ==
  /\ At("read_document") /\ ~disk[turn.id].scan
  /\ ShowLines(LinesOf(disk[turn.id]))
  /\ UNCHANGED <<disk, rows, written, used, upload, removal, calls, crashes>>

ReadImage ==
  /\ At("read_image") /\ disk[turn.id].boxes # {}
  /\ ShowLines(LinesOf(disk[turn.id]))
  /\ UNCHANGED <<disk, rows, written, used, upload, removal, calls, crashes>>

\* The model asks for the next page, after whatever else it has done.
NextPage ==
  /\ turn.at = "idle" /\ reading # Idle
  /\ IF Owned(reading.id, reading.user) THEN turn' = reading ELSE Answer(Failure)
  /\ reading' = Idle
  /\ UNCHANGED <<disk, rows, written, used, upload, removal, calls, crashes>>

\* OCR is not installed, or its engine fails.
OcrUnavailable ==
  /\ At("read_image")
  /\ Answer(Failure)
  /\ UNCHANGED <<disk, rows, written, used, upload, removal, reading, calls, crashes>>

AggregateSheet ==
  LET sheet == disk[turn.id].sheet IN
  /\ At("aggregate_excel")
  /\ Answer(IF UnknownColumn(sheet, turn.call.query) THEN Failure
            ELSE [kind |-> "total", id |-> turn.id, query |-> turn.call.query,
                  result |-> Aggregate(sheet, turn.call.query)])
  /\ UNCHANGED <<disk, rows, written, used, upload, removal, reading, calls, crashes>>

\* _apply, in a thread: the edit is made in memory, or refused.
EditSheet ==
  LET book == disk[turn.id] IN
  /\ At("edit_excel")
  /\ IF Refused(book, turn.call.edit) THEN Answer(Failure)
     ELSE turn' = [turn EXCEPT !.at = "save"] @@ [data |-> Edited(book, turn.call.edit)]
  /\ UNCHANGED <<disk, rows, written, used, upload, removal, reading, calls, crashes>>

\* PostgresFileSink.save writes a file under a new id ...
SaveFile ==
  /\ turn.at = "save" /\ used < MaxFiles
  /\ used' = used + 1
  /\ Write(used + 1, turn.data)
  /\ turn' = [turn EXCEPT !.at = "record"] @@ [new |-> used + 1]
  /\ UNCHANGED <<rows, upload, removal, reading, calls, crashes>>

\* ... and commits its row in a transaction of its own.
RecordFile ==
  /\ turn.at = "record"
  /\ \/ /\ Record(turn.new, turn.user)
        /\ Answer([kind |-> "edited", from |-> turn.id, edit |-> turn.call.edit, to |-> turn.new])
     \/ /\ UNCHANGED rows
        /\ Answer(Failure)
  /\ UNCHANGED <<disk, written, used, upload, removal, reading, calls, crashes>>

-----------------------------------------------------------------------------
\* The API dies: rows and files stay, whatever was under way is gone.
Crash ==
  /\ crashes < MaxCrashes
  /\ upload # Idle \/ removal # Idle \/ turn.at # "idle"
  /\ crashes' = crashes + 1
  /\ upload' = Idle /\ removal' = Idle /\ reading' = Idle
  /\ Answer(Nothing)
  /\ UNCHANGED <<disk, rows, written, used, calls>>

ReadCall(tool, maxRows) == [tool |-> tool, start |-> 1, maxRows |-> maxRows, seen |-> <<>>, cut |-> {}]
Calls ==
  {[tool |-> "inspect_excel"]} \cup
  {ReadCall("read_excel", n) : n \in {1, 2, ReadMaxRows}}
  \cup {ReadCall("read_document", ReadMaxRows), ReadCall("read_image", ReadMaxRows)}
  \cup {[tool |-> "aggregate_excel", query |-> q] : q \in Queries}
  \cup {[tool |-> "edit_excel", edit |-> e] : e \in Edits}

Http ==
  \/ \E user \in Users, content \in Uploads : ReceiveUpload(user, content)
  \/ AcceptUpload \/ RefuseUpload \/ RecordUpload \/ AbandonUpload
  \/ \E user \in Users, id \in Ids : DropRow(user, id)
  \/ Unlink

Tools ==
  \/ \E user \in Users, id \in Ids, call \in Calls : Resolve(user, id, call)
  \/ OpenFails \/ InspectSheet \/ ReadSheet \/ ReadDocument \/ ReadImage \/ NextPage \/ OcrUnavailable \/ AggregateSheet
  \/ EditSheet \/ SaveFile \/ RecordFile

Next == Http \/ Tools \/ Crash

Spec == Init /\ [][Next]_vars

-----------------------------------------------------------------------------
(* Properties *)

\* A file that is listed can be downloaded, and is what was first written under its
\* id: a file comes before its row, a row goes before its file, and nothing rewrites
\* a file (files/router.py, "DB is the source of truth; drop the row first").
RowsHaveFiles ==
  \A user \in Users : \A id \in ListFiles(user) : GetFile(user, id) = written[id]

\* A file read to the end, page by page, was shown whole and in order, whatever was
\* edited and deleted between two pages, but for the lines of which a header said that
\* they are longer than a page and not to be had by paging: those were shown from
\* their beginning (read_document.py:53).  A result of read_excel that the loop cut off
\* ends the reading, the note with the next row being cut off too (_paging.py:6,
\* loop.py:169): it was announced as incomplete, and what was shown is the beginning
\* of the sheet.  And inspect_excel promised what there was: its sample is how reading
\* begins, and its total no less than reading shows, where the sheet declares its size.
ReadingIsWhole ==
  LET a == turn.answer
      content == written[a.id]
      whole == IF content.kind = "book" THEN DataOf(SheetGrid(content.sheet)) ELSE LinesOf(content)
  IN
  CASE a.kind = "read" ->
         /\ Len(a.seen) = Len(whole)
         /\ \A i \in DOMAIN whole : a.seen[i] = whole[i] \/ (i \in a.cut /\ IsPrefix(a.seen[i], whole[i]))
    [] a.kind = "cut off" -> IsPrefix(a.seen, whole)
    [] a.kind = "inspected" ->
         /\ IsPrefix(a.result.sample, whole)
         /\ content.sized => a.result.total >= Len(whole)
    [] OTHER -> TRUE

\* The cells that hold something, by their places.  Where a sheet has formulas, what
\* they show depends on who saved it last, and the formulas themselves count.
Ink(sheet) ==
  {<<i, j, IF HasFormula(sheet) /\ sheet[i][j] \in Formulas THEN Formula ELSE Cell(sheet[i][j])>> :
     <<i, j>> \in {p \in (DOMAIN sheet) \X (1 .. Width(sheet)) : sheet[p[1]][p[2]] # Blank}}

ShownRows(sheet) == IF HasFormula(sheet) THEN LastPopulatedRow(sheet) ELSE Len(SheetGrid(sheet))

\* The same after an edit, in the rows and columns that read_excel displayed.
InkAfter(sheet, edit) ==
  LET old == Ink(sheet)
      inked(cells) == {c \in cells : c[3] # Blank}
      columns == {j \in DOMAIN sheet[1] : sheet[1][j] \in edit.columns}
                   \cup {LetterOf[name] : name \in {n \in edit.columns : Named(sheet[1], n) = {}}}
      above(c) == Cardinality({n \in edit.targets : n + 1 < c[1]})
      before(c) == Cardinality({j \in columns : j < c[2]})
  IN
  CASE edit.op = "set_cells" ->
         LET places == {<<e.row, e.col>> : e \in Range(edit.cells)}
         IN  {c \in old : <<c[1], c[2]>> \notin places}
               \cup inked({<<e.row, e.col, e.value>> : e \in Range(edit.cells)})
    [] edit.op = "append_rows" ->
         old \cup inked({<<ShownRows(sheet) + k, j, edit.rows[k][j]>> :
                           <<k, j>> \in {p \in (DOMAIN edit.rows) \X (1 .. 9) : p[2] \in DOMAIN edit.rows[p[1]]}})
    [] edit.op = "add_column" ->
         LET col == IF IsBlankSheet(sheet) THEN 1 ELSE Width(sheet) + 1
         IN  old \cup inked({<<1, col, edit.header>>}
                              \cup {<<k + 1, col, edit.values[k]>> : k \in DOMAIN edit.values})
    [] edit.op = "delete_rows" ->
         {<<c[1] - above(c), c[2], c[3]>> : c \in {c \in old : c[1] - 1 \notin edit.targets}}
    [] edit.op = "delete_columns" ->
         {<<c[1], c[2] - before(c), c[3]>> : c \in {c \in old : c[2] \notin columns}}

Unambiguous(sheet, names) == \A name \in names : Cardinality(Named(sheet[1], name)) < 2

\* An edited copy differs from what it was made from by what the edit names, in the
\* rows and columns that read_excel displays, and by nothing else; its formulas are
\* still formulas.  A column name that two columns bear names either.  Where a sheet has
\* formulas its rows are those the editor counts, a formula without a cached value
\* being one, and not those read_excel displays (editor.py:249).
EditsDoWhatTheySay ==
  LET a == turn.answer IN
  a.kind = "edited" =>
    LET sheet == written[a.from].sheet
    IN  (a.edit.op = "delete_columns" => Unambiguous(sheet, a.edit.columns))
          => Ink(written[a.to].sheet) = InkAfter(sheet, a.edit)

\* A total is that of the rows that reading to the end shows: every one that is not
\* blank was scanned, is in one group if it matches, and counts there; or the answer
\* says that it is partial (aggregate_excel.py, "a silently-partial number is the
\* failure this tool removes").
TotalsAreComplete ==
  LET a == turn.answer IN
  a.kind = "total" /\ ~a.result.partial =>
    LET grid == SheetGrid(written[a.id].sheet)
        headers == HeadersOf(grid)
        filled == SelectSeq(DataOf(grid), LAMBDA row : ~IsBlankRow(row))
        kept == SelectSeq(filled, LAMBDA row :
                  a.query.filter.column = "none"
                    \/ Matches(row[ColumnOf(headers, a.query.filter.column)], a.query.filter))
        numbers == Numbers([i \in DOMAIN kept |-> kept[i][ColumnOf(headers, a.query.metric.column)]])
        groups == a.result.groups
        values == UNION {groups[i].value : i \in DOMAIN groups}
    IN  /\ a.result.scanned = Len(filled)
        /\ a.result.matched = Len(kept)
        /\ a.query.metric.op # "count" => a.result.parsed = Len(numbers)
        /\ Len(groups) = a.result.totalGroups =>
             /\ Sum([i \in DOMAIN groups |-> groups[i].rows]) = Len(kept)
             /\ a.query.metric.op = "sum" =>
                  Sum([i \in DOMAIN groups |-> Max({0} \cup groups[i].value)]) = Sum(numbers)
             /\ a.query.metric.op = "max" => Max({0} \cup values) = Max({0} \cup Range(numbers))
=============================================================================

------------------------------ MODULE Workbook ------------------------------
(***************************************************************************)
(* What the spreadsheet tools do to a sheet: read_excel and aggregate_excel *)
(* (app/files/readers.py, app/files/aggregate.py) look at it, edit_excel   *)
(* (app/files/editor.py) makes a changed copy.                             *)
(*                                                                         *)
(* A sheet is a sequence of rows of equal length, the first of them the    *)
(* header; rows at the end may be blank, as formatting leaves them.  A      *)
(* cell is a string.  A formula is there in two states: with the value     *)
(* that Excel last cached in the file, and without one.                    *)
(***************************************************************************)
EXTENDS Integers, FiniteSetsExt, SequencesExt

CONSTANTS
  ReadMaxRows,   \* readers.READ_MAX_ROWS
  ReadMaxChars,  \* readers.READ_MAX_CHARS
  ResultCap,     \* loop.MAX_TOOL_RESULT_CHARS, less what stands above the rows
  NoteChars,     \* the note of read_excel that names the next row
  SampleRows,    \* readers.SAMPLE_ROWS
  MaxScanRows,   \* aggregate.MAX_SCAN_ROWS
  MaxGroups,     \* aggregate.MAX_GROUPS
  NumberOf,      \* numeric.parse_number: the texts that are numbers, and which
  LetterOf       \* the column letters among the names in use, and their columns

Blank == ""
Formula == "=f"          \* with a cached value
FormulaBare == "=f bare" \* without one
Formulas == {Formula, FormulaBare}
CachedValue == "1"

Sum(numbers) == FoldLeft(+, 0, numbers)
Numbers(texts) == LET parsed == SelectSeq(texts, LAMBDA t : t \in DOMAIN NumberOf)
                  IN  [i \in DOMAIN parsed |-> NumberOf[parsed[i]]]

-----------------------------------------------------------------------------
(* Reading *)

\* data_only=True: the last value Excel cached, never an evaluation.
Cell(cell) == CASE cell = Formula -> CachedValue [] cell = FormulaBare -> Blank [] OTHER -> cell
Shown(row) == [j \in DOMAIN row |-> Cell(row[j])]

IsBlankRow(row) == \A j \in DOMAIN row : row[j] = Blank
LastRow(rows) == Max({0} \cup {i \in DOMAIN rows : ~IsBlankRow(rows[i])})

\* The rows of a sheet as they are displayed, blank ones at the end left out.
SheetGrid(sheet) ==
  LET shown == [i \in DOMAIN sheet |-> Shown(sheet[i])]
  IN  SubSeq(shown, 1, LastRow(shown))

HeadersOf(grid) == IF grid = <<>> THEN <<>> ELSE grid[1]
DataOf(grid) == IF grid = <<>> THEN <<>> ELSE Tail(grid)

Named(headers, name) == {j \in DOMAIN headers : headers[j] = name}

\* _project: of two columns of one name, the last; unknown names are left out.
Project(headers, rows, columns) ==
  LET known == SelectSeq(columns, LAMBDA name : Named(headers, name) # {})
      keep == [k \in DOMAIN known |-> Max(Named(headers, known[k]))]
  IN  [headers |-> known, rows |-> [i \in DOMAIN rows |-> [k \in DOMAIN keep |-> rows[i][keep[k]]]]]

\* _apply_char_cap: how many of the rows, in whole ones, fit the budget.
Fitting(rows) ==
  LET chars(n) == Sum([i \in 1 .. n |-> Sum([j \in DOMAIN rows[i] |-> Len(rows[i][j]) + 1])])
  IN  Max({n \in 0 .. Len(rows) : chars(n) <= ReadMaxChars})

\* load_table: one page of whole rows, and whether there are more.
LoadTable(sheet, columns, startRow, maxRows) ==
  LET grid == SheetGrid(sheet)
      data == DataOf(grid)
      windowed == SubSeq(data, startRow, Min({Len(data), startRow - 1 + Min({maxRows, ReadMaxRows})}))
      table == IF columns = <<>> THEN [headers |-> HeadersOf(grid), rows |-> windowed]
               ELSE Project(HeadersOf(grid), windowed, columns)
      fit == Fitting(table.rows)
  IN  [headers |-> table.headers,
       rows |-> SubSeq(table.rows, 1, fit),
       total |-> Len(data),
       truncated |-> fit < Len(table.rows) \/ startRow - 1 + Len(windowed) < Len(data)]

\* A whole page on, whatever the budget of characters cut off.
NextRowByTheCap(startRow, table) == startRow + ReadMaxRows

\* read_excel: the row after the last one shown.
NextRow(startRow, table) == startRow + Len(table.rows)

\* The rows of a result, " | " between their cells, and the note under them if there
\* is more; _for_model: what the loop hands on of them, in whole rows, and whether it
\* cut the result.
Rendered(rows) == Sum([i \in DOMAIN rows |-> Sum([j \in DOMAIN rows[i] |-> Len(rows[i][j]) + 3]) - 2])

ForModel(table) ==
  [cut |-> Rendered(table.rows) + (IF table.truncated THEN NoteChars ELSE 0) > ResultCap,
   rows |-> SubSeq(table.rows, 1, Max({n \in 0 .. Len(table.rows) : Rendered(SubSeq(table.rows, 1, n)) <= ResultCap}))]

\* inspect_workbook: the rows the sheet declares, none if it declares nothing, and
\* those of its beginning.
Inspected(book) ==
  LET grid == SheetGrid(SubSeq(book.sheet, 1, Min({Len(book.sheet), SampleRows + 1})))
  IN  [total |-> IF book.sized THEN Len(book.sheet) - 1 ELSE 0,
       headers |-> HeadersOf(grid), sample |-> DataOf(grid)]

-----------------------------------------------------------------------------
(* Editing.  A book is a sheet, whether a formula of another sheet names it *)
(* and whether it declares its size.  An edit is a record with its "op".    *)

CellAt(sheet, i, j) == IF i \in DOMAIN sheet /\ j \in DOMAIN sheet[i] THEN sheet[i][j] ELSE Blank
Width(sheet) == Len(sheet[1])

\* A reference of openpyxl to a cell outside the sheet makes the sheet larger.
Put(sheet, put) ==
  [i \in 1 .. Max({Len(sheet), put.row}) |->
     [j \in 1 .. Max({Width(sheet), put.col}) |->
        IF i = put.row /\ j = put.col THEN put.value ELSE CellAt(sheet, i, j)]]
PutAll(sheet, puts) == FoldLeft(Put, sheet, puts)

PutRow(row, values) == [j \in DOMAIN values |-> [row |-> row, col |-> j, value |-> values[j]]]

\* The last row that holds a value; a formula is one, whatever it shows.
LastPopulatedRow(sheet) == LastRow(sheet)
DataRowCount(sheet) == Max({0, LastPopulatedRow(sheet) - 1})
IsBlankSheet(sheet) == sheet = <<<<Blank>>>>
HasFormula(sheet) == \E i \in DOMAIN sheet : Range(sheet[i]) \cap Formulas # {}

\* _column_index: the first header of that name, else the column of that letter; 0: none.
ColumnIndex(headers, name) ==
  IF Named(headers, name) # {} THEN Min(Named(headers, name))
  ELSE IF name \in DOMAIN LetterOf /\ LetterOf[name] <= Len(headers) THEN LetterOf[name] ELSE 0

SetCells(sheet, cells) == PutAll(sheet, cells)

AppendRows(sheet, rows) ==
  LET next == LastPopulatedRow(sheet) + 1
  IN  PutAll(sheet, FlattenSeq([k \in DOMAIN rows |-> PutRow(next + k - 1, rows[k])]))

AddColumn(sheet, header, values) ==
  LET col == IF IsBlankSheet(sheet) THEN 1 ELSE Width(sheet) + 1
      column == <<header>> \o values
  IN  PutAll(sheet, [k \in DOMAIN column |-> [row |-> k, col |-> col, value |-> column[k]]])

\* From the top down, each removal moving the targets that follow.
DeleteRowsTopDown(sheet, rows) ==
  FoldLeft(LAMBDA s, n : IF n + 1 \in DOMAIN s THEN RemoveAt(s, n + 1) ELSE s, sheet, SetToSortSeq(rows, <))

\* Data row n is row n + 1 of the sheet.
DeleteRows(sheet, rows) ==
  FoldLeft(LAMBDA s, n : RemoveAt(s, n + 1), sheet, SetToSortSeq(rows, >))

DeleteColumns(sheet, names) ==
  LET targets == {ColumnIndex(sheet[1], name) : name \in names}
      rest == SetToSortSeq(DOMAIN sheet[1] \ targets, <)
  IN  IF rest = <<>> THEN <<<<Blank>>>>
      ELSE [i \in DOMAIN sheet |-> [k \in DOMAIN rest |-> sheet[i][rest[k]]]]

Literals(edit) ==
  CASE edit.op = "set_cells"   -> {edit.cells[k].value : k \in DOMAIN edit.cells}
    [] edit.op = "append_rows" -> UNION {Range(edit.rows[k]) : k \in DOMAIN edit.rows}
    [] edit.op = "add_column"  -> {edit.header} \cup Range(edit.values)
    [] OTHER -> {}

Shifting(edit) == edit.op \in {"delete_rows", "delete_columns"}

\* EditError: nothing of the edit is applied.
Refused(book, edit) ==
  \/ Literals(edit) \cap Formulas # {}
  \/ Shifting(edit) /\ (HasFormula(book.sheet) \/ book.referenced)
  \/ edit.op = "add_column" /\ Len(edit.values) # DataRowCount(book.sheet)
  \/ edit.op = "delete_rows" /\ ~(edit.targets \subseteq 1 .. DataRowCount(book.sheet))
  \/ edit.op = "delete_columns" /\ \E name \in edit.columns : ColumnIndex(book.sheet[1], name) = 0

Apply(sheet, edit) ==
  CASE edit.op = "set_cells"      -> SetCells(sheet, edit.cells)
    [] edit.op = "append_rows"    -> AppendRows(sheet, edit.rows)
    [] edit.op = "add_column"     -> AddColumn(sheet, edit.header, edit.values)
    [] edit.op = "delete_rows"    -> DeleteRows(sheet, edit.targets)
    [] edit.op = "delete_columns" -> DeleteColumns(sheet, edit.columns)

\* data_only=False: a formula stays one, and loses its cached value on saving.
Saved(sheet) ==
  [i \in DOMAIN sheet |-> [j \in DOMAIN sheet[i] |->
     IF sheet[i][j] \in Formulas THEN FormulaBare ELSE sheet[i][j]]]

\* openpyxl declares the size of what it saves.
Edited(book, edit) == [book EXCEPT !.sheet = Saved(Apply(book.sheet, edit)), !.sized = TRUE]

-----------------------------------------------------------------------------
(* Aggregating.  A query has a filter ("none", or a column, a comparison    *)
(* and a value), a column to group by ("none" for one group) and a metric.  *)

AllRows == "(all)"

ColumnOf(headers, name) == Max(Named(headers, name))

UnknownColumn(sheet, query) ==
  \E name \in {query.metric.column, query.filter.column, query.group} \ {"none"} :
    Named(Shown(sheet[1]), name) = {}

\* _matches: numerically when both sides are numbers.
Matches(cell, filter) ==
  LET numeric == {cell, filter.value} \subseteq DOMAIN NumberOf
      equal == IF numeric THEN NumberOf[cell] = NumberOf[filter.value] ELSE cell = filter.value
  IN  CASE filter.op = "eq" -> equal
        [] filter.op = "ne" -> ~equal
        [] filter.op = "gt" -> numeric /\ NumberOf[cell] > NumberOf[filter.value]

\* _Acc: what a metric makes of the cells of a group, no value where it has none.
Value(op, cells) ==
  LET numbers == Numbers(cells)
  IN  CASE op = "count" -> {Len(SelectSeq(cells, LAMBDA c : c # Blank))}
        [] numbers = <<>> -> {}
        [] op = "sum" -> {Sum(numbers)}
        [] op = "min" -> {Min(Range(numbers))}
        [] op = "max" -> {Max(Range(numbers))}

\* Groups by descending value, those without one at the end.
Before(a, b) == \E v \in a.value : \A w \in b.value : v > w

\* The page that read_excel would have shown.
ScannedPage(sheet) == SubSeq(DataOf(SheetGrid(sheet)), 1, Min({Len(DataOf(SheetGrid(sheet))), ReadMaxRows}))

\* open_sheet_rows: every row, as far as the scan goes; blank ones do not count.
Scanned(sheet) ==
  LET filled == SelectSeq(Tail([i \in DOMAIN sheet |-> Shown(sheet[i])]), LAMBDA row : ~IsBlankRow(row))
  IN  SubSeq(filled, 1, Min({Len(filled), MaxScanRows}))

ScanTruncated(sheet) ==
  \E i \in 2 .. Len(sheet) :
    Cardinality({h \in 2 .. i - 1 : ~IsBlankRow(Shown(sheet[h]))}) >= MaxScanRows

Aggregate(sheet, query) ==
  LET headers == Shown(sheet[1])
      scanned == Scanned(sheet)
      kept == IF query.filter.column = "none" THEN scanned
              ELSE SelectSeq(scanned, LAMBDA row : Matches(row[ColumnOf(headers, query.filter.column)], query.filter))
      key(row) == IF query.group = "none" THEN AllRows ELSE row[ColumnOf(headers, query.group)]
      keys == {key(kept[i]) : i \in DOMAIN kept} \cup (IF query.group = "none" THEN {AllRows} ELSE {})
      cells(rows) == [i \in DOMAIN rows |-> rows[i][ColumnOf(headers, query.metric.column)]]
      group(k) == LET rows == SelectSeq(kept, LAMBDA row : key(row) = k)
                  IN  [key |-> k, rows |-> Len(rows), value |-> Value(query.metric.op, cells(rows))]
      groups == SetToSortSeq({group(k) : k \in keys}, Before)
      \* a count parses no cell, and so none is accounted for
      accounted == IF query.metric.op = "count" THEN <<>> ELSE cells(kept)
  IN  [groups |-> SubSeq(groups, 1, Min({Len(groups), MaxGroups})),
       totalGroups |-> Len(groups),
       scanned |-> Len(scanned),
       matched |-> Len(kept),
       parsed |-> Len(Numbers(accounted)),
       blank |-> Len(SelectSeq(accounted, LAMBDA c : c = Blank)),
       partial |-> ScanTruncated(sheet)]
=============================================================================

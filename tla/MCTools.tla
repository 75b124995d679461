------------------------------ MODULE MCTools ------------------------------
(* Instances for TLC of what the tools of a turn work on: the documents of a *)
(* department (module Reading, whose instance MCReading is) and the files   *)
(* of a conversation.  They share no state, and of the documents a search   *)
(* and a reader share only the index, so that a behaviour is about one:     *)
(* searching, reading or the files.                                         *)
EXTENDS MCReading

VARIABLE part   \* what a behaviour is about

(* Files *)
CONSTANTS
  Users, Uploads, Edits, Queries, ReadMaxRows, ReadMaxChars, ResultCap, NoteChars, SampleRows, MaxScanRows,
  MaxGroups, NumberOf, LetterOf, MaxFiles, MaxTools, MaxCrashes,
  SecondUploads   \* bound: what is uploaded when there is a file already
VARIABLES disk, rows, written, used, upload, removal, tool, reading, calls, crashes
files == <<disk, rows, written, used, upload, removal, tool, reading, calls, crashes>>
Store == INSTANCE Files WITH turn <- tool

\* What a behaviour is not about has one beginning.
MCInit ==
  /\ part \in {"searching", "reading", "files"}
  /\ Init /\ (part = "files" => corpus = CHOOSE c \in Corpora : TRUE)
  /\ Store!Init

FilesNext ==
  /\ Store!Next
  /\ used = 1 /\ upload # upload' /\ used' = 2 => disk'[2] \in SecondUploads

MCNext ==
  /\ UNCHANGED part
  /\ \/ part = "searching" /\ Next /\ UNCHANGED <<reader, files>>
     \/ part = "reading" /\ Next /\ UNCHANGED <<told, files>>
     \/ part = "files" /\ FilesNext /\ UNCHANGED vars

MCSpec == MCInit /\ [][MCNext]_<<vars, files, part>>

\* The properties of the module Files.
RowsHaveFiles == Store!RowsHaveFiles
ReadingIsWhole == Store!ReadingIsWhole
EditsDoWhatTheySay == Store!EditsDoWhatTheySay
TotalsAreComplete == Store!TotalsAreComplete

-----------------------------------------------------------------------------
(* The files: an owner and another user, and the sheets that are hard to    *)
(* read and to edit: a blank row inside, rows that are only formatted, a    *)
(* formula whose value is not cached, two columns of one name, no cell,     *)
(* rows too long for one result in a sheet that declares no size.           *)

CONSTANTS u1, u2

MCUsers == {u1, u2}

MCNumberOf == [t \in {"1", "2", "7"} |-> CASE t = "1" -> 1 [] t = "2" -> 2 [] t = "7" -> 7]
MCLetterOf == [t \in {"A", "B"} |-> IF t = "A" THEN 1 ELSE 2]

Book(sheet, referenced) == [kind |-> "book", sheet |-> sheet, referenced |-> referenced, sized |-> TRUE]
Unsized(sheet) == [Book(sheet, FALSE) EXCEPT !.sized = FALSE]
Document(lines, scan) == [kind |-> "document", lines |-> lines, scan |-> scan]
Garbled == [kind |-> "garbled"]
Image(boxes) == [kind |-> "image", boxes |-> boxes]
Word(text, x, top, bottom) ==
  [text |-> text, left |-> x, centre |-> (top + bottom) \div 2, bottom |-> bottom]

Gapped == <<<<"h", "k">>, <<"1", "x">>, <<"", "">>, <<"7", "x">>, <<"2", "">>>>
Styled == <<<<"h", "k">>, <<"2", "x">>, <<"", "">>>>
Computed == <<<<"h", "k">>, <<"=f", "x">>, <<"2", "">>, <<"=f bare", "">>>>
Twins == <<<<"h", "h", "B">>, <<"1", "2", "x">>, <<"7", "", "x">>>>
Empty == <<<<"">>>>
Long == <<<<"h">>, <<"long cell">>, <<"long text">>, <<"end">>>>

MCUploads ==
  {Book(Gapped, FALSE), Book(Styled, TRUE), Book(Computed, FALSE),
   Book(Twins, FALSE), Book(Empty, FALSE), Unsized(Long),
   Document(<<"a", "", "b", "a line", "next", "too long">>, FALSE), Document(<<>>, TRUE), Garbled,
   Image({}),
   Image({Word("b", 5, 1, 3), Word("a", 1, 2, 4), Word("c", 1, 5, 7)})}

MCSecondUploads == {Book(Gapped, FALSE), Document(<<>>, TRUE), Garbled}

MCEdits ==
  {[op |-> "set_cells", cells |-> <<[row |-> 2, col |-> 1, value |-> ""], [row |-> 7, col |-> 2, value |-> "x"]>>],
   [op |-> "set_cells", cells |-> <<[row |-> 2, col |-> 1, value |-> "=f bare"]>>],
   [op |-> "append_rows", rows |-> <<<<"1">>, <<"", "", "2">>>>],
   [op |-> "add_column", header |-> "k", values |-> <<"1">>],
   [op |-> "add_column", header |-> "A", values |-> <<"1", "", "2", "7">>],
   [op |-> "delete_rows", targets |-> {1, 3}],
   [op |-> "delete_columns", columns |-> {"h"}],
   [op |-> "delete_columns", columns |-> {"A", "B"}]}

NoFilter == [column |-> "none", op |-> "eq", value |-> ""]
MCQueries ==
  {[filter |-> NoFilter, group |-> "none", metric |-> [op |-> "sum", column |-> "h"]],
   [filter |-> NoFilter, group |-> "k", metric |-> [op |-> "sum", column |-> "h"]],
   [filter |-> [column |-> "k", op |-> "ne", value |-> "x"], group |-> "h", metric |-> [op |-> "count", column |-> "k"]],
   [filter |-> [column |-> "h", op |-> "gt", value |-> "1"], group |-> "k", metric |-> [op |-> "max", column |-> "h"]]}

Symmetry == Permutations(MCUsers)
=============================================================================

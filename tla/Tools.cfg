CONSTANTS
  d1 = d1
  d2 = d2
  Docs = {d1, d2}
  Corpora <- MCCorpora
  Settings <- MCSettings
  SkippedSections = {"Contents"}
  Pool = 2
  TopK = 2
  LineCap = 3
  CharBudget = 6
  MaxIndexings = 2
  MaxSearches = 2
  u1 = u1
  u2 = u2
  Users <- MCUsers
  Uploads <- MCUploads
  Edits <- MCEdits
  Queries <- MCQueries
  NumberOf <- MCNumberOf
  LetterOf <- MCLetterOf
  ReadMaxRows = 3
  ReadMaxChars = 24
  ResultCap = 20
  NoteChars = 2
  SampleRows = 2
  MaxScanRows = 3
  MaxGroups = 2
  MaxFiles = 2
  MaxTools = 2
  MaxCrashes = 1
  SecondUploads <- MCSecondUploads
SYMMETRY Symmetry
SPECIFICATION MCSpec
INVARIANTS IndexHoldsTheDocument AnswersAreGrounded ReadingReachesTheEnd
INVARIANTS RowsHaveFiles ReadingIsWhole EditsDoWhatTheySay TotalsAreComplete
CHECK_DEADLOCK FALSE

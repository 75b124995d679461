CONSTANTS
  d1 = d1
  d2 = d2
  Docs = {d1, d2}
  Corpora <- MCStraddling
  Settings <- MCSettings
  SkippedSections = {"Contents"}
  Pool = 2
  TopK = 2
  LineCap = 3
  CharBudget = 6
  MaxIndexings = 2
  MaxSearches = 2
SPECIFICATION Spec
INVARIANT EveryWordIsIndexed
CHECK_DEADLOCK FALSE

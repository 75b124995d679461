CONSTANTS
  t1 = t1
  t2 = t2
  d1 = d1
  none = none
  Turns = {t1, t2}
  Depts = {d1}
  NoDept = none
  NoTurn = NoTurn
  Earlier <- MCEarlier
  QuestionCost = 1
  Costs = {3}
  Budget = 7
  NoteCost = 1
  FilesCost = 1
  MaxTail = 5
  Keys = {k1}
  Iterations = 2
  CallsAtOnce = 2
  MaxCalls = 2
  Sessions = {1, 2, 3}
  Others = {4}
  Writers = {w1, w2}
  Limit = 1
  MaxClock = 2
  MaxMessages = 4
  Bs <- MCBs
  Ad <- MCAd
  AnchorAd <- MCAnchor
  FiscalStartMonth = 2
  TicksPerDay = 4
  Offset = 1
  Clocks = {0, 1, 2, 3, 4, 5, 6, 7, 8}
  Durations <- MCDurations
  Labels <- MCLabels
  usd = usd
  inr = inr
  Days = {1, 2, 3}
  Currencies = {usd, inr}
  Entries <- MCEntries
  NoEntry = NoEntry
  NoQuote = 0
  All = All
  MaxPages = 2
  MaxRangeDays = 3
  MaxDaysAllCurrencies = 2
  MaxEntries = 1
  MaxCorrections = 1
SYMMETRY Symmetry
SPECIFICATION MCSpec
INVARIANTS ContextIsSound LoopIsSound ScrollsAreWhole DatesAgree RatesAreAsPublished
PROPERTY ThreadIsALog
CHECK_DEADLOCK FALSE

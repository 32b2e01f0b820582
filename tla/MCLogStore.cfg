CONSTANTS
  Hour = 2
  Day = 4
  Gap = 1
  Workers = {w1, w2}
  Batches <- MCBatches
  OldLines <- MCOldLines
  Ranges <- MCRanges
  Cutoff = 3
  Budgets <- MCBudgets
  MaxAttempts = 2
  Minute = 2
  Week = 2
  Thirty = 3
  MonthStarts = {0, 8, 12, 20}
  ActiveWindow = 3
  ForecastWindow = 2
  MinWindow = 1
  RealtimeWindow = 2
  TrendDays = 2
  SlowTime = 2
  SlowAverage = 1
  TopSize = 2
  Expiry = 2
  Requests = {1, 2}
  Queries <- MCQueries
  Cases <- MCCases
SPECIFICATION MCSpec
INVARIANTS
  TypeOK
  TablesExact
  SessionsSound
  NoDangling
  OverallAgrees
  CompareOrdered
  PagesAgree
  ClearedOrRaced
PROPERTIES
  RebuildRepairs
  BatchEnds
  StoresAsPromised
CHECK_DEADLOCK FALSE

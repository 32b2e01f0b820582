CONSTANTS
  Tasks = {task}
  Reparsers = {reparse}
  Resolvers = {override}
  Sites = {s1, s2}
  NoSite = NoSite
  MaxBytes = 1
  j1 = j1
  j2 = j2
  scan = scan
  push = push
  Jobs = {j1, j2}
  Row0 <- MCRow0
  Dangling <- MCDangling
  ExportPage = 2
  ExportBudgets <- MCExportBudgets
  WebServers <- MCWebServers
  MaxLines = 2
  OldLines = 1
  RemoteBatch = 1
  Crlf = FALSE
  PollLimits <- MCPollLimits
  Failures = {"f1", "f2"}
  Rules = {"r1", "r2"}
  Scans = {scan}
  Pushes = {push}
  Hits <- MCHits
  NoRule = "none"
  NoticeBatch = 2
  NoticePage = 1
  Channels <- MCChannels
  MaxPushes = 3
  NoticeBounds <- MCNoticeBounds
SPECIFICATION MCSpec
CHECK_DEADLOCK FALSE
INVARIANTS TypeOK GatesExclude StatusTrue PeriodicIsNotFirst
  FilesOwned CancelHonoured RowsExported
  NoDuplicates OffsetAccounted HitsCounted ListedAll
PROPERTIES GateGivenBack JobEnds EventuallyStored PushedToAll

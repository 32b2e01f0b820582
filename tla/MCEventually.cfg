CONSTANTS
  Live = live
  Rotated = rotated
  WatchRotated = FALSE
  MaxLines = 2
  MaxTs = 2
  MaxGen = 2
  MaxCrashes = 1
  MaxReparses = 0
  BatchSize = 2
  LongLines <- SecondFileLong
  Crlf = TRUE
  Ordered = TRUE
  TornWrites = FALSE
  InsertFails = FALSE
  IndexFails = FALSE
  ReadFails = FALSE
  HasLogsFails = FALSE
  SaveFails = FALSE
  ClearFails = FALSE
  OtherSites = FALSE
  i1 = i1
  s1 = s1
  IPs = {i1}
  Sites = {s1}
  Ingesters = {g}
  Scanners = {g}
  Handlers = {h}
  Worker = w
  CacheLimit = 1
  MaxFaults = 1
  MaxEdits = 1
SPECIFICATION EitherSpec
CHECK_DEADLOCK FALSE
PROPERTIES EventuallyStored EventuallyResolved

CONSTANTS
  Live = live
  Rotated = rotated
  WatchRotated = TRUE
  MaxLines = 2
  MaxTs = 2
  MaxGen = 2
  MaxCrashes = 1
  MaxReparses = 1
  BatchSize = 2
  LongLines <- SecondFileLong
  Crlf = FALSE
  Ordered = TRUE
  TornWrites = FALSE
  InsertFails = FALSE
  IndexFails = FALSE
  ReadFails = FALSE
  HasLogsFails = FALSE
  SaveFails = FALSE
  ClearFails = FALSE
  OtherSites = FALSE
SPECIFICATION BothSpec
INVARIANTS TypeOK NoDuplicateRows OffsetsAccounted SavedOffsetsAccounted OnlyCutoffSecondSkipped
PROPERTY NeverBack

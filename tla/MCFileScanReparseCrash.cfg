CONSTANTS
  Live = live
  Rotated = rotated
  WatchRotated = FALSE
  MaxLines = 2
  MaxTs = 2
  MaxGen = 1
  MaxCrashes = 1
  MaxReparses = 1
  BatchSize = 2
  LongLines = {}
  Crlf = FALSE
  Ordered = TRUE
  TornWrites = FALSE
  InsertFails = FALSE
  IndexFails = FALSE
  ReadFails = FALSE
  HasLogsFails = FALSE
  SaveFails = FALSE
  ClearFails = FALSE
  OtherSites = TRUE
SPECIFICATION Spec
INVARIANT SavedOffsetsAccounted

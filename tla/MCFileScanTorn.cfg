CONSTANTS
  Live = live
  Rotated = rotated
  WatchRotated = FALSE
  MaxLines = 2
  MaxTs = 2
  MaxGen = 1
  MaxCrashes = 0
  MaxReparses = 0
  BatchSize = 2
  LongLines = {}
  Crlf = FALSE
  Ordered = TRUE
  TornWrites = TRUE
  InsertFails = FALSE
  IndexFails = FALSE
  ReadFails = FALSE
  HasLogsFails = FALSE
  SaveFails = FALSE
  ClearFails = FALSE
  OtherSites = FALSE
SPECIFICATION Spec
INVARIANT OffsetsAccounted

CONSTANTS
  p = p
  Paths = {p}
  MaxLines = 2
  Text <- Two
  Unparsable = {}
  Overlong = {}
  LongHead = {}
  InitialTail = 0
  InitialMaxLines = 1
  BatchSize = 2
  MaxPending = 2
  BackoffMin = 1
  BackoffMax = 1
  ExitOnMaxBackoff = TRUE
  ParseBatchSize = 2
  Handlers = {h1, h2}
  MaxFaults = 1
  MaxCrashes = 1
SPECIFICATION FairSpec
CHECK_DEADLOCK FALSE
PROPERTY EventuallyStored

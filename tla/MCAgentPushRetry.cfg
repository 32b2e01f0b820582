CONSTANTS
  p = p
  Paths = {p}
  MaxLines = 2
  Text <- Two
  Unparsable = {}
  Overlong = {}
  LongHead = {}
  InitialTail = 0
  InitialMaxLines = 0
  BatchSize = 2
  MaxPending = 2
  BackoffMin = 1
  BackoffMax = 2
  ExitOnMaxBackoff = FALSE
  ParseBatchSize = 2
  Handlers = {h1, h2}
  MaxFaults = 1
  MaxCrashes = 0
SPECIFICATION Spec
CHECK_DEADLOCK FALSE
INVARIANT RetryStores

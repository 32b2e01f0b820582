CONSTANTS
  p = p
  Paths = {p}
  MaxLines = 3
  Text <- Three
  Unparsable = {}
  Overlong = {"c"}
  LongHead = {"c"}
  InitialTail = 4
  InitialMaxLines = 1
  BatchSize = 2
  MaxPending = 2
  BackoffMin = 1
  BackoffMax = 1
  ExitOnMaxBackoff = TRUE
  ParseBatchSize = 2
  Handlers = {h1, h2}
  MaxFaults = 1
  MaxCrashes = 1
SPECIFICATION Spec
CHECK_DEADLOCK FALSE
INVARIANTS ReadAccounted WholeLines AckedStored

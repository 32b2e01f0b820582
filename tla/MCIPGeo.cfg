CONSTANTS
  i1 = i1
  s1 = s1
  s2 = s2
  IPs = {i1}
  Sites = {s1, s2}
  Rows <- OneEach
  Ingesters = {g}
  Scanners = {}
  Handlers = {h}
  Worker = w
  CacheLimit = 0
  MaxFaults = 1
  MaxCrashes = 1
  MaxEdits = 1
SPECIFICATION Spec
CHECK_DEADLOCK FALSE
INVARIANT DequeuedAfterLabelling
PROPERTY ManualStays

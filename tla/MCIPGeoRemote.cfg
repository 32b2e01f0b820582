CONSTANTS
  i1 = i1
  s1 = s1
  s2 = s2
  IPs = {i1}
  Sites = {s1}
  Rows <- OneRow
  Ingesters = {g}
  Scanners = {}
  Handlers = {}
  Worker = w
  CacheLimit = 0
  MaxFaults = 0
  MaxCrashes = 0
  MaxEdits = 0
SPECIFICATION Spec
CHECK_DEADLOCK FALSE
PROPERTY KeptWhenRemoteFails

SPECIFICATION Safety
CONSTANTS
  a = a
  b = b
  w = w
  pc1 = pc1
  pc2 = pc2
  TurnsPrinted = 1
  MaxWaiting = 2
  Nobody = Nobody
  Runs = {a}
  Watchers = {w}
  Lines = {pc1}
  Overlap = TRUE
  Buffer = 2
  Limit = 2
  MaxPrinted = 1
  MaxSessions = 1
INVARIANTS WatchWhileActing
CHECK_DEADLOCK FALSE

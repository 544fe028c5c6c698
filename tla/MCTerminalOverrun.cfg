SPECIFICATION Safety
CONSTANTS
  a = a
  b = b
  w = w
  pc1 = pc1
  pc2 = pc2
  TurnsPrinted = 1
  MaxWaiting = 2
  Nobody = Nobody
  Runs = {a}
  Watchers = {}
  Lines = {pc1}
  Overlap = FALSE
  Buffer = 2
  Limit = 2
  MaxPrinted = 2
  MaxSessions = 1
INVARIANTS NoOutputMissed
CHECK_DEADLOCK FALSE

SPECIFICATION Scenes
CONSTANTS
  a = a
  b = b
  w = w
  pc1 = pc1
  pc2 = pc2
  Nobody = Nobody
  Runs = {a, b}
  Watchers = {w}
  Lines = {pc1, pc2}
  Overlap = FALSE
  Buffer = 2
  Limit = 2
  MaxPrinted = 2
  MaxSessions = 3
  TurnsPrinted = 1
  MaxWaiting = 2
INVARIANTS TypeOK WholeOutput FreeAfterReturn FinishedIsOwn SubscribedWhileListening NothingLeftSubscribed
PROPERTIES EveryRunReturns
CHECK_DEADLOCK FALSE

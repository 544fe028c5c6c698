SPECIFICATION SessionsSpec
CONSTANTS
  Tasks = {t1, t2}
  Ports = 2
  MaxSessions = 2
  MaxChanges = 2
  Calls = {c1}
  NoCall = NoCall
  IdSpace = 2
  Window = 1
  MaxNoise = 2
INVARIANTS TypeOK OneSession SharedSession TriesEachOnce MostTelling
PROPERTIES EveryCallServed FindsPacketTracer EveryCallReturns SocketReleased ImplementsService
CHECK_DEADLOCK FALSE

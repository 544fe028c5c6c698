SPECIFICATION ProtocolSafety
CONSTANTS
  Calls = {c1, c2, c3}
  NoCall = NoCall
  IdSpace = 2
  Window = 1
  MaxNoise = 0
  MAX_FRAME_LEN = 28
  MAX_LEN_DIGITS = 2
  MaxWritten = 2
SYMMETRY CallSymmetry
INVARIANTS TypeOK OwnAnswer NoCallStranded TidyTable ReadAsWritten
CHECK_DEADLOCK FALSE

CONSTANTS
  Buf = {b1, b2, b3}
  NoBuf = NoBuf
  Direct = {}
  ReqN = 1
  CcMax = 3
  FlushMax = 1
SPECIFICATION Spec
INVARIANT NoStaleLeak
SYMMETRY Symmetry
CHECK_DEADLOCK FALSE

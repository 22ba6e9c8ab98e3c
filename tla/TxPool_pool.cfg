CONSTANTS
  Buf = {b1, b2, b3}
  NoBuf = NoBuf
  Direct = {eth, local}
  ReqN = 1
  CcMax = 3
  FlushMax = 1
SPECIFICATION Spec
INVARIANTS OneOwner InOrder Woken
SYMMETRY Symmetry
CHECK_DEADLOCK FALSE

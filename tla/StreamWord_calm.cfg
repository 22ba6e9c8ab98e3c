SPECIFICATION Spec
CONSTANTS
  Actor = {"apply", "session", "anchor", "verb", "heal"}
  Ask = {{"tx"}, {"tx", "rx"}}
  NoProc = NoProc
  OpMax = 3
  TroubleMax = 1
INVARIANTS Settled NoHang
CONSTRAINT FewInDoubt
CHECK_DEADLOCK FALSE
PROPERTIES TxCycled

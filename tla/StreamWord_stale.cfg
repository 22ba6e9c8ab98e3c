SPECIFICATION Spec
CONSTANTS
  Actor = {"apply", "session", "heal"}
  Ask = {{"tx"}, {"tx", "rx"}}
  NoProc = NoProc
  OpMax = 3
  TroubleMax = 1
INVARIANT NoStaleWord
CHECK_DEADLOCK FALSE

SPECIFICATION Spec
CONSTANTS
  Actor = {"apply", "verb"}
  Ask = {{"tx"}, {"tx", "rx"}}
  NoProc = NoProc
  OpMax = 3
  TroubleMax = 0
INVARIANT AlwaysSettled
CHECK_DEADLOCK FALSE

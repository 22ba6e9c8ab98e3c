SPECIFICATION Spec
CONSTANTS
  Actor = {"apply", "session", "anchor", "verb", "heal"}
  Ask = {{"tx"}, {"tx", "rx"}}
  NoProc = NoProc
  OpMax = 2
  TroubleMax = 1
INVARIANTS GuardsTrue NoHang
CHECK_DEADLOCK FALSE

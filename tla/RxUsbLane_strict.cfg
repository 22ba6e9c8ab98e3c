SPECIFICATION Spec
CONSTANTS
  Lane = {a}
  Ep = {e1, e2}
  PerEp = 1
  NoPkt = NoPkt
  RingSize = 4
  PktSubs = 2
  Cap = 2
  StaleCap = 1
  LaSize = 4
  Behind = 1
  Skips = {1}
  StampMax = 7
  EpochMax = 1
  FailMax = 1
  ResetMax = 1
\* Each is refuted alone; TLC stops at the first.
INVARIANT AlwaysIntact
PROPERTY AlwaysFlagged

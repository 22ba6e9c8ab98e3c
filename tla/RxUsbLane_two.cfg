SPECIFICATION Spec
CONSTANTS
  Lane = {a, b}
  Ep = {e1}
  PerEp = 2
  NoPkt = NoPkt
  RingSize = 4
  PktSubs = 2
  Cap = 2
  StaleCap = 1
  Behind = 2
  LaSize = 5
  Skips = {1}
  StampMax = 6
  EpochMax = 0
  FailMax = 1
  ResetMax = 1
INVARIANTS OwnNumber

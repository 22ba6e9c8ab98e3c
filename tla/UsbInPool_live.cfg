SPECIFICATION FairSpec
CONSTANTS
  Req = {r1, r2}
  NoReq = NoReq
  Cap = 1
  StaleCap = 1
  Qlen = 1
  DrainMax = 1
  SweepAfter = 2
PROPERTY GateReopens

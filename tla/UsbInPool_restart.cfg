SPECIFICATION Spec
CONSTANTS
  Req = {r1, r2}
  NoReq = NoReq
  Cap = 2
  StaleCap = 1
  Qlen = 2
  DrainMax = 1
  SweepAfter = 2
SYMMETRY Symmetry
INVARIANTS OneHolder
PROPERTIES DriftOnlyByRepair LossOnlyByStaleCopy

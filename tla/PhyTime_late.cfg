CONSTANTS
  Caller = {}
  Lap = 7
  MaxStep = 1
  Gap = 1
  Phase = {0, 5}
  Prompt = FALSE
  ClockMax = 11
  TroubleMax = 2
  OpenMax = 1
SPECIFICATION PSpec
INVARIANT GateTruth
CHECK_DEADLOCK FALSE

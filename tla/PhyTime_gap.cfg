CONSTANTS
  Caller = {}
  Lap = 7
  MaxStep = 1
  Gap = 2
  Phase = {0, 5}
  Prompt = TRUE
  ClockMax = 11
  TroubleMax = 2
  OpenMax = 1
SPECIFICATION PSpec
PROPERTY NoFalseAlarm
CHECK_DEADLOCK FALSE

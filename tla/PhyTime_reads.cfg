CONSTANTS
  Caller = {c1}
  c1 = c1
  Lap = 4
  MaxStep = 1
  Gap = 1
  Phase = {0, 3}
  Prompt = TRUE
  ClockMax = 4
  TroubleMax = 1
  OpenMax = 0
SPECIFICATION PSpec
\* Each is refuted alone; TLC stops at the first.
INVARIANTS TearFree Labelled
CHECK_DEADLOCK FALSE

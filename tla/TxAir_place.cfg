CONSTANTS
  N = 8
  Tps = 2
  T0 = 6
  Ahead = 2
  MinLead = 4
  Far = 12
  Wrap = 64
  Start = 56
  TimeMax = 12
  PktMax = 3
  FlushCap = 1
  Kind = {"timed", "pos", "bare"}
  Gap = {0, 1, 12}
  Multi = {1, 2}
  Windowed = TRUE
SPECIFICATION ASpec
INVARIANTS PlacedAirs NeverEarly WindowTruth
CHECK_DEADLOCK FALSE

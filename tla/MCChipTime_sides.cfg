SPECIFICATION MCSpec
CONSTANTS
    Wrap = 32
    Start = 28
    MaxNow = 35
    QLen = 2
    Entries = 2
    Setup = 1
    Margin = 1
    Defer = 1
    WinLen = 2
    MaxLead = 3
    MaxWindows = 3
INVARIANTS
    OneWindow
    Woken
    Exact
    GateTruth
CONSTANTS
    Caller = {c1}
    c1 = c1
    Lap = 6
    MaxStep = 1
    Gap = 1
    Phase = {5}
    Prompt = TRUE
    ClockMax = 8
    CallClock = 2
    TroubleMax = 2
    OpenMax = 1
CHECK_DEADLOCK FALSE

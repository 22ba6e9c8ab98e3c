SPECIFICATION Spec
CONSTANTS
    Wrap = 16
    Start = 0
    MaxNow = 16
    QLen = 2
    Entries = 2
    Setup = 1
    Margin = 1
    Defer = 1
    WinLen = 2
    MaxLead = 3
    MaxWindows = 2
\* Each is refuted alone; TLC stops at the first.
INVARIANTS
    NoStray
    PacedTruth

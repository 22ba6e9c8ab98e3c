SPECIFICATION Spec
CONSTANT MaxTries = 1
\* Each is refuted alone; TLC stops at the first.
INVARIANTS
    IpcOutside
    LinkFenced

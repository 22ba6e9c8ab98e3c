SPECIFICATION Spec
CONSTANT MaxTries = 2
INVARIANTS
    OutageFenced
    Retryable

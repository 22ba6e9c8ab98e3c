SPECIFICATION Spec
CONSTANT MaxTries = 2
INVARIANT
    QuietTeardown
PROPERTY ReprobeEnds

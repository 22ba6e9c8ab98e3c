SPECIFICATION SvcSpec
CONSTANTS
  Sock = {s1, s2, s3}
  No = No
INVARIANTS
  NothingFreed
PROPERTIES
  Rewired
  Adopted
CHECK_DEADLOCK FALSE

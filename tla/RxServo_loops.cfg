SPECIFICATION Spec
CONSTANTS
  RxConf <- MCRxConf
  TxConf <- MCTxConf
  MaxLists = 2
  MaxSolves = 2
  MaxSteps = 1
  MaxResets = 1
CHECK_DEADLOCK FALSE
INVARIANTS
  LatchTruth
  TxOwnsPort
  CacheTruth
  CarrierAccounted
  NoStandingProbe
PROPERTIES
  NullEnds

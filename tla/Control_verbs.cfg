SPECIFICATION Spec
CONSTANTS
  MaxSess = 1
  MaxRx = 1
  MaxTx = 2
  Rates = {200000, 800009}
  Fdx = TRUE
INVARIANTS
  TxTruth
  HonestRate
PROPERTIES
  TxAnswered
CHECK_DEADLOCK FALSE

SPECIFICATION Spec
CONSTANTS
  Txs = {p, q}
  TxRplyThresh = 1
  SafeBlkAmt = 3
  MaxLen = 4
CHECK_DEADLOCK FALSE
INVARIANTS NeverForgotten OnePlace

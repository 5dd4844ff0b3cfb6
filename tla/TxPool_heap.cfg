SPECIFICATION Spec
CONSTANTS
  Txs <- MCTxs
  Fee <- MCFee
  Sz <- MCSz
  Blks <- MCBlks
  Cap = 5
  Word = 1024
  BlkSz = 320
CHECK_DEADLOCK FALSE
INVARIANTS HeapOrder CountersAgree 
PROPERTY ImplementsBag

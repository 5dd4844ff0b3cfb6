SPECIFICATION FairSpec
CONSTANTS
  Txs = {t1}
  Pri <- MCPri
  PriLim = 1
  PerBlk = 1
  Fwd = {f1}
  Ctl = {"start", "pause"}
  Workers = {w1, w2, w3, w4}
  NoBlk = NoBlk
CHECK_DEADLOCK FALSE
PROPERTY AllServed

SPECIFICATION Spec
CONSTANTS
  Txs = {t1, t2}
  Pri <- MCPri
  PriLim = 1
  PerBlk = 1
  Fwd = {}
  Ctl = {"start", "pause", "resume"}
  Workers = {w1, w2}
  NoBlk = NoBlk
CHECK_DEADLOCK FALSE
SYMMETRY Symmetric
INVARIANTS OneLiveWorker OwnNeverOrphan NoLostWakeup

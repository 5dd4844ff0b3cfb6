SPECIFICATION Spec
CONSTANTS
  Nodes = {"a", "b", "c"}
  Miners = {"b"}
  Requests <- MCRequests
  Word = 32
  GenPK = "a"
  InitSbsdy = 9
  InitSubsdy = 1
  SubsdyHlvRt = 2
  MxHlvgs = 3
  PriLim = 1
  BlkSz = 240
  TxPCap = 2
  NncLim = 3
  InitPOWD = "targ"
  Below <- MCBelow
  MxBlkSz = 1000
  SafeBlkAmt = 2
  TxRplyThresh = 1
  MaxLen = 4
CHECK_DEADLOCK FALSE
INVARIANTS TypeOK  OneSpender  SupplyKept

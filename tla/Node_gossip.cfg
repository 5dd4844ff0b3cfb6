SPECIFICATION Spec
CONSTANTS
  Genesis = "g"
  Blocks <- MCBlocks
  Txs <- MCTxs
  PubKeys = {"alice", "bob"}
  PrvBlkHsh <- MCPrv
  Transactions <- MCTransactions
  Inputs <- MCInputs
  Outputs <- MCOutputs
  Nodes = {"a", "b", "c"}
  Peers <- MCPeers
  MinerOf <- MCMinerOf3
  PayerOf <- NoPayer
  Starters = {"b"}
  HdrLim = 3
  Word = 64
CHECK_DEADLOCK FALSE
INVARIANTS TypeOK SeenBeforeStored  OrderIrrelevant CaughtUp

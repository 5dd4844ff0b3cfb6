SPECIFICATION FairSpec
CONSTANTS
  Genesis = "g"
  Blocks <- MCBlocks
  Txs <- MCTxs
  PubKeys = {"alice", "bob"}
  PrvBlkHsh <- MCPrv
  Transactions <- MCTransactions
  Inputs <- MCInputs
  Outputs <- MCOutputs
  Nodes = {"a", "b", "c"}
  Peers <- MCPeers
  MinerOf <- MCMinerOf2
  PayerOf <- TwoPayers
  Starters = {}
  HdrLim = 3
  Word = 64
CHECK_DEADLOCK FALSE
PROPERTIES BlocksSpread TxsSpread NodeChain

SPECIFICATION HistSpec
CONSTANTS
  Genesis = "g"
  Blocks <- ForkBlocks
  PrvBlkHsh <- ForkPrv
  Transactions <- ForkTxs
  Txs <- MCTxs
  PubKeys <- MCPubKeys
  Inputs <- MCInputs
  Outputs <- MCOutputs
  Amounts = {3}
  MaxGrants = 0
CHECK_DEADLOCK FALSE
INVARIANT LastBlockUTXO

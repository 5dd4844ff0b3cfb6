SPECIFICATION HistSpec
CONSTANTS
  Genesis = "g"
  Blocks <- ForkBlocks
  PrvBlkHsh <- ForkPrv
  Transactions <- ForkTxs
  Txs <- MCTxs
  PubKeys <- MCPubKeys
  Inputs <- MCInputs
  Outputs <- MCOutputs
  Amounts = {4}
  MaxGrants = 2
CHECK_DEADLOCK FALSE
INVARIANTS TreeRooted LongestChain Provenance LineUTXO NoDoubleGrant
PROPERTIES FirstSeenWins AppendOnly

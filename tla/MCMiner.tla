------------------------------- MODULE MCMiner -------------------------------
(***************************************************************************)
(* Instances of the miner.  Every transaction alone meets the limit.       *)
(***************************************************************************)
EXTENDS Miner, TLC

MCPri == [t \in Txs |-> 1]
Symmetric == Permutations(Txs)
=============================================================================

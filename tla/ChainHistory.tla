---------------------------- MODULE ChainHistory ----------------------------
(***************************************************************************)
(* The block tree with a history of repeated additions, and the properties *)
(* that compare the shared utxo map with one recomputed from a chain.      *)
(***************************************************************************)
EXTENDS Blockchain, SequencesExt

\* GenesisBlock: one coinbase transaction with one output.
ASSUME GenesisOutput ==
    /\ \A k \in DOMAIN Transactions[Genesis] : Spends(Transactions[Genesis][k]) = {}
    /\ \A l \in CreatedBy(Genesis) : l[2] = 1

\* History: a block was added a second time, as Bootstrap may do; the map of
\* seen blocks keeps ForwardBlock from it.
VARIABLE again

HistInit == Init /\ again = FALSE
HistNext ==
    \/ \E b \in Blocks : Add(b) /\ again' = (again \/ b \in Stored)
    \/ \E amt \in Amounts, pk \in PubKeys : GetUTXOForAmt(amt, pk) /\ UNCHANGED again
HistSpec == HistInit /\ [][HistNext]_<<bcVars, again>>

\* Reference: the unspent outputs of a chain, one transaction at a time.
AfterTx(U, t) == (U \ Spends(t)) \cup Creates(t)
AfterBlock(U, b) == FoldLeft(AfterTx, U, Transactions[b])
ChainUTXO(chain) == FoldLeft(AfterBlock, {}, chain)

\* No fork has been stored, and no block twice.
OneLine == ~again /\ Stored = Range(List)

\* No transaction is in two stored blocks.
TxsOnce == \A b, c \in Stored : b # c => CreatedBy(b) \cap CreatedBy(c) = {}

\* "It represents all UTXO on the chain of this block up until this block"
\* (blockchain.go, BlockchainNode), for the node of LastBlock, the one that
\* the wallet, the validation and the balances read.
LastBlockUTXO == ~again => utxo = ChainUTXO(List)

\* Without forks the one shared map is that of the main chain: the order in
\* which Add deletes and inserts leaves neither spent nor missing outputs.
LineUTXO == OneLine => utxo = ChainUTXO(List)

\* The Liminal flag keeps the wallet from spending an output in two
\* transactions of its own: no output is handed out twice while the blocks of
\* all forks create and remove outputs.  (A block that is added again, or a
\* coinbase transaction equal to an earlier one, puts a new output under the
\* same key, without the flag.)
NoDoubleGrant == (~again /\ TxsOnce) =>
    \A i, j \in DOMAIN grants : i # j => grants[i] \cap grants[j] = {}
=============================================================================

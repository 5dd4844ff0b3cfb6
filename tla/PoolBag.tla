------------------------------ MODULE PoolBag -------------------------------
(***************************************************************************)
(* What the miner's transaction pool promises: a bag of transactions of    *)
(* bounded size.  A transaction enters unless the pool is full; a mined    *)
(* block takes out one copy of each of its transactions.                   *)
(***************************************************************************)
EXTENDS Integers, Sequences, FiniteSets, Functions

CONSTANTS Txs,   \* transactions
          Blks,  \* the transaction lists of the blocks that may arrive
          Cap    \* the most transactions that the pool holds

VARIABLE bag     \* transaction -> number of copies in the pool

Size == SumFunction(bag)

Init == bag = [t \in Txs |-> 0]

Enter(t) == Size < Cap /\ bag' = [bag EXCEPT ![t] = @ + 1]

Copies(ts, t) == Cardinality({i \in DOMAIN ts : ts[i] = t})

Leave(ts) == bag' = [t \in Txs |-> IF bag[t] > Copies(ts, t)
                                   THEN bag[t] - Copies(ts, t) ELSE 0]

Next == \/ \E t \in Txs : Enter(t)
        \/ \E ts \in Blks : Leave(ts)

Spec == Init /\ [][Next]_bag
=============================================================================

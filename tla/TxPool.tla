------------------------------- MODULE TxPool -------------------------------
(***************************************************************************)
(* The transaction pool of the miner (BrunoCoin/pkg/miner/tx_pool.go) and  *)
(* the choice of the transactions to mine (mining_pool.go).  Add and       *)
(* ChkTxs hold the pool's mutex, so each is one step.                      *)
(***************************************************************************)
EXTENDS TxHeap, FiniteSetsExt, Functions

CONSTANTS Txs,   \* hashes of transactions
          Fee,   \* transaction -> sum of its inputs less sum of its outputs
          Sz,    \* transaction -> its size in bytes
          Blks,  \* the transaction lists of the blocks that may arrive
          Cap,   \* TxPCap: the most transactions that the pool holds
          BlkSz, \* the size that a block must stay under
          Word   \* number of values of a uint32: 2^32, smaller in the models

ASSUME PoolAssumption ==
    /\ Fee \in [Txs -> Nat] /\ Sz \in [Txs -> Nat]
    /\ Blks \subseteq Seq(Txs)
    /\ BlkSz \in Nat /\ Word \in Nat /\ Cap \in 0 .. Word - 1

VARIABLES txQ,     \* the heap
          curPri,  \* the cumulative priority, a uint32
          ct       \* the number of transactions, a uint32

poolVars == <<txQ, curPri, ct>>

\* CalcPri: at least 1, with a product that may wrap.
CalcPri(t) == IF Sz[t] = 0 THEN 1
              ELSE LET pri == ((Fee[t] * 100) % Word) \div Sz[t]
                   IN  IF pri = 0 THEN 1 ELSE pri

Init == txQ = NewTxHeap /\ curPri = 0 /\ ct = 0

\* Mutant of Add: the capacity is not tested.
AddUncapped(t) ==
    /\ curPri' = (curPri + CalcPri(t)) % Word
    /\ ct' = (ct + 1) % Word
    /\ txQ' = HeapAdd(txQ, CalcPri(t), t)

\* Add: a full pool drops the transaction.  There is no test for a copy.
Add(t) ==
    /\ ct < Cap
    /\ curPri' = (curPri + CalcPri(t)) % Word
    /\ ct' = (ct + 1) % Word
    /\ txQ' = HeapAdd(txQ, CalcPri(t), t)

SumPri(ts) == SumFunction([i \in DOMAIN ts |-> CalcPri(ts[i])])

\* Mutant of ChkTxs: all transactions of the block are subtracted, in the
\* pool or not.
ChkTxsAll(remover) ==
    /\ txQ' = Rmv(txQ, remover)
    /\ curPri' = (curPri - SumPri(remover)) % Word
    /\ ct' = (ct - Len(remover)) % Word

\* ChkTxs: what Rmv found is subtracted from the two counters.
ChkTxs(remover) ==
    LET rmvTxs == Removed(txQ, remover)
    IN  /\ txQ' = Rmv(txQ, remover)
        /\ curPri' = (curPri - SumPri(rmvTxs)) % Word
        /\ ct' = (ct - Len(rmvTxs)) % Word

Next == \/ \E t \in Txs : Add(t)
        \/ \E ts \in Blks : ChkTxs(ts)

Spec == Init /\ [][Next]_poolVars

Sizes(h) == [i \in DOMAIN h |-> Sz[h[i].T]]

\* Mutant of NewMiningPool: the array is read from its end.
NewMiningPoolLast ==
    LET m == Len(txQ)
        SizeFrom(i) == 100 + SumFunctionOnSet(Sizes(txQ), i .. m)
        n == Min({m + 1} \cup {i \in DOMAIN txQ : \A j \in i .. m : SizeFrom(j) < BlkSz})
    IN  SubSeq(txQ, n, m)

\* NewMiningPool reads the ARRAY of the heap from its start and stops at the
\* first transaction that does not fit; 100 bytes are for the coinbase.
NewMiningPool ==
    LET SizeUpTo(i) == 100 + SumFunctionOnSet(Sizes(txQ), 1 .. i)
        n == Max({0} \cup {i \in DOMAIN txQ : \A j \in 1 .. i : SizeUpTo(j) < BlkSz})
    IN  SubSeq(txQ, 1, n)
-----------------------------------------------------------------------------
TypeOK == /\ txQ \in Seq([P : Nat, T : Txs])
          /\ curPri \in 0 .. Word - 1
          /\ ct \in 0 .. Word - 1

\* heap.Push and the single heap.Init at the end of Rmv keep the array a heap.
HeapOrder == IsHeap(txQ)

\* The counters that Add and ChkTxs keep beside the heap agree with it, copies
\* of a transaction included: PriMet reads curPri and nothing else.
CountersAgree == /\ ct = Len(txQ)
                 /\ curPri = SumFunction([i \in DOMAIN txQ |-> txQ[i].P]) % Word

\* Whatever the order of its array, the pool behaves as a bag of at most Cap
\* transactions from which a block takes one copy of each of its own.
Bag == INSTANCE PoolBag WITH bag <- [t \in Txs |-> Count(txQ, t)]
ImplementsBag == Bag!Spec

\* The array is not sorted, yet the transactions that the miner takes from its
\* start stay under the size of a block and include one of the highest
\* priority that is in the pool.
TopIsMined ==
    LET chosen == NewMiningPool
    IN  chosen # <<>> => /\ 100 + SumFunction(Sizes(chosen)) < BlkSz
                         /\ \E i \in DOMAIN chosen : \A j \in DOMAIN txQ :
                               chosen[i].P >= txQ[j].P

=============================================================================

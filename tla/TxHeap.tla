------------------------------- MODULE TxHeap -------------------------------
(***************************************************************************)
(* The array max-heap of transactions (BrunoCoin/pkg/block/tx/tx_heap.go)  *)
(* that the miner's pool and the wallet's liminal transactions use.  A     *)
(* heap is a sequence of nodes [P, T]: a priority and the hash of a        *)
(* transaction.  Positions count from 1, so the parent of position i is    *)
(* i \div 2.  Up, Down and HeapInit are those of Go's container/heap.      *)
(***************************************************************************)
EXTENDS Integers, Sequences, FiniteSets, SequencesExt

Less(h, i, j) == h[i].P > h[j].P

Swap(h, i, j) == [h EXCEPT ![i] = h[j], ![j] = h[i]]

\* A round of heap.up: the node at s.i trades places with its parent, or stays.
UpStep(s) == IF s.i = 1 \/ ~Less(s.h, s.i, s.i \div 2) THEN s
             ELSE [h |-> Swap(s.h, s.i, s.i \div 2), i |-> s.i \div 2]

\* One round for each node of the heap is enough; the rest change nothing.
Up(h, j) == FoldLeft(LAMBDA s, n : UpStep(s), [h |-> h, i |-> j], h).h

\* The child that heap.down compares with: the right one if it is larger.
Child(h, i) == IF 2 * i + 1 <= Len(h) /\ Less(h, 2 * i + 1, 2 * i)
               THEN 2 * i + 1 ELSE 2 * i

DownStep(s) == IF 2 * s.i > Len(s.h) \/ ~Less(s.h, Child(s.h, s.i), s.i) THEN s
               ELSE [h |-> Swap(s.h, s.i, Child(s.h, s.i)), i |-> Child(s.h, s.i)]

Down(h, j) == FoldLeft(LAMBDA s, n : DownStep(s), [h |-> h, i |-> j], h).h

\* From the last parent to the root.
HeapInit(h) == FoldRight(LAMBDA i, g : Down(g, i), [i \in 1 .. Len(h) \div 2 |-> i], h)

NewTxHeap == <<>>

\* Heap.Add: append the node, then sift it up.
HeapAdd(h, p, t) == Up(Append(h, [P |-> p, T |-> t]), Len(h) + 1)

IncAll(h) == FoldLeftDomain(LAMBDA g, i : [g EXCEPT ![i].P = @ + 1], h, h)

Has(h, t) == \E i \in DOMAIN h : h[i].T = t

\* GetIndex: the first position that holds t.
GetIndex(h, t) == CHOOSE i \in DOMAIN h :
                    /\ h[i].T = t
                    /\ \A j \in 1 .. i - 1 : h[j].T # t

\* One round of the loop of Rmv: ONE node that holds t trades places with the
\* last node and is cut off.
RmvOne(h, t) == IF Has(h, t)
                THEN SubSeq(Swap(h, GetIndex(h, t), Len(h)), 1, Len(h) - 1)
                ELSE h

\* The loop: the array, and the elements of ts that were found, in order.
RmvStep(acc, t) == IF Has(acc.h, t)
                   THEN [h |-> RmvOne(acc.h, t), r |-> Append(acc.r, t)] ELSE acc
RmvLoop(h, ts) == FoldLeft(RmvStep, [h |-> h, r |-> <<>>], ts)

\* Mutant of Rmv: the array is not ordered again.
RmvUnordered(h, ts) == RmvLoop(h, ts).h

\* The array after Rmv, ordered again once at the end, and what Rmv returns.
Rmv(h, ts) == HeapInit(RmvLoop(h, ts).h)
Removed(h, ts) == RmvLoop(h, ts).r

\* RemAbv: the transactions with at least the given priority, in array order.
Above(h, thresh) ==
    FoldLeft(LAMBDA rem, n : IF n.P >= thresh THEN Append(rem, n.T) ELSE rem, <<>>, h)
RemAbv(h, thresh) == Rmv(h, Above(h, thresh))
-----------------------------------------------------------------------------
\* The heap order: no node has a larger priority than its parent.
IsHeap(h) == \A i \in 2 .. Len(h) : ~Less(h, i, i \div 2)

\* How often t is in the heap.
Count(h, t) == Cardinality({i \in DOMAIN h : h[i].T = t})
=============================================================================

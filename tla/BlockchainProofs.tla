-------------------------- MODULE BlockchainProofs --------------------------
(***************************************************************************)
(* Proofs about the block tree, for every universe of blocks and           *)
(* transactions and every order of additions, repeated ones included.      *)
(***************************************************************************)
EXTENDS ChainHistory, FiniteSetTheorems, TLAPS

\* The steps of three loops: of List along PrevNode, and of the reference
\* definition over the transactions of a block and the blocks of a chain.
PrevOf(nodes, b) == nodes[b].prev
TxOn(t, U) == AfterTx(U, t)
BlockOn(b, U) == AfterBlock(U, b)

Walk == INSTANCE FoldFacts WITH Op <- PrevOf
TxLoop == INSTANCE FoldFacts WITH Op <- TxOn
BlkLoop == INSTANCE FoldFacts WITH Op <- BlockOn

\* What a step may disturb, in one inductive invariant.
IInv == TypeOK /\ TreeRooted /\ LongestChain /\ Provenance

\* A transaction only creates outputs that have a locator.
LEMMA CreatesLocators == \A b \in Blocks : CreatedBy(b) \subseteq Locators
<1> SUFFICES ASSUME NEW b \in Blocks, NEW k \in DOMAIN Transactions[b]
             PROVE  Creates(Transactions[b][k]) \subseteq Locators
  BY DEF CreatedBy
<1> DEFINE t == Transactions[b][k]
<1>1. t \in Txs
  BY UniverseAssumption
<1>2. DOMAIN Outputs[t] \subseteq Nat \ {0}
  BY <1>1, UniverseAssumption
<1> QED
  BY <1>1, <1>2 DEF Creates, Locators

\* The loops of Add leave outputs that were there or that the block creates.
LEMMA ApplyTxsBound ==
    ASSUME NEW U, NEW b \in Blocks
    PROVE  ApplyTxs(U, Transactions[b]) \subseteq U \cup CreatedBy(b)
BY DEF ApplyTxs, CreatedBy

\* Init establishes the invariant: the tree is the genesis block, and its
\* first output is the only unspent one.
LEMMA InitIInv == Init => IInv
<1> SUFFICES ASSUME Init PROVE IInv
  OBVIOUS
<1>1. TypeOK
  <2>1. utxo \subseteq Locators
    BY CreatesLocators, UniverseAssumption DEF Init
  <2> QED
    BY <2>1, UniverseAssumption DEF Init, TypeOK, Stored
<1>2. TreeRooted /\ LongestChain
  BY DEF Init, TreeRooted, LongestChain, Stored, Depth
<1>3. Provenance
  BY DEF Init, Provenance, Stored
<1> QED
  BY <1>1, <1>2, <1>3 DEF IInv

\* The node that Add stores under b: its depth, and all the others as before.
LEMMA AddNodeTree ==
    ASSUME IInv, NEW b \in Blocks, AddNode(b)
    PROVE  /\ DOMAIN blocks' = Stored \cup {b}
           /\ blocks'[b] = NewNode(b)
           /\ NewNode(b).depth \in Nat
           /\ NewNode(b).depth = Depth(PrvBlkHsh[b]) + 1
           /\ \A x \in Stored : blocks'[x] = blocks[x]
<1>1. DOMAIN blocks' = Stored \cup {b} /\ blocks'[b] = NewNode(b)
  BY DEF AddNode
<1>2. NewNode(b).depth = Depth(PrvBlkHsh[b]) + 1 /\ NewNode(b).depth \in Nat
  BY DEF IInv, TypeOK, NewNode, Depth, AddNode, Stored
<1>3. ASSUME NEW x \in Stored PROVE blocks'[x] = blocks[x]
  <2>1. CASE x # b
    BY <2>1 DEF AddNode
  <2>2. CASE x = b
    <3>1. b # Genesis
      BY GenesisAssumption DEF IInv, TypeOK, AddNode, Stored
    <3>2. blocks[b].prev = PrvBlkHsh[b] /\ blocks[b].depth = Depth(PrvBlkHsh[b]) + 1
      BY <3>1, <2>2 DEF IInv, TreeRooted, Depth
    <3> QED
      BY <1>1, <2>2, <3>2 DEF NewNode, IInv, TypeOK
  <2> QED
    BY <2>1, <2>2
<1> QED
  BY <1>1, <1>2, <1>3

\* Adding a block keeps the invariant.
LEMMA AddNodeIInv == ASSUME IInv, NEW b \in Blocks, AddNode(b) PROVE IInv'
<1> USE AddNodeTree
<1>1. lastBlock' \in Stored \cup {b}
  BY DEF AddNode, NewLast, IInv, TypeOK
<1>2. TypeOK'
  <2>1. blocks' \in [Stored' -> [prev : {PrvBlkHsh[x] : x \in Blocks}, depth : Nat]]
    BY DEF AddNode, NewNode, Stored, IInv, TypeOK
  <2>2. Stored' \subseteq Blocks /\ lastBlock' \in Stored'
    BY <1>1 DEF Stored, IInv, TypeOK
  <2>3. utxo' \subseteq Locators
    BY ApplyTxsBound, CreatesLocators DEF AddNode, IInv, TypeOK
  <2>4. liminal' \subseteq Locators /\ alive' \in BOOLEAN
    BY DEF AddNode, IInv, TypeOK
  <2> QED
    BY <2>1, <2>2, <2>3, <2>4 DEF TypeOK
<1>3. TreeRooted'
  <2>1. /\ Genesis \in Stored /\ Depth(Genesis) = 0
        /\ PrvBlkHsh[b] \in Stored
        /\ Stored' = Stored \cup {b}
    BY DEF IInv, TreeRooted, AddNode, Stored
  <2>2. Genesis \in Stored' /\ Depth(Genesis)' = 0
    BY <2>1 DEF Depth
  <2>3. ASSUME NEW x \in Stored' \ {Genesis}
        PROVE  /\ blocks'[x].prev = PrvBlkHsh[x]
               /\ PrvBlkHsh[x] \in Stored'
               /\ blocks'[x].depth = blocks'[PrvBlkHsh[x]].depth + 1
    <3>1. CASE x \in Stored
      <4>1. /\ blocks[x].prev = PrvBlkHsh[x]
            /\ PrvBlkHsh[x] \in Stored
            /\ blocks[x].depth = blocks[PrvBlkHsh[x]].depth + 1
        BY <3>1, <2>3 DEF IInv, TreeRooted, Depth
      <4> QED
        BY <3>1, <4>1, <2>1
    <3>2. CASE x = b
      <4>1. blocks'[b] = NewNode(b) /\ blocks'[PrvBlkHsh[b]] = blocks[PrvBlkHsh[b]]
        BY <2>1
      <4>2. /\ NewNode(b).prev = PrvBlkHsh[b]
            /\ NewNode(b).depth = blocks[PrvBlkHsh[b]].depth + 1
        BY DEF NewNode, Depth
      <4> QED
        BY <3>2, <2>1, <4>1, <4>2
    <3> QED
      BY <3>1, <3>2, <2>1
  <2> QED
    BY <2>2, <2>3 DEF TreeRooted, Depth
<1>4. LongestChain'
  <2>1. /\ \A x \in Stored : Depth(x) \in Nat /\ Depth(x) <= Depth(lastBlock)
        /\ lastBlock \in Stored
    BY DEF IInv, TypeOK, LongestChain, Depth
  <2>2. /\ Stored' = Stored \cup {b}
        /\ \A x \in Stored : Depth(x)' = Depth(x)
        /\ Depth(b)' = NewNode(b).depth
        /\ NewNode(b).depth \in Nat
    BY DEF Stored, Depth
  <2>3. CASE NewNode(b).depth > Depth(lastBlock)
    <3>1. Depth(lastBlock)' = NewNode(b).depth
      BY <2>3, <2>2 DEF AddNode, NewLast, Depth
    <3>2. \A x \in Stored' : Depth(x)' <= Depth(lastBlock)'
      BY <2>1, <2>2, <2>3, <3>1
    <3> QED
      BY <3>2 DEF LongestChain, Depth
  <2>4. CASE ~(NewNode(b).depth > Depth(lastBlock))
    <3>1. Depth(lastBlock)' = Depth(lastBlock)
      BY <2>4, <2>1, <2>2 DEF AddNode, NewLast, Depth
    <3>2. \A x \in Stored' : Depth(x)' <= Depth(lastBlock)'
      BY <2>1, <2>2, <2>4, <3>1
    <3> QED
      BY <3>2 DEF LongestChain, Depth
  <2> QED
    BY <2>3, <2>4
<1>5. Provenance'
  BY ApplyTxsBound DEF Provenance, Stored, AddNode, IInv
<1> QED
  BY <1>2, <1>3, <1>4, <1>5 DEF IInv

\* Only Add changes the tree or the keys of the map.
LEMMA OtherIInv ==
    ASSUME IInv, UNCHANGED <<blocks, lastBlock, utxo>>,
           liminal' \subseteq Locators, alive' \in BOOLEAN
    PROVE  IInv'
BY DEF IInv, TypeOK, TreeRooted, LongestChain, Provenance, Stored, Depth

\* Every step of Next keeps the invariant: one case per operation.
LEMMA NextIInv == IInv /\ [Next]_bcVars => IInv'
<1> SUFFICES ASSUME IInv, [Next]_bcVars PROVE IInv'
  OBVIOUS
<1>1. liminal \subseteq Locators /\ utxo \subseteq Locators /\ alive \in BOOLEAN
  BY DEF IInv, TypeOK
<1>2. ASSUME NEW b \in Blocks, AddNode(b) PROVE IInv'
  BY <1>2, AddNodeIInv
<1>3. ASSUME NEW b \in Blocks, AddOrphan(b) PROVE IInv'
  BY <1>1, <1>3, OtherIInv DEF AddOrphan
<1>4. ASSUME NEW amt \in Amounts, NEW pk \in PubKeys,
             NEW S \in SUBSET Spendable(pk), TakeUTXO(amt, pk, S)
      PROVE  IInv'
  BY <1>1, <1>4, OtherIInv DEF TakeUTXO, Spendable
<1>5. ASSUME NEW amt \in Amounts, NEW pk \in PubKeys, TakeUTXOFails(amt, pk)
      PROVE  IInv'
  BY <1>1, <1>5, OtherIInv DEF TakeUTXOFails, Spendable
<1>6. CASE UNCHANGED bcVars
  BY <1>1, <1>6, OtherIInv DEF bcVars
<1> QED
  BY <1>2, <1>3, <1>4, <1>5, <1>6 DEF Next, Add, GetUTXOForAmt

\* The inductive invariant holds of every behaviour of the block tree.
THEOREM Invariance == Spec => []IInv
BY InitIInv, NextIInv, PTL DEF Spec

\* Type correctness of the block tree.
THEOREM TypeCorrect == Spec => []TypeOK
BY Invariance, PTL DEF IInv

\* Add keeps the stored nodes a tree rooted at the genesis block, with every
\* depth right, so that the walks of List and Slice end at the genesis block.
THEOREM TreeIsRooted == Spec => []TreeRooted
BY Invariance, PTL DEF IInv

\* After any sequence of additions the main chain is a longest one.
THEOREM MainChainLongest == Spec => []LongestChain
BY Invariance, PTL DEF IInv

\* No output appears in the utxo map that no stored block created.
THEOREM OutputsHaveProvenance == Spec => []Provenance
BY Invariance, PTL DEF IInv

\* What a step does to LastBlock and to the stored nodes.
LEMMA StepLast ==
    ASSUME IInv, [Next]_bcVars
    PROVE  /\ lastBlock' # lastBlock => blocks'[lastBlock'].depth = Depth(lastBlock) + 1
           /\ \A b \in Stored : b \in DOMAIN blocks' /\ blocks'[b] = blocks[b]
<1>1. ASSUME NEW b \in Blocks, AddNode(b)
      PROVE  /\ lastBlock' # lastBlock => blocks'[lastBlock'].depth = Depth(lastBlock) + 1
             /\ \A x \in Stored : x \in DOMAIN blocks' /\ blocks'[x] = blocks[x]
  <2>1. ASSUME lastBlock' # lastBlock
        PROVE  blocks'[lastBlock'].depth = Depth(lastBlock) + 1
    <3>1. lastBlock' = b /\ NewNode(b).depth > Depth(lastBlock)
      BY <1>1, <2>1 DEF AddNode, NewLast
    <3>2. Depth(PrvBlkHsh[b]) <= Depth(lastBlock)
      BY <1>1 DEF AddNode, IInv, LongestChain
    <3>3. Depth(PrvBlkHsh[b]) \in Nat /\ Depth(lastBlock) \in Nat
      BY <1>1 DEF AddNode, IInv, TypeOK, Depth
    <3>4. /\ blocks'[lastBlock'].depth = Depth(PrvBlkHsh[b]) + 1
          /\ NewNode(b).depth = Depth(PrvBlkHsh[b]) + 1
      BY <1>1, <3>1, AddNodeTree
    <3> QED
      BY <3>1, <3>2, <3>3, <3>4
  <2> QED
    BY <1>1, <2>1, AddNodeTree
<1>2. CASE UNCHANGED <<blocks, lastBlock>>
  BY <1>2 DEF Stored
<1> QED
  BY <1>1, <1>2 DEF Next, Add, AddOrphan, GetUTXOForAmt, TakeUTXO, TakeUTXOFails, bcVars

\* LastBlock is only ever replaced by a block one deeper.
THEOREM LastBlockGrows == Spec => FirstSeenWins
<1>1. IInv /\ [Next]_bcVars =>
        [lastBlock' # lastBlock => blocks'[lastBlock'].depth = Depth(lastBlock) + 1]_bcVars
  BY StepLast
<1> QED
  BY <1>1, Invariance, PTL DEF Spec, FirstSeenWins

\* A stored node is never dropped and never changes, not even when its block
\* is added again.
THEOREM NodesStay == Spec => AppendOnly
<1>1. IInv /\ [Next]_bcVars =>
        [\A b \in Stored : b \in DOMAIN blocks' /\ blocks'[b] = blocks[b]]_bcVars
  BY StepLast
<1> QED
  BY <1>1, Invariance, PTL DEF Spec, AppendOnly
-----------------------------------------------------------------------------
(* The main chain *)

\* c is the walk of List: from LastBlock back to index 0, one PrevNode at a time.
IsWalk(c) == /\ c = [i \in 0 .. Depth(lastBlock) |-> c[i]]
             /\ c[Depth(lastBlock)] = lastBlock
             /\ \A i \in 1 .. Depth(lastBlock) : c[i - 1] = blocks[c[i]].prev

\* The walk of List is defined, and has the stored node of depth i at index i.
LEMMA MainIsWalk ==
    ASSUME IInv
    PROVE  /\ Depth(lastBlock) \in Nat
           /\ IsWalk(Main)
           /\ \A i \in 0 .. Depth(lastBlock) : Main[i] \in Stored /\ Depth(Main[i]) = i
<1> DEFINE d == Depth(lastBlock)
<1>0. d \in Nat /\ lastBlock \in Stored
  BY DEF IInv, TypeOK, Depth
<1> DEFINE w == Walk!WalkDown(d, blocks, lastBlock)
<1>1. Main = w
  BY DEF Main, Walk!WalkDown, PrevOf
<1>2. IsWalk(w)
  <2>1. Walk!IsWalkDown(w, d, blocks, lastBlock)
    <3> HIDE DEF d
    <3> QED BY <1>0, Walk!WalkIsDefined
  <2> HIDE DEF w
  <2> QED BY <2>1 DEF Walk!IsWalkDown, PrevOf, IsWalk
<1> HIDE DEF w
<1>3. \A i \in 0 .. d : w[i] \in Stored /\ Depth(w[i]) = i
  <2> DEFINE S == {i \in 0 .. d : w[i] \in Stored /\ Depth(w[i]) = i}
  <2>1. d \in S
    BY <1>0, <1>2 DEF IsWalk
  <2>2. ASSUME NEW i \in 1 .. d, i \in S PROVE i - 1 \in S
    <3>1. w[i] \in Stored /\ Depth(w[i]) = i /\ w[i - 1] = blocks[w[i]].prev
      BY <1>2, <2>2 DEF IsWalk
    <3>2. w[i] # Genesis
      BY <3>1, <1>0 DEF IInv, TreeRooted
    <3>3. w[i - 1] \in Stored /\ Depth(w[i]) = Depth(w[i - 1]) + 1
      BY <3>1, <3>2 DEF IInv, TreeRooted
    <3>4. Depth(w[i - 1]) \in Nat
      BY <3>3 DEF IInv, TypeOK, Depth
    <3>5. Depth(w[i - 1]) = i - 1 /\ i - 1 \in 0 .. d
      BY <1>0, <3>1, <3>3, <3>4
    <3> QED BY <3>3, <3>5
  <2> HIDE DEF S
  <2>3. 0 .. d \subseteq S
    BY <1>0, <2>1, <2>2, Walk!DownInduction
  <2> QED BY <2>3 DEF S
<1> QED BY <1>0, <1>1, <1>2, <1>3

\* Two walks from the same block at the same depth are equal.
LEMMA WalkUnique ==
    ASSUME NEW nodes, NEW n \in Nat, NEW c, NEW e, c[n] = e[n],
           \A i \in 1 .. n : c[i - 1] = nodes[c[i]].prev,
           \A i \in 1 .. n : e[i - 1] = nodes[e[i]].prev
    PROVE  \A i \in 0 .. n : c[i] = e[i]
<1> DEFINE S == {i \in 0 .. n : c[i] = e[i]}
<1>1. n \in S
  OBVIOUS
<1>2. ASSUME NEW i \in 1 .. n, i \in S PROVE i - 1 \in S
  <2>1. i - 1 \in 0 .. n /\ c[i] = e[i]
    BY <1>2
  <2>2. c[i - 1] = nodes[c[i]].prev /\ e[i - 1] = nodes[e[i]].prev
    OBVIOUS
  <2> QED BY <2>1, <2>2
<1>3. 0 .. n \subseteq S
  <2> HIDE DEF S
  <2> QED BY <1>1, <1>2, Walk!DownInduction
<1> QED BY <1>3
-----------------------------------------------------------------------------
(* The map of a line of blocks *)

\* The two loops of Add do to the map what the transactions do one at a time.
LEMMA AddIsFold ==
    ASSUME NEW U, NEW b \in Blocks
    PROVE  AfterBlock(U, b) = ApplyTxs(U, Transactions[b])
<1> DEFINE txs == Transactions[b]
           A(i) == {l \in U : \A k \in 1 .. i : l \notin Spends(txs[k])}
                   \cup UNION {{l \in Creates(txs[k]) : \A j \in 1 .. i :
                                   j > k => l \notin Spends(txs[j])} : k \in 1 .. i}
<1>0. txs \in Seq(Txs) /\ Len(txs) \in Nat /\ DOMAIN txs = 1 .. Len(txs)
  BY UniverseAssumption
<1>1. PICK g : TxLoop!LeftRounds(g, txs, U)
  <2> HIDE DEF txs
  <2> QED BY <1>0, TxLoop!FoldLeftRounds
<1>2. AfterBlock(U, b) = g[Len(txs)]
  <2>1. AfterBlock(U, b) = TxLoop!LeftFold(txs, U)
    BY DEF AfterBlock, TxOn, FoldLeft, MapThenFoldSet, Max, TxLoop!LeftFold, TxLoop!FoldLeft,
           TxLoop!MapThenFoldSet, TxLoop!Max
  <2> QED BY <1>1, <2>1 DEF TxLoop!LeftRounds
<1> HIDE DEF txs
<1> DEFINE S == {i \in Nat : i <= Len(txs) => g[i] = A(i)}
<1>3. 0 \in S
  <2>1. 1 .. 0 = {}
    OBVIOUS
  <2>2. A(0) = U
    BY <2>1
  <2> QED BY <1>1, <2>2 DEF TxLoop!LeftRounds
<1>4. ASSUME NEW i \in Nat, i \in S PROVE i + 1 \in S
  <2> SUFFICES ASSUME i + 1 <= Len(txs) PROVE g[i + 1] = A(i + 1)
    OBVIOUS
  <2>1. g[i + 1] = (A(i) \ Spends(txs[i + 1])) \cup Creates(txs[i + 1])
    <3>1. i + 1 \in 1 .. Len(txs) /\ (i + 1) - 1 = i /\ g[i] = A(i)
      BY <1>0, <1>4
    <3>2. g[i + 1] = TxOn(txs[i + 1], g[(i + 1) - 1])
      BY <1>1, <3>1 DEF TxLoop!LeftRounds
    <3> HIDE DEF A
    <3> QED BY <3>1, <3>2 DEF TxOn, AfterTx
  <2>2. 1 .. i + 1 = (1 .. i) \cup {i + 1} /\ \A k \in 1 .. i : ~ (i + 1 < k) /\ i + 1 > k
    OBVIOUS
  <2>3. A(i + 1) = (A(i) \ Spends(txs[i + 1])) \cup Creates(txs[i + 1])
    <3>1. {l \in U : \A k \in 1 .. i + 1 : l \notin Spends(txs[k])}
          = {l \in U : \A k \in 1 .. i : l \notin Spends(txs[k])} \ Spends(txs[i + 1])
      BY <2>2
    <3> DEFINE C(n, k) == {l \in Creates(txs[k]) : \A j \in 1 .. n :
                               j > k => l \notin Spends(txs[j])}
    <3>2. ASSUME NEW k \in 1 .. i PROVE C(i + 1, k) = C(i, k) \ Spends(txs[i + 1])
      BY <2>2
    <3>3. C(i + 1, i + 1) = Creates(txs[i + 1])
      OBVIOUS
    <3>4. UNION {C(i + 1, k) : k \in 1 .. i + 1}
          = ((UNION {C(i, k) : k \in 1 .. i}) \ Spends(txs[i + 1])) \cup Creates(txs[i + 1])
      <4>1. UNION {C(i + 1, k) : k \in 1 .. i + 1}
            = (UNION {C(i + 1, k) : k \in 1 .. i}) \cup C(i + 1, i + 1)
        <5> HIDE DEF C
        <5> QED BY <2>2
      <4>2. UNION {C(i + 1, k) : k \in 1 .. i}
            = (UNION {C(i, k) : k \in 1 .. i}) \ Spends(txs[i + 1])
        <5> HIDE DEF C
        <5> QED BY <3>2
      <4> HIDE DEF C
      <4> QED BY <3>3, <4>1, <4>2
    <3> HIDE DEF C
    <3> QED BY <3>1, <3>4 DEF C
  <2> HIDE DEF A
  <2> QED BY <2>1, <2>3
<1>5. Nat \subseteq S
  <2> HIDE DEF S
  <2> QED BY <1>3, <1>4, TxLoop!SetInduction
<1>6. g[Len(txs)] = A(Len(txs))
  <2> HIDE DEF A
  <2> QED BY <1>0, <1>5
<1>7. A(Len(txs)) = ApplyTxs(U, txs)
  BY <1>0 DEF ApplyTxs
<1> QED BY <1>2, <1>6, <1>7 DEF txs

\* One more block on a chain.
LEMMA ChainGrows ==
    ASSUME NEW s \in Seq(Blocks), NEW b \in Blocks
    PROVE  /\ ChainUTXO(Append(s, b)) = ApplyTxs(ChainUTXO(s), Transactions[b])
           /\ ChainUTXO(<<>>) = {}
<1> DEFINE t == Append(s, b)
<1>0. \A x \in Seq(Blocks) : ChainUTXO(x) = BlkLoop!LeftFold(x, {})
  BY DEF ChainUTXO, BlockOn, FoldLeft, MapThenFoldSet, Max, BlkLoop!LeftFold, BlkLoop!FoldLeft,
         BlkLoop!MapThenFoldSet, BlkLoop!Max
<1>1. t \in Seq(Blocks) /\ Len(t) = Len(s) + 1 /\ Len(s) \in Nat
      /\ (\A i \in 1 .. Len(s) : s[i] = t[i]) /\ t[Len(s) + 1] = b
  OBVIOUS
<1> HIDE DEF t
<1>2. PICK g : BlkLoop!LeftRounds(g, s, {})
  BY BlkLoop!FoldLeftRounds
<1>3. PICK h : BlkLoop!LeftRounds(h, t, {})
  BY <1>1, BlkLoop!FoldLeftRounds
<1>4. g[Len(s)] = h[Len(s)]
  <2>1. Len(s) <= Len(s) /\ Len(s) <= Len(t)
    BY <1>1
  <2> QED BY <1>1, <1>2, <1>3, <2>1, BlkLoop!LeftAgree
<1>5. h[Len(t)] = AfterBlock(h[Len(s)], b)
  <2>1. Len(t) \in 1 .. Len(t) /\ Len(t) - 1 = Len(s) /\ t[Len(t)] = b
    BY <1>1
  <2>2. h[Len(t)] = BlockOn(t[Len(t)], h[Len(t) - 1])
    BY <1>3, <2>1 DEF BlkLoop!LeftRounds
  <2> QED BY <2>1, <2>2 DEF BlockOn
<1>6. ChainUTXO(s) = g[Len(s)] /\ ChainUTXO(t) = h[Len(t)]
  BY <1>0, <1>1, <1>2, <1>3 DEF BlkLoop!LeftRounds
<1>7. ChainUTXO(<<>>) = {}
  <2>1. <<>> \in Seq(Blocks) /\ Len(<<>>) = 0
    OBVIOUS
  <2>2. PICK e : BlkLoop!LeftRounds(e, <<>>, {})
    BY <2>1, BlkLoop!FoldLeftRounds
  <2> QED BY <1>0, <2>1, <2>2 DEF BlkLoop!LeftRounds
<1> QED BY <1>4, <1>5, <1>6, <1>7, AddIsFold DEF t

\* List is the walk, shifted by one.
LEMMA ListOfMain ==
    ASSUME IInv
    PROVE  /\ List \in Seq(Blocks) /\ Len(List) = Depth(lastBlock) + 1
           /\ \A i \in 1 .. Depth(lastBlock) + 1 : List[i] = Main[i - 1]
           /\ Range(List) = {Main[i] : i \in 0 .. Depth(lastBlock)}
<1>1. Depth(lastBlock) \in Nat /\ \A i \in 0 .. Depth(lastBlock) : Main[i] \in Stored
  BY MainIsWalk
<1>2. Stored \subseteq Blocks
  BY DEF IInv, TypeOK
<1>3. List = [i \in 1 .. Depth(lastBlock) + 1 |-> Main[i - 1]]
  BY DEF List, Length
<1>4. \A i \in 1 .. Depth(lastBlock) + 1 : i - 1 \in 0 .. Depth(lastBlock)
  BY <1>1
<1>5. List \in Seq(Blocks) /\ Len(List) = Depth(lastBlock) + 1
  BY <1>1, <1>2, <1>3, <1>4
<1>6. \A i \in 0 .. Depth(lastBlock) : i + 1 \in 1 .. Depth(lastBlock) + 1 /\ (i + 1) - 1 = i
  BY <1>1
<1>7. Range(List) = {Main[i] : i \in 0 .. Depth(lastBlock)}
  BY <1>3, <1>4, <1>6 DEF Range
<1> QED BY <1>3, <1>5, <1>7

\* What the walk and List are, in the present state and in the next one.
Walked == /\ Depth(lastBlock) \in Nat
          /\ IsWalk(Main)
          /\ \A i \in 0 .. Depth(lastBlock) : Main[i] \in Stored /\ Depth(Main[i]) = i
          /\ List \in Seq(Blocks) /\ Len(List) = Depth(lastBlock) + 1
          /\ \A i \in 1 .. Depth(lastBlock) + 1 : List[i] = Main[i - 1]
          /\ Range(List) = {Main[i] : i \in 0 .. Depth(lastBlock)}

LEMMA AlwaysWalked == (IInv => Walked) /\ (IInv' => Walked')
<1>1. IInv => Walked
  BY MainIsWalk, ListOfMain DEF Walked
<1> QED BY <1>1, PTL

\* A new block that leaves one line of blocks is the end of that line.
LEMMA LineGrows ==
    ASSUME IInv, NEW b \in Blocks, AddNode(b), b \notin Stored, Stored' = Range(List')
    PROVE  Stored = Range(List) /\ List' = Append(List, b)
<1> DEFINE d == Depth(lastBlock)
           e == Depth(lastBlock)'
           w == Main
           v == Main'
           nodes == blocks'
           last == lastBlock'
<1>1. IInv' /\ Walked /\ Walked'
  BY AddNodeIInv, AlwaysWalked
<1>2. /\ d \in Nat /\ w[d] = lastBlock
      /\ \A i \in 1 .. d : w[i - 1] = blocks[w[i]].prev
      /\ \A i \in 0 .. d : w[i] \in Stored /\ Depth(w[i]) = i
      /\ Range(List) = {w[i] : i \in 0 .. d}
  BY <1>1 DEF Walked, IsWalk
<1>3. /\ e \in Nat /\ v[e] = last
      /\ \A i \in 1 .. e : v[i - 1] = nodes[v[i]].prev
      /\ \A i \in 0 .. e : v[i] \in Stored' /\ nodes[v[i]].depth = i
      /\ Stored' = {v[i] : i \in 0 .. e}
  BY <1>1 DEF Walked, IsWalk, Depth
<1>4. /\ Stored' = Stored \cup {b} /\ nodes[b].depth \in Nat /\ nodes[b] = NewNode(b)
      /\ \A x \in Stored : nodes[x] = blocks[x]
  BY AddNodeTree DEF Stored
<1>5. e = nodes[last].depth
  BY DEF Depth
<1>6. lastBlock \in Stored
  BY DEF IInv, TypeOK
<1> HIDE DEF d, e, w, v, nodes, last
<1>7. ASSUME d <= e, v[d] = lastBlock PROVE \A i \in 0 .. d : v[i] = w[i]
  <2>1. \A i \in 1 .. d : w[i - 1] = nodes[w[i]].prev
    BY <1>2, <1>4
  <2>2. \A i \in 1 .. d : v[i - 1] = nodes[v[i]].prev
    BY <1>2, <1>3, <1>7
  <2>3. v[d] = w[d] /\ d \in Nat
    BY <1>2, <1>7
  <2> QED BY <2>1, <2>2, <2>3, WalkUnique, SMTT(30)
<1>8. last = b /\ e = d + 1
  <2>1. CASE last = lastBlock
    <3>1. e = d
      BY <1>4, <1>5, <1>6, <2>1 DEF Depth, d
    <3>2. \A i \in 0 .. e : v[i] \in Stored
      BY <1>2, <1>3, <1>7, <2>1, <3>1
    <3> QED BY <1>3, <1>4, <3>2
  <2>2. CASE last # lastBlock
    <3>1. last = b
      BY <2>2 DEF AddNode, NewLast, last
    <3>2. e = d + 1
      BY <2>2, <1>5, StepLast DEF Next, Add, last, nodes, d
    <3> QED BY <3>1, <3>2
  <2> QED BY <2>1, <2>2
<1>9. v[d] = lastBlock
  <2>1. PICK i \in 0 .. e : v[i] = lastBlock
    BY <1>3, <1>4, <1>6
  <2>2. i = nodes[lastBlock].depth /\ nodes[lastBlock].depth = d
    BY <1>3, <1>4, <1>6, <2>1 DEF Depth, d
  <2> QED BY <2>1, <2>2
<1>10. \A i \in 0 .. d : v[i] = w[i]
  <2>1. d <= e
    BY <1>2, <1>8
  <2> QED BY <1>7, <1>9, <2>1
<1>11. Stored = Range(List)
  <2>1. ASSUME NEW x \in Stored PROVE x \in {w[i] : i \in 0 .. d}
    <3>1. PICK i \in 0 .. e : v[i] = x
      BY <1>3, <1>4
    <3>2. i # e
      BY <1>3, <1>8, <3>1
    <3>3. i \in 0 .. d
      BY <1>2, <1>3, <1>8, <3>2
    <3> QED BY <1>10, <3>1, <3>3
  <2> QED BY <1>2, <2>1
<1>12. List' = Append(List, b)
  <2>1. /\ List \in Seq(Blocks) /\ Len(List) = d + 1
        /\ \A i \in 1 .. d + 1 : List[i] = w[i - 1]
    BY <1>1 DEF Walked, d, w
  <2>2. /\ List' \in Seq(Blocks) /\ Len(List') = e + 1
        /\ \A i \in 1 .. e + 1 : List'[i] = v[i - 1]
    BY <1>1 DEF Walked, e, v
  <2> DEFINE s == List
             t == List'
  <2> HIDE DEF s, t
  <2>3. \A i \in 1 .. e + 1 : t[i] = Append(s, b)[i]
    <3> SUFFICES ASSUME NEW i \in 1 .. e + 1 PROVE t[i] = Append(s, b)[i]
      OBVIOUS
    <3>1. CASE i = e + 1
      BY <1>2, <1>3, <1>8, <2>1, <2>2, <3>1 DEF s, t
    <3>2. CASE i # e + 1
      <4>1. i \in 1 .. d + 1 /\ i - 1 \in 0 .. d
        BY <1>2, <1>8, <3>2
      <4>2. Append(s, b)[i] = s[i] /\ t[i] = v[i - 1] /\ s[i] = w[i - 1]
        BY <1>2, <2>1, <2>2, <4>1 DEF s, t
      <4> QED BY <1>10, <4>1, <4>2
    <3> QED BY <3>1, <3>2
  <2>4. t \in Seq(Blocks) /\ Append(s, b) \in Seq(Blocks) /\ Len(t) = e + 1
        /\ Len(Append(s, b)) = e + 1
    BY <1>2, <1>8, <2>1, <2>2 DEF s, t
  <2>5. t = Append(s, b)
    BY <2>3, <2>4
  <2> QED BY <2>5 DEF s, t
<1> QED BY <1>11, <1>12

\* The first state: one block, and its only output.
LEMMA InitLine == HistInit => LineUTXO
<1> SUFFICES ASSUME HistInit PROVE utxo = ChainUTXO(List)
  BY DEF LineUTXO
<1>1. IInv /\ Walked
  BY InitIInv, AlwaysWalked DEF HistInit
<1>2. lastBlock = Genesis /\ Depth(lastBlock) = 0 /\ utxo = {l \in CreatedBy(Genesis) : l[2] = 1}
  BY DEF HistInit, Init, Depth
<1>3. List = Append(<<>>, Genesis)
  <2> DEFINE s == List
  <2>1. s \in Seq(Blocks) /\ Len(s) = 1 /\ s[1] = Genesis
    BY <1>1, <1>2 DEF Walked, IsWalk
  <2> HIDE DEF s
  <2>2. s = <<Genesis>>
    BY <2>1
  <2>3. Append(<<>>, Genesis) = <<Genesis>>
    OBVIOUS
  <2> QED BY <2>2, <2>3 DEF s
<1>4. ChainUTXO(List) = ApplyTxs({}, Transactions[Genesis])
  <2>1. <<>> \in Seq(Blocks) /\ Genesis \in Blocks
    BY UniverseAssumption
  <2> QED BY <1>3, <2>1, ChainGrows
<1>5. ApplyTxs({}, Transactions[Genesis]) = CreatedBy(Genesis)
  BY GenesisOutput DEF ApplyTxs, CreatedBy
<1> QED BY <1>2, <1>4, <1>5, GenesisOutput

\* A step of the tree is one of the tree with its history.
LEMMA HistStep == HistNext => Next
BY DEF HistNext, Next

\* Steps other than Add leave alone what List is.
LEMMA ListStays == ASSUME UNCHANGED <<blocks, lastBlock>> PROVE List' = List /\ Stored' = Stored
BY DEF List, Main, Length, Depth, Stored

LEMMA StepLine == IInv /\ LineUTXO /\ [HistNext]_<<bcVars, again>> => LineUTXO'
<1> SUFFICES ASSUME IInv, LineUTXO, [HistNext]_<<bcVars, again>>, OneLine'
             PROVE  utxo' = ChainUTXO(List')
  BY DEF LineUTXO
<1>1. ASSUME NEW b \in Blocks, AddNode(b), again' = (again \/ b \in Stored)
      PROVE  utxo' = ChainUTXO(List')
  <2>1. ~again /\ b \notin Stored /\ Stored' = Range(List')
    BY <1>1 DEF OneLine
  <2>2. Stored = Range(List) /\ List' = Append(List, b)
    BY <1>1, <2>1, LineGrows
  <2>3. utxo = ChainUTXO(List)
    BY <2>1, <2>2 DEF LineUTXO, OneLine
  <2>4. utxo' = ApplyTxs(utxo, Transactions[b])
    BY <1>1 DEF AddNode
  <2>5. List \in Seq(Blocks)
    BY AlwaysWalked DEF Walked
  <2> QED BY <2>2, <2>3, <2>4, <2>5, ChainGrows
<1>2. CASE UNCHANGED <<blocks, lastBlock, utxo>> /\ (~again' => ~again)
  <2>1. List' = List /\ Stored' = Stored
    BY <1>2, ListStays
  <2>2. OneLine
    BY <1>2, <2>1 DEF OneLine
  <2> QED BY <1>2, <2>1, <2>2 DEF LineUTXO
<1>3. ASSUME NEW b \in Blocks, AddOrphan(b), again' = (again \/ b \in Stored)
      PROVE  utxo' = ChainUTXO(List')
  BY <1>2, <1>3 DEF AddOrphan
<1>4. ASSUME NEW amt \in Amounts, NEW pk \in PubKeys, GetUTXOForAmt(amt, pk), again' = again
      PROVE  utxo' = ChainUTXO(List')
  BY <1>2, <1>4 DEF GetUTXOForAmt, TakeUTXO, TakeUTXOFails
<1>5. CASE UNCHANGED <<bcVars, again>>
  BY <1>2, <1>5 DEF bcVars
<1> QED BY <1>1, <1>3, <1>4, <1>5 DEF HistNext, Add

\* On a line of blocks, each added once, the map that Add changes in place is the
\* set of unspent outputs of the main chain, for every content of the blocks:
\* transactions that spend outputs of their own block, spend an output twice or
\* are mined twice included.
THEOREM MapOfLine == HistSpec => []LineUTXO
<1>1. HistInit => IInv
  BY InitIInv DEF HistInit
<1>2. IInv /\ [HistNext]_<<bcVars, again>> => IInv'
  BY NextIInv, HistStep DEF bcVars
<1> QED BY <1>1, <1>2, InitLine, StepLine, PTL DEF HistSpec

\* What was handed out carries the flag, and is an output of a stored block, so
\* that no later block creates it again.
Granted == (~again /\ TxsOnce) =>
    \A i \in DOMAIN grants : \A l \in grants[i] :
        l \in liminal /\ \E b \in Stored : l \in CreatedBy(b)

GrantInv == IInv /\ grants \in Seq(SUBSET Locators) /\ Granted /\ NoDoubleGrant

LEMMA StepGrant == GrantInv /\ [HistNext]_<<bcVars, again>> => GrantInv'
<1> SUFFICES ASSUME GrantInv, [HistNext]_<<bcVars, again>> PROVE GrantInv'
  OBVIOUS
<1> USE DEF GrantInv
<1>0. IInv'
  BY NextIInv, HistStep DEF bcVars
<1>1. ASSUME NEW b \in Blocks, AddNode(b), again' = (again \/ b \in Stored)
      PROVE  GrantInv'
  <2>1. grants' = grants /\ liminal' = liminal \ CreatedBy(b) /\ Stored' = Stored \cup {b}
    BY <1>1 DEF AddNode, Stored
  <2>2. ASSUME ~again', TxsOnce' PROVE ~again /\ b \notin Stored /\ TxsOnce
    BY <1>1, <2>1, <2>2 DEF TxsOnce
  <2>3. Granted'
    <3> SUFFICES ASSUME ~again', TxsOnce', NEW i \in DOMAIN grants, NEW l \in grants[i]
                 PROVE  l \in liminal' /\ \E c \in Stored' : l \in CreatedBy(c)
      BY <2>1 DEF Granted
    <3>1. PICK c \in Stored : l \in CreatedBy(c)
      BY <2>2 DEF Granted
    <3>2. l \in liminal /\ c # b
      BY <2>2 DEF Granted
    <3>3. CreatedBy(b) \cap CreatedBy(c) = {}
      BY <2>1, <3>2 DEF TxsOnce
    <3> QED BY <2>1, <3>1, <3>2, <3>3
  <2>4. NoDoubleGrant'
    BY <2>1, <2>2 DEF NoDoubleGrant
  <2> QED BY <1>0, <2>1, <2>3, <2>4
<1>2. ASSUME NEW amt \in Amounts, NEW pk \in PubKeys, NEW S \in SUBSET Spendable(pk),
             TakeUTXO(amt, pk, S), again' = again
      PROVE  GrantInv'
  <2>1. /\ grants' = Append(grants, S) /\ liminal' = liminal \cup S
        /\ UNCHANGED <<blocks, utxo>> /\ S \subseteq utxo /\ S \cap liminal = {}
    BY <1>2 DEF TakeUTXO, Spendable
  <2>2. Stored' = Stored /\ TxsOnce' = TxsOnce
    BY <2>1 DEF Stored, TxsOnce
  <2>3. /\ grants' \in Seq(SUBSET Locators)
        /\ DOMAIN grants' = DOMAIN grants \cup {Len(grants) + 1}
        /\ grants'[Len(grants) + 1] = S /\ Len(grants) + 1 \notin DOMAIN grants
        /\ \A i \in DOMAIN grants : grants'[i] = grants[i]
    <3>1. S \in SUBSET Locators
      BY <2>1 DEF IInv, TypeOK
    <3> QED BY <2>1, <3>1
  <2>4. \A l \in S : \E b \in Stored : l \in CreatedBy(b)
    BY <2>1 DEF IInv, Provenance
  <2> DEFINE n == Len(grants) + 1
  <2> HIDE DEF n
  <2>5. Granted'
    <3> SUFFICES ASSUME ~again, TxsOnce, NEW i \in DOMAIN grants', NEW l \in grants'[i]
                 PROVE  l \in liminal' /\ \E b \in Stored : l \in CreatedBy(b)
      BY <1>2, <2>2 DEF Granted
    <3>1. CASE i = n
      BY <2>1, <2>3, <2>4, <3>1 DEF n
    <3>2. CASE i # n
      <4>1. i \in DOMAIN grants /\ l \in grants[i]
        BY <2>3, <3>2 DEF n
      <4> QED BY <2>1, <4>1 DEF Granted
    <3> QED BY <3>1, <3>2
  <2>6. NoDoubleGrant'
    <3> SUFFICES ASSUME ~again, TxsOnce, NEW i \in DOMAIN grants', NEW j \in DOMAIN grants', i # j
                 PROVE  grants'[i] \cap grants'[j] = {}
      BY <1>2, <2>2 DEF NoDoubleGrant
    <3>1. \A k \in DOMAIN grants : grants[k] \cap S = {}
      BY <2>1 DEF Granted
    <3>2. CASE i = n
      BY <2>3, <3>1, <3>2 DEF n
    <3>3. CASE j = n
      BY <2>3, <3>1, <3>3 DEF n
    <3>4. CASE i # n /\ j # n
      <4>1. i \in DOMAIN grants /\ j \in DOMAIN grants
        BY <2>3, <3>4 DEF n
      <4> QED BY <2>3, <4>1 DEF NoDoubleGrant
    <3> QED BY <3>2, <3>3, <3>4
  <2> QED BY <1>0, <2>3, <2>5, <2>6
<1>3. CASE UNCHANGED <<blocks, grants>> /\ liminal \subseteq liminal'
           /\ (~again' => ~again)
  <2>1. Stored' = Stored /\ TxsOnce' = TxsOnce
    BY <1>3 DEF Stored, TxsOnce
  <2>2. Granted'
    BY <1>3, <2>1 DEF Granted
  <2>3. NoDoubleGrant'
    BY <1>3, <2>1 DEF NoDoubleGrant
  <2> QED BY <1>0, <1>3, <2>2, <2>3
<1>4. ASSUME NEW b \in Blocks, AddOrphan(b), again' = (again \/ b \in Stored) PROVE GrantInv'
  BY <1>3, <1>4 DEF AddOrphan
<1>5. ASSUME NEW amt \in Amounts, NEW pk \in PubKeys, TakeUTXOFails(amt, pk), again' = again
      PROVE  GrantInv'
  BY <1>3, <1>5 DEF TakeUTXOFails
<1>6. CASE UNCHANGED <<bcVars, again>>
  BY <1>3, <1>6 DEF bcVars
<1> QED
  BY <1>1, <1>2, <1>4, <1>5, <1>6 DEF HistNext, Add, GetUTXOForAmt

\* No output is handed to the wallet twice, forks included, as long as no block
\* is added again and no transaction is in two blocks.
THEOREM GrantsApart == HistSpec => []NoDoubleGrant
<1>1. HistInit => GrantInv
  BY InitIInv DEF HistInit, Init, GrantInv, Granted, NoDoubleGrant
<1>2. GrantInv => NoDoubleGrant
  BY DEF GrantInv
<1> QED BY <1>1, <1>2, StepGrant, PTL DEF HistSpec
=============================================================================

----------------------------- MODULE NodeProofs -----------------------------
(***************************************************************************)
(* What holds of any number of nodes, whatever the order in which requests *)
(* arrive and handlers run: blocks are seen before they are stored, the    *)
(* network adds a block once, and the content of the utxo map depends only *)
(* on the set of stored blocks.                                            *)
(***************************************************************************)
EXTENDS Node, TLAPS

\* The step of List along PrevNode.
PrevOf(nodes, b) == nodes[b].prev
Walk == INSTANCE FoldFacts WITH Op <- PrevOf

\* The variables that hold one value per node are functions on the nodes, and
\* Bootstrap loads from a node.
PerNode ==
    /\ blocks = [n \in Nodes |-> blocks[n]]
    /\ boot = [n \in Nodes |-> boot[n]]
    /\ \A n \in Nodes :
          /\ DOMAIN boot[n] = {"top", "at", "resp", "got", "res", "addr", "todo"}
          /\ boot[n].addr \in Nodes

\* No request carries the genesis block, which every node has from the start.
NoGenesis == \A r \in net \cup DOMAIN running : r[3] # Genesis

\* A block that a handler has, or that Bootstrap is about to add, was seen.
HandledSeen ==
    /\ \A r \in DOMAIN running : r[3] \in Blocks => r[3] \in blockMap[r[2]]
    /\ \A n \in Nodes : bootAt[n] = "add" => Head(boot[n].todo) \in blockMap[n]

\* What the map holds, and what a validated block spends, was created by
\* stored blocks.
OutputsKnown ==
    /\ \A n \in Nodes : utxo[n] \subseteq Made(n)
    /\ \A n \in Nodes : bootAt[n] = "idle" => Used(n) \subseteq Made(n)
    /\ \A r \in DOMAIN running :
          r[3] \in Blocks /\ running[r] = "apply" => Spends[r[3]] \subseteq Made(r[2])

NInv == /\ TypeOK /\ PerNode /\ NoGenesis /\ HandledSeen
        /\ SeenBeforeStored /\ AddedOnce /\ OutputsKnown /\ OrderIrrelevant
-----------------------------------------------------------------------------
(* The effect of Add *)

\* The loops of Add put in nothing but outputs of the block, and when the block
\* spends none of its own outputs they replace what it spends by what it creates.
LEMMA ApplyTxsEffect ==
    ASSUME NEW n \in Nodes, NEW b \in Blocks, NEW U
    PROVE  /\ Chain(n)!ApplyTxs(U, Transactions[b]) \subseteq U \cup Creates[b]
           /\ Spends[b] \cap Creates[b] = {} =>
                 Chain(n)!ApplyTxs(U, Transactions[b]) = (U \ Spends[b]) \cup Creates[b]
  BY SMTT(30) DEF Chain!ApplyTxs, Chain!Spends, Chain!Creates, Spends, Creates, TxSpends, TxCreates

\* Add of a block, on a stored parent and on a missing one.
LEMMA AddBlockEffect ==
    ASSUME TypeOK, PerNode, NEW n \in Nodes, NEW b \in Blocks, AddBlock(n, b)
    PROVE  /\ blocks' = [m \in Nodes |-> blocks'[m]] /\ DOMAIN blocks' = Nodes
           /\ utxo' \in [Nodes -> SUBSET Locators]
           /\ lastBlock' \in [Nodes -> Blocks]
           /\ status' \in [Nodes -> {"up", "orphan", "raced", "nodata", "noanswer"}]
           /\ \A m \in Nodes : m # n => Stored(m)' = Stored(m) /\ utxo'[m] = utxo[m]
           /\ \/ /\ PrvBlkHsh[b] \in Stored(n)
                 /\ Stored(n)' = Stored(n) \cup {b}
                 /\ utxo'[n] = Chain(n)!ApplyTxs(utxo[n], Transactions[b])
              \/ /\ PrvBlkHsh[b] \notin Stored(n)
                 /\ Stored(n)' = Stored(n) /\ utxo'[n] = utxo[n]
  <1>1. CASE PrvBlkHsh[b] \in Stored(n)
    <2>1. Creates[b] \subseteq Locators
      BY UniverseAssumption DEF Creates, TxCreates, Locators
    <2>2. Chain(n)!ApplyTxs(utxo[n], Transactions[b]) \subseteq Locators
      BY <2>1, ApplyTxsEffect DEF TypeOK
    <2>3. Chain(n)!NewLast(b) \in Blocks
      BY DEF Chain!NewLast, TypeOK
    <2>4. /\ blocks' = [blocks EXCEPT ![n] =
                [x \in Stored(n) \cup {b} |->
                    IF x = b THEN Chain(n)!NewNode(b) ELSE blocks[n][x]]]
          /\ lastBlock' = [lastBlock EXCEPT ![n] = Chain(n)!NewLast(b)]
          /\ utxo' = [utxo EXCEPT ![n] = Chain(n)!ApplyTxs(utxo[n], Transactions[b])]
          /\ status' = status
      BY <1>1 DEF AddBlock
    <2> QED BY <1>1, <2>2, <2>3, <2>4 DEF TypeOK, PerNode, Stored
  <1>2. CASE PrvBlkHsh[b] \notin Stored(n)
    <2>1. /\ blocks' = blocks /\ lastBlock' = lastBlock /\ utxo' = utxo
          /\ status' = [status EXCEPT ![n] = "orphan"]
      BY <1>2 DEF AddBlock, treeVars
    <2> QED BY <1>2, <2>1 DEF TypeOK, PerNode, Stored
  <1> QED BY <1>1, <1>2

\* Add creates no output from nothing, and a known output stays known.
LEMMA AddKnown ==
    ASSUME TypeOK, PerNode, NEW n \in Nodes, NEW b \in Blocks, AddBlock(n, b),
           \A m \in Nodes : utxo[m] \subseteq Made(m)
    PROVE  \A m \in Nodes : utxo'[m] \subseteq Made(m)' /\ Made(m) \subseteq Made(m)'
  <1> SUFFICES ASSUME NEW m \in Nodes
               PROVE  utxo'[m] \subseteq Made(m)' /\ Made(m) \subseteq Made(m)'
    OBVIOUS
  <1>1. Stored(m) \subseteq Stored(m)' /\ Made(m) \subseteq Made(m)'
    BY AddBlockEffect DEF Made
  <1>2. CASE m = n /\ PrvBlkHsh[b] \in Stored(n)
    <2>1. Stored(n)' = Stored(n) \cup {b}
          /\ utxo'[n] = Chain(n)!ApplyTxs(utxo[n], Transactions[b])
      BY <1>2, AddBlockEffect
    <2>2. utxo'[n] \subseteq utxo[n] \cup Creates[b]
      BY <2>1, ApplyTxsEffect
    <2>3. Creates[b] \subseteq Made(n)'
      BY <2>1 DEF Made
    <2> QED BY <1>1, <1>2, <2>2, <2>3
  <1>3. CASE ~(m = n /\ PrvBlkHsh[b] \in Stored(n))
    BY <1>1, <1>3, AddBlockEffect
  <1> QED BY <1>2, <1>3

\* A new block that spends known outputs keeps the map a function of the set
\* of blocks: what it spends is neither its own output nor, if no transaction is
\* mined twice, are its outputs among those spent before.
LEMMA AddOrder ==
    ASSUME TypeOK, PerNode, NEW n \in Nodes, NEW b \in Blocks, AddBlock(n, b),
           b \notin Stored(n), Spends[b] \subseteq Made(n), Used(n) \subseteq Made(n),
           NoTxTwice(n) => utxo[n] = Made(n) \ Used(n)
    PROVE  /\ Used(n)' \subseteq Made(n)'
           /\ NoTxTwice(n)' => utxo'[n] = Made(n)' \ Used(n)'
  <1>1. CASE PrvBlkHsh[b] \in Stored(n)
    <2>1. /\ Stored(n)' = Stored(n) \cup {b}
          /\ utxo'[n] = Chain(n)!ApplyTxs(utxo[n], Transactions[b])
      BY <1>1, AddBlockEffect
    <2>2. Made(n)' = Made(n) \cup Creates[b] /\ Used(n)' = Used(n) \cup Spends[b]
      BY <2>1 DEF Made, Used
    <2>3. ASSUME NoTxTwice(n)'
          PROVE  utxo'[n] = Made(n)' \ Used(n)'
      <3>1. NoTxTwice(n) /\ Creates[b] \cap Made(n) = {}
        BY <2>1, <2>3 DEF NoTxTwice, Made
      <3>2. utxo[n] = Made(n) \ Used(n)
        BY <3>1
      <3>3. Spends[b] \cap Creates[b] = {} /\ Used(n) \cap Creates[b] = {}
        BY <3>1
      <3>4. utxo'[n] = (utxo[n] \ Spends[b]) \cup Creates[b]
        BY <2>1, <3>3, ApplyTxsEffect
      <3> QED BY <2>2, <3>2, <3>3, <3>4
    <2> QED BY <2>2, <2>3
  <1>2. CASE PrvBlkHsh[b] \notin Stored(n)
    BY <1>2, AddBlockEffect DEF Made, Used, NoTxTwice
  <1> QED BY <1>1, <1>2

\* A block that passes ChkBlk spends outputs that are in the map.
LEMMA CheckedSpends ==
    ASSUME NEW n \in Nodes, NEW b \in Blocks, ChkBlk(n, b)
    PROVE  Spends[b] \subseteq utxo[n]
  <1> SUFFICES ASSUME NEW k \in DOMAIN Transactions[b]
               PROVE  TxSpends(Transactions[b][k]) \subseteq utxo[n]
    BY DEF Spends
  <1>0. Transactions[b] \in Seq(Txs) /\ Transactions[b] # <<>>
    BY UniverseAssumption DEF ChkBlk
  <1>1. CASE k = 1
    BY <1>1 DEF ChkBlk, TxSpends
  <1>2. CASE k # 1
    <2>1. k - 1 \in DOMAIN Tail(Transactions[b])
          /\ Tail(Transactions[b])[k - 1] = Transactions[b][k]
      BY <1>0, <1>2
    <2>2. Chain(n)!ChkChainsUTXO(Tail(Transactions[b]))
      BY DEF ChkBlk
    <2>3. Chain(n)!Spends(Tail(Transactions[b])[k - 1]) \subseteq utxo[n]
      BY <2>1, <2>2 DEF Chain!ChkChainsUTXO
    <2> QED BY <2>1, <2>3 DEF Chain!Spends, TxSpends
  <1> QED BY <1>1, <1>2
-----------------------------------------------------------------------------
(* The inductive invariant *)

LEMMA NInit == Init => NInv
  <1> SUFFICES ASSUME Init PROVE NInv
    OBVIOUS
  <1>1. \A n \in Nodes : Stored(n) = {Genesis}
    BY DEF Init, Stored
  <1>2. \A n \in Nodes : Made(n) = Creates[Genesis] /\ Used(n) = {} /\ utxo[n] = Creates[Genesis]
    BY <1>1, GenesisAssumption DEF Init, Made, Used
  <1>3. Creates[Genesis] \subseteq Locators
    BY UniverseAssumption DEF Creates, TxCreates, Locators
  <1>4. TypeOK
    BY <1>1, <1>2, <1>3, UniverseAssumption DEF TypeOK, Init
  <1>5. PerNode /\ NoGenesis /\ HandledSeen /\ SeenBeforeStored /\ AddedOnce
    BY <1>1 DEF Init, PerNode, NoGenesis, HandledSeen, SeenBeforeStored, AddedOnce
  <1>6. OutputsKnown /\ OrderIrrelevant
    BY <1>2 DEF Init, OutputsKnown, OrderIrrelevant
  <1> QED BY <1>4, <1>5, <1>6 DEF NInv

\* What the requests being handled leave to be shown of OutputsKnown.
RunsKnown(S, pc) ==
    \A q \in S : q \in Requests
                 /\ (q[3] \in Blocks /\ pc[q] = "apply" => Spends[q[3]] \subseteq Made(q[2]))

\* A step that leaves the trees alone, and takes no node back to before its
\* Bootstrap, leaves alone what the invariant says of the maps.
LEMMA TreesAlone ==
    ASSUME NInv, blocks' = blocks, utxo' = utxo,
           \A n \in Nodes : bootAt'[n] = "idle" => bootAt[n] = "idle",
           RunsKnown(DOMAIN running', running')
    PROVE  OutputsKnown' /\ OrderIrrelevant'
  <1>1. \A n \in Nodes : Made(n)' = Made(n) /\ Used(n)' = Used(n)
                         /\ (NoTxTwice(n)' => NoTxTwice(n))
    BY DEF Made, Used, NoTxTwice, Stored
  <1>2. OrderIrrelevant'
    BY <1>1 DEF NInv, OrderIrrelevant
  <1>3. \A n \in Nodes : /\ utxo'[n] \subseteq Made(n)'
                         /\ bootAt'[n] = "idle" => Used(n)' \subseteq Made(n)'
    BY <1>1 DEF NInv, OutputsKnown
  <1>4. ASSUME NEW q \in DOMAIN running', q[3] \in Blocks, running'[q] = "apply"
        PROVE  Spends[q[3]] \subseteq Made(q[2])'
    <2>1. q[2] \in Nodes /\ Spends[q[3]] \subseteq Made(q[2])
      BY <1>4 DEF RunsKnown, Requests
    <2> QED BY <1>1, <2>1
  <1> QED BY <1>2, <1>3, <1>4 DEF OutputsKnown

\* It is so when no handler has come nearer to adding a block.
LEMMA RunsAlone ==
    ASSUME NInv, DOMAIN running' \subseteq Requests,
           \A q \in DOMAIN running' :
               (q[3] \in Blocks /\ running'[q] = "apply") =>
                   (q \in DOMAIN running /\ running[q] = "apply")
    PROVE  RunsKnown(DOMAIN running', running')
  BY DEF NInv, OutputsKnown, RunsKnown

LEMMA MineStep ==
    ASSUME NInv, NEW n \in Nodes, NEW b \in Blocks, HndlMnrBlk(n, b)
    PROVE  NInv'
  <1> USE DEF NInv
  <1>1. /\ Mineable(n, b) /\ AddBlock(n, b)
        /\ blockMap' = [blockMap EXCEPT ![n] = @ \cup {b}]
        /\ net' = net \cup Broadcast(n, b)
        /\ UNCHANGED <<txMap, running, bootAt, boot, refused>>
    BY DEF HndlMnrBlk
  <1>2. b \notin blockMap[n] /\ b # Genesis /\ b \notin Stored(n) /\ Spends[b] \subseteq Made(n)
    BY <1>1 DEF Mineable, SeenBeforeStored
  <1>3. Broadcast(n, b) \subseteq Requests /\ \A r \in Broadcast(n, b) : r[3] = b
    BY NodesAssumption DEF Broadcast, Requests
  <1>4. TypeOK' /\ PerNode'
    BY <1>1, <1>3, AddBlockEffect, SMTT(30) DEF TypeOK, PerNode
  <1>5. NoGenesis' /\ HandledSeen' /\ SeenBeforeStored'
    BY <1>1, <1>2, <1>3, AddBlockEffect
    DEF TypeOK, NoGenesis, HandledSeen, SeenBeforeStored, Requests
  <1>6. AddedOnce'
    BY <1>1, <1>2, AddBlockEffect DEF TypeOK, AddedOnce, HandledSeen, Requests
  <1>7. \A m \in Nodes : utxo'[m] \subseteq Made(m)' /\ Made(m) \subseteq Made(m)'
    BY <1>1, AddKnown DEF OutputsKnown
  <1>8. \A m \in Nodes : bootAt'[m] = "idle" =>
            Used(m)' \subseteq Made(m)' /\ (NoTxTwice(m)' => utxo'[m] = Made(m)' \ Used(m)')
    <2> SUFFICES ASSUME NEW m \in Nodes, bootAt[m] = "idle"
                 PROVE  /\ Used(m)' \subseteq Made(m)'
                        /\ NoTxTwice(m)' => utxo'[m] = Made(m)' \ Used(m)'
      BY <1>1
    <2>1. CASE m = n
      BY <1>1, <1>2, <2>1, AddOrder DEF OutputsKnown, OrderIrrelevant
    <2>2. CASE m # n
      BY <1>1, <2>2, AddBlockEffect
      DEF OutputsKnown, OrderIrrelevant, Made, Used, NoTxTwice
    <2> QED BY <2>1, <2>2
  <1>9. OutputsKnown' /\ OrderIrrelevant'
    BY <1>1, <1>7, <1>8 DEF TypeOK, OutputsKnown, OrderIrrelevant, Requests
  <1> QED BY <1>4, <1>5, <1>6, <1>9

LEMMA WalletStep ==
    ASSUME NInv, NEW n \in Nodes, NEW t \in Txs, HndlWtTx(n, t)
    PROVE  NInv'
  <1> USE DEF HndlWtTx
  <1>1. Broadcast(n, t) \subseteq Requests /\ \A r \in Broadcast(n, t) : r[3] = t
    BY NodesAssumption DEF Broadcast, Requests
  <1>2. t # Genesis
    BY UniverseAssumption, NodesAssumption
  <1>3. TypeOK' /\ PerNode' /\ NoGenesis'
    BY <1>1, <1>2 DEF NInv, TypeOK, PerNode, NoGenesis, Stored
  <1>4. HandledSeen' /\ SeenBeforeStored' /\ AddedOnce'
    BY DEF NInv, HandledSeen, SeenBeforeStored, AddedOnce, Stored
  <1>5. RunsKnown(DOMAIN running', running')
    BY RunsAlone DEF NInv, TypeOK
  <1>6. OutputsKnown' /\ OrderIrrelevant'
    BY <1>5, TreesAlone
  <1> QED BY <1>3, <1>4, <1>6 DEF NInv

LEMMA ReceiveBlkStep ==
    ASSUME NInv, NEW r, ReceiveBlk(r)
    PROVE  NInv'
  <1> USE DEF ReceiveBlk, Arrives
  <1>1. r \in Requests /\ r[2] \in Nodes /\ r[3] \in Blocks /\ r[3] # Genesis
    BY DEF NInv, TypeOK, Requests, NoGenesis
  <1>2. CASE r[3] \in blockMap[r[2]]
    <2>1. running' = running /\ blockMap' = blockMap /\ net' \subseteq net
      BY <1>1, <1>2 DEF NInv, TypeOK
    <2>2. TypeOK' /\ PerNode' /\ NoGenesis'
      <3>1. TypeOK'
        BY <2>1 DEF NInv, TypeOK, Stored
      <3>2. PerNode' /\ NoGenesis'
        BY <2>1 DEF NInv, PerNode, NoGenesis
      <3> QED BY <3>1, <3>2
    <2>3. HandledSeen' /\ SeenBeforeStored' /\ AddedOnce'
      BY <2>1 DEF NInv, HandledSeen, SeenBeforeStored, AddedOnce, Stored
    <2>4. RunsKnown(DOMAIN running', running')
      BY <2>1, RunsAlone DEF NInv, TypeOK
    <2>5. OutputsKnown' /\ OrderIrrelevant'
      BY <2>4, TreesAlone
    <2> QED BY <2>2, <2>3, <2>5 DEF NInv
  <1>3. CASE r[3] \notin blockMap[r[2]]
    <2>1. /\ running' = Start(r)
          /\ blockMap' = [blockMap EXCEPT ![r[2]] = @ \cup {r[3]}]
          /\ UNCHANGED <<blocks, lastBlock, utxo, txMap, status, bootAt, boot, refused>>
          /\ net' \subseteq net
      BY <1>3
    <2>2. /\ DOMAIN running' = DOMAIN running \cup {r}
          /\ running'[r] = "check"
          /\ \A q \in DOMAIN running : q # r => running'[q] = running[q]
      BY <2>1 DEF Start
    <2>3. r[3] \notin Stored(r[2])
          /\ \A q \in DOMAIN running : ~(q[2] = r[2] /\ q[3] = r[3])
      BY <1>1, <1>3 DEF NInv, SeenBeforeStored, HandledSeen
    <2>4. TypeOK' /\ PerNode' /\ NoGenesis'
      BY <1>1, <2>1, <2>2 DEF NInv, TypeOK, PerNode, NoGenesis, Stored
    <2>5. HandledSeen' /\ SeenBeforeStored'
      BY <1>1, <2>1, <2>2
      DEF NInv, TypeOK, HandledSeen, SeenBeforeStored, Stored, Requests
    <2>6. AddedOnce'
      BY <1>1, <2>1, <2>2, <2>3 DEF NInv, TypeOK, AddedOnce, Stored
    <2>7. RunsKnown(DOMAIN running', running')
      BY <1>1, <2>2, RunsAlone DEF NInv, TypeOK
    <2>8. OutputsKnown' /\ OrderIrrelevant'
      BY <2>7, TreesAlone
    <2> QED BY <2>4, <2>5, <2>6, <2>8 DEF NInv
  <1> QED BY <1>2, <1>3

LEMMA ReceiveTxStep ==
    ASSUME NInv, NEW r, ReceiveTx(r)
    PROVE  NInv'
  <1> USE DEF ReceiveTx, Arrives
  <1>1. r \in Requests /\ r[3] \in Txs /\ r[3] \notin Blocks /\ r[3] # Genesis
    BY UniverseAssumption, NodesAssumption DEF NInv, TypeOK
  <1>2. /\ DOMAIN running' \subseteq DOMAIN running \cup {r}
        /\ \A q \in DOMAIN running' : q = r \/ running'[q] = running[q]
        /\ \A q \in DOMAIN running' : running'[q] \in {"check", "apply"}
    BY DEF NInv, TypeOK, Start
  <1>3. TypeOK' /\ PerNode' /\ NoGenesis'
    BY <1>1, <1>2 DEF NInv, TypeOK, PerNode, NoGenesis, Stored
  <1>4. HandledSeen' /\ SeenBeforeStored' /\ AddedOnce'
    BY <1>1, <1>2 DEF NInv, HandledSeen, SeenBeforeStored, AddedOnce, Stored
  <1>5. RunsKnown(DOMAIN running', running')
    BY <1>1, <1>2, RunsAlone DEF NInv, TypeOK
  <1>6. OutputsKnown' /\ OrderIrrelevant'
    BY <1>5, TreesAlone
  <1> QED BY <1>3, <1>4, <1>6 DEF NInv

LEMMA ValidateStep ==
    ASSUME NInv, NEW r, Validate(r)
    PROVE  NInv'
  <1>1. /\ r \in DOMAIN running /\ r \in Requests /\ r[2] \in Nodes
        /\ r[3] \in Blocks \cup Txs
        /\ UNCHANGED <<blocks, lastBlock, utxo, blockMap, txMap, status, net, bootAt, boot>>
    BY DEF NInv, Validate, TypeOK, Requests
  <1>2. /\ DOMAIN running' \subseteq DOMAIN running
        /\ \A q \in DOMAIN running' : q # r => running'[q] = running[q]
        /\ \A q \in DOMAIN running' : running'[q] \in {"check", "apply"}
        /\ r \in DOMAIN running' => Valid(r[2], r[3])
        /\ refused' \subseteq refused \cup {<<r[2], r[3]>>}
    <2>0. \A q \in DOMAIN running : running[q] \in {"check", "apply"}
      BY DEF NInv, TypeOK
    <2>1. CASE Valid(r[2], r[3])
      <3>1. running' = [running EXCEPT ![r] = "apply"] /\ refused' = refused
        BY <2>1 DEF Validate
      <3> QED BY <1>1, <2>0, <2>1, <3>1
    <2>2. CASE ~Valid(r[2], r[3])
      <3>1. running' = Finish(r) /\ refused' = refused \cup {<<r[2], r[3]>>}
        BY <2>2 DEF Validate
      <3> QED BY <1>1, <2>0, <3>1 DEF Finish
    <2> QED BY <2>1, <2>2
  <1>3. TypeOK' /\ PerNode' /\ NoGenesis'
    BY <1>1, <1>2 DEF NInv, TypeOK, PerNode, NoGenesis, Stored
  <1>4. HandledSeen' /\ SeenBeforeStored' /\ AddedOnce'
    BY <1>1, <1>2 DEF NInv, HandledSeen, SeenBeforeStored, AddedOnce, Stored
  <1>5. ASSUME r \in DOMAIN running', r[3] \in Blocks
        PROVE  Spends[r[3]] \subseteq Made(r[2])
    <2>1. Spends[r[3]] \subseteq utxo[r[2]]
      BY <1>1, <1>2, <1>5, CheckedSpends DEF Valid
    <2> QED BY <1>1, <2>1 DEF NInv, OutputsKnown
  <1>6. RunsKnown(DOMAIN running', running')
    BY <1>1, <1>2, <1>5 DEF NInv, TypeOK, OutputsKnown, RunsKnown
  <1>7. OutputsKnown' /\ OrderIrrelevant'
    BY <1>1, <1>6, TreesAlone
  <1> QED BY <1>3, <1>4, <1>7 DEF NInv

LEMMA ApplyBlkStep ==
    ASSUME NInv, NEW r, ApplyBlk(r)
    PROVE  NInv'
  <1> USE DEF NInv
  <1> DEFINE n == r[2]
             b == r[3]
  <1>1. /\ r \in DOMAIN running /\ running[r] = "apply"
        /\ r \in Requests /\ n \in Nodes /\ b \in Blocks /\ b # Genesis
        /\ b \in blockMap[n] /\ Spends[b] \subseteq Made(n)
    BY DEF ApplyBlk, TypeOK, Requests, NoGenesis, HandledSeen, OutputsKnown
  <1>2. /\ AddBlock(n, b)
        /\ UNCHANGED <<blockMap, txMap, bootAt, boot, refused>>
        /\ DOMAIN running' = DOMAIN running \ {r}
        /\ \A q \in DOMAIN running' : running'[q] = running[q]
        /\ net' \subseteq net \cup Broadcast(n, b)
    BY DEF ApplyBlk, Finish
  <1>3. Broadcast(n, b) \subseteq Requests /\ \A q \in Broadcast(n, b) : q[3] = b
    BY <1>1, NodesAssumption DEF Broadcast, Requests
  <1>4. /\ \A m \in Nodes : m # n => Stored(m)' = Stored(m) /\ utxo'[m] = utxo[m]
        /\ Stored(n) \subseteq Stored(n)' /\ Stored(n)' \subseteq Stored(n) \cup {b}
    BY <1>1, <1>2, AddBlockEffect
  <1> HIDE DEF n, b
  <1>5. TypeOK' /\ PerNode'
    <2>1. DOMAIN blocks' = Nodes /\ \A m \in Nodes : Stored(m)' \subseteq Blocks
      BY <1>1, <1>2, <1>4, AddBlockEffect DEF TypeOK
    <2>2. TypeOK'
      BY <1>1, <1>2, <1>3, <2>1, AddBlockEffect DEF TypeOK
    <2>3. PerNode'
      BY <1>1, <1>2, AddBlockEffect DEF PerNode
    <2> QED BY <2>2, <2>3
  <1>6. NoGenesis' /\ HandledSeen' /\ SeenBeforeStored'
    BY <1>1, <1>2, <1>3, <1>4 DEF NoGenesis, HandledSeen, SeenBeforeStored
  <1>7. AddedOnce'
    BY <1>1, <1>2, <1>4 DEF AddedOnce, TypeOK, Requests, n, b
  <1>8. \A m \in Nodes : utxo'[m] \subseteq Made(m)' /\ Made(m) \subseteq Made(m)'
    BY <1>1, <1>2, AddKnown DEF OutputsKnown
  <1>9. \A m \in Nodes : bootAt'[m] = "idle" =>
            Used(m)' \subseteq Made(m)' /\ (NoTxTwice(m)' => utxo'[m] = Made(m)' \ Used(m)')
    <2> SUFFICES ASSUME NEW m \in Nodes, bootAt[m] = "idle"
                 PROVE  /\ Used(m)' \subseteq Made(m)'
                        /\ NoTxTwice(m)' => utxo'[m] = Made(m)' \ Used(m)'
      BY <1>2
    <2>1. CASE m = n
      <3>1. b \notin Stored(n)
        BY <1>1, <2>1 DEF AddedOnce, n, b
      <3> QED BY <1>1, <1>2, <2>1, <3>1, AddOrder DEF OutputsKnown, OrderIrrelevant
    <2>2. CASE m # n
      BY <1>4, <2>2 DEF OutputsKnown, OrderIrrelevant, Made, Used, NoTxTwice
    <2> QED BY <2>1, <2>2
  <1>10. OutputsKnown' /\ OrderIrrelevant'
    BY <1>2, <1>8, <1>9 DEF TypeOK, OutputsKnown, OrderIrrelevant, Requests
  <1> QED BY <1>5, <1>6, <1>7, <1>10

LEMMA ApplyTxStep ==
    ASSUME NInv, NEW r, ApplyTx(r)
    PROVE  NInv'
  <1> USE DEF ApplyTx
  <1>1. r \in Requests /\ r[2] \in Nodes /\ r[3] \in Txs /\ r[3] # Genesis
    BY UniverseAssumption, NodesAssumption DEF NInv, TypeOK, Requests
  <1>2. DOMAIN running' \subseteq DOMAIN running /\ \A q \in DOMAIN running' : running'[q] = running[q]
    BY DEF Finish
  <1>3. Broadcast(r[2], r[3]) \subseteq Requests /\ \A q \in Broadcast(r[2], r[3]) : q[3] = r[3]
    BY <1>1, NodesAssumption DEF Broadcast, Requests
  <1>4. TypeOK' /\ PerNode' /\ NoGenesis'
    BY <1>1, <1>2, <1>3 DEF NInv, TypeOK, PerNode, NoGenesis, Stored
  <1>5. HandledSeen' /\ SeenBeforeStored' /\ AddedOnce'
    BY <1>2 DEF NInv, HandledSeen, SeenBeforeStored, AddedOnce, Stored
  <1>6. RunsKnown(DOMAIN running', running')
    BY <1>2, RunsAlone DEF NInv, TypeOK
  <1>7. OutputsKnown' /\ OrderIrrelevant'
    BY <1>6, TreesAlone
  <1> QED BY <1>4, <1>5, <1>7 DEF NInv

LEMMA RaceStep ==
    ASSUME NInv, NEW n \in Nodes, Race(n)
    PROVE  NInv'
  <1> USE DEF Race
  <1>1. TypeOK' /\ PerNode' /\ NoGenesis'
    BY DEF NInv, TypeOK, PerNode, NoGenesis, Stored
  <1>2. HandledSeen' /\ SeenBeforeStored' /\ AddedOnce'
    BY DEF NInv, HandledSeen, SeenBeforeStored, AddedOnce, Stored
  <1>3. RunsKnown(DOMAIN running', running')
    BY RunsAlone DEF NInv, TypeOK
  <1>4. OutputsKnown' /\ OrderIrrelevant'
    BY <1>3, TreesAlone
  <1> QED BY <1>1, <1>2, <1>4 DEF NInv

\* The steps of Bootstrap before it adds a block: they change the map of seen
\* blocks and variables of their own.
LEMMA BootQuiet ==
    ASSUME NInv, PerNode', NEW n \in Nodes,
           UNCHANGED <<blocks, lastBlock, utxo, txMap, net, running, refused>>,
           status' \in [Nodes -> {"up", "orphan", "raced", "nodata", "noanswer"}],
           blockMap' \in [Nodes -> SUBSET Blocks],
           \A m \in Nodes : blockMap[m] \subseteq blockMap'[m],
           bootAt' \in [Nodes -> {"idle", "ask", "load", "add", "done"}],
           \A m \in Nodes : bootAt'[m] = "idle" => bootAt[m] = "idle",
           \A m \in Nodes : bootAt'[m] = "add" => Head(boot'[m].todo) \in blockMap'[m]
    PROVE  NInv'
  <1>1. TypeOK' /\ NoGenesis'
    BY DEF NInv, TypeOK, NoGenesis, Stored
  <1>2. HandledSeen' /\ SeenBeforeStored'
    BY DEF NInv, TypeOK, HandledSeen, SeenBeforeStored, Stored, Requests
  <1>3. AddedOnce'
    BY DEF NInv, TypeOK, AddedOnce, Stored, Requests
  <1>4. RunsKnown(DOMAIN running', running')
    BY RunsAlone DEF NInv, TypeOK
  <1>5. OutputsKnown' /\ OrderIrrelevant'
    BY <1>4, TreesAlone
  <1> QED BY <1>1, <1>2, <1>3, <1>5 DEF NInv

\* SetBoot keeps the shape of the variables of Bootstrap.
LEMMA SetBootShape ==
    ASSUME PerNode, NEW n \in Nodes, NEW rec, SetBoot(n, rec), blocks' = blocks,
           DOMAIN rec = {"top", "at", "resp", "got", "res", "addr", "todo"},
           rec.addr \in Nodes
    PROVE  /\ PerNode' /\ boot'[n] = rec
           /\ \A m \in Nodes : m # n => boot'[m] = boot[m]
  BY DEF PerNode, SetBoot

LEMMA BootStartStep ==
    ASSUME NInv, NEW n \in Nodes, BootStart(n)
    PROVE  NInv'
  <1>1. /\ bootAt' = [bootAt EXCEPT ![n] = "ask"]
        /\ SetBoot(n, [boot[n] EXCEPT !.top = lastBlock[n]])
        /\ UNCHANGED <<blocks, lastBlock, utxo, blockMap, txMap, status, net, running, refused>>
    BY DEF BootStart, GoBoot
  <1>2. PerNode' /\ \A m \in Nodes : m # n => boot'[m] = boot[m]
    BY <1>1, SetBootShape DEF NInv, PerNode
  <1> QED BY <1>1, <1>2, BootQuiet DEF NInv, TypeOK, HandledSeen

LEMMA BootAskStep ==
    ASSUME NInv, NEW n \in Nodes, NEW p \in Peers[n], BootAsk(n, p)
    PROVE  NInv'
  <1>1. /\ bootAt[n] = "ask"
        /\ UNCHANGED <<blocks, lastBlock, utxo, blockMap, txMap, status, net, running,
                       bootAt, refused>>
    BY DEF BootAsk, BootCall, BootTest, BootRes, BootAddr, Asking
  <1>2. p \in Nodes
    BY NodesAssumption
  <1>3. DOMAIN boot[n] = {"top", "at", "resp", "got", "res", "addr", "todo"}
        /\ boot[n].addr \in Nodes
    BY DEF NInv, PerNode
  <1>4. PerNode' /\ \A m \in Nodes : m # n => boot'[m] = boot[m]
    <2>1. CASE BootCall(n, p)
      BY <1>1, <1>3, <2>1, SetBootShape DEF NInv, BootCall
    <2>2. CASE BootTest(n, p)
      BY <1>1, <1>3, <2>2, SetBootShape DEF NInv, BootTest
    <2>3. CASE BootRes(n, p)
      BY <1>1, <1>3, <2>3, SetBootShape DEF NInv, BootRes
    <2>4. CASE BootAddr(n, p)
      BY <1>1, <1>2, <1>3, <2>4, SetBootShape DEF NInv, BootAddr
    <2> QED BY <2>1, <2>2, <2>3, <2>4 DEF BootAsk
  <1> QED BY <1>1, <1>4, BootQuiet DEF NInv, TypeOK, HandledSeen

LEMMA BootWaitStep ==
    ASSUME NInv, NEW n \in Nodes, BootWait(n)
    PROVE  NInv'
  <1>1. /\ bootAt' = [bootAt EXCEPT ![n] = IF boot[n].res = <<>> THEN "done" ELSE "load"]
        /\ SetBoot(n, [boot[n] EXCEPT !.todo = boot[n].res])
        /\ UNCHANGED <<blocks, lastBlock, utxo, blockMap, txMap, status, net, running, refused>>
    BY DEF BootWait, GoBoot
  <1>2. PerNode' /\ \A m \in Nodes : m # n => boot'[m] = boot[m]
    BY <1>1, SetBootShape DEF NInv, PerNode
  <1> QED BY <1>1, <1>2, BootQuiet DEF NInv, TypeOK, HandledSeen

LEMMA BootLoadStep ==
    ASSUME NInv, NEW n \in Nodes, BootLoad(n)
    PROVE  NInv'
  <1> DEFINE h == Head(boot[n].todo)
             p == boot[n].addr
  <1>1. /\ bootAt[n] = "load" /\ p \in Nodes
        /\ UNCHANGED <<blocks, lastBlock, utxo, txMap, net, running, boot, refused>>
    BY DEF NInv, PerNode, BootLoad
  <1>2. PerNode'
    BY <1>1 DEF NInv, PerNode
  <1>3. CASE /\ h \in Stored(p) /\ status' = status
             /\ blockMap' = [blockMap EXCEPT ![n] = @ \cup {h}]
             /\ bootAt' = [bootAt EXCEPT ![n] = "add"]
    <2>1. h \in Blocks
      BY <1>1, <1>3 DEF NInv, TypeOK
    <2> HIDE DEF h
    <2>2. /\ blockMap' \in [Nodes -> SUBSET Blocks]
          /\ \A m \in Nodes : blockMap[m] \subseteq blockMap'[m]
          /\ h \in blockMap'[n]
      BY <1>3, <2>1 DEF NInv, TypeOK
    <2> USE DEF h
    <2>3. \A m \in Nodes : bootAt'[m] = "add" => Head(boot'[m].todo) \in blockMap'[m]
      BY <1>1, <1>3, <2>2 DEF NInv, TypeOK, HandledSeen
    <2> QED BY <1>1, <1>2, <1>3, <2>2, <2>3, BootQuiet DEF NInv, TypeOK
  <1>4. CASE /\ status' \in [Nodes -> {"up", "orphan", "raced", "nodata", "noanswer"}]
             /\ UNCHANGED <<blockMap, bootAt>>
    BY <1>1, <1>2, <1>4, BootQuiet DEF NInv, TypeOK, HandledSeen
  <1>5. \/ /\ h \in Stored(p) /\ status' = status
           /\ blockMap' = [blockMap EXCEPT ![n] = @ \cup {h}]
           /\ bootAt' = [bootAt EXCEPT ![n] = "add"]
        \/ /\ status' \in [Nodes -> {"up", "orphan", "raced", "nodata", "noanswer"}]
           /\ UNCHANGED <<blockMap, bootAt>>
    BY DEF NInv, TypeOK, BootLoad, GetData, GetDataRPC, GoBoot
  <1> QED BY <1>3, <1>4, <1>5

LEMMA BootAddStep ==
    ASSUME NInv, NEW n \in Nodes, BootAdd(n)
    PROVE  NInv'
  <1> DEFINE b == Head(boot[n].todo)
  <1>0. TypeOK /\ PerNode /\ NoGenesis /\ HandledSeen /\ SeenBeforeStored /\ AddedOnce
        /\ OutputsKnown /\ OrderIrrelevant
    BY DEF NInv
  <1>1. /\ bootAt[n] = "add" /\ AddBlock(n, b)
        /\ UNCHANGED <<blockMap, txMap, net, running, refused>>
        /\ b \in blockMap[n] /\ b \in Blocks
    BY <1>0 DEF BootAdd, HandledSeen, TypeOK
  <1>2. /\ \A m \in Nodes : m # n => Stored(m)' = Stored(m) /\ utxo'[m] = utxo[m]
        /\ Stored(n) \subseteq Stored(n)' /\ Stored(n)' \subseteq Stored(n) \cup {b}
        /\ DOMAIN blocks' = Nodes /\ blocks' = [m \in Nodes |-> blocks'[m]]
    BY <1>0, <1>1, AddBlockEffect
  <1>3. \/ bootAt' = bootAt /\ boot' = boot
        \/ /\ bootAt' = [bootAt EXCEPT ![n] = IF Tail(boot[n].todo) = <<>> THEN "done"
                                              ELSE "load"]
           /\ boot' = [boot EXCEPT ![n] = [boot[n] EXCEPT !.todo = Tail(boot[n].todo)]]
    BY DEF BootAdd, NextHash, SetBoot, GoBoot, bootVars
  <1>4. /\ bootAt' \in [Nodes -> {"idle", "ask", "load", "add", "done"}]
        /\ bootAt'[n] # "idle"
        /\ \A m \in Nodes : m # n => bootAt'[m] = bootAt[m] /\ boot'[m] = boot[m]
        /\ bootAt'[n] = "add" => Head(boot'[n].todo) = b
    BY <1>0, <1>1, <1>3 DEF TypeOK, PerNode
  <1>5. /\ boot' = [m \in Nodes |-> boot'[m]]
        /\ \A m \in Nodes : /\ DOMAIN boot'[m] = DOMAIN boot[m]
                            /\ boot'[m].addr = boot[m].addr
    BY <1>0, <1>3 DEF PerNode
  <1> HIDE DEF b
  <1>6. PerNode'
    BY <1>0, <1>2, <1>5 DEF PerNode
  <1>7. TypeOK'
    <2>1. \A m \in Nodes : Stored(m)' \subseteq Blocks
      BY <1>0, <1>1, <1>2 DEF TypeOK
    <2> QED BY <1>0, <1>1, <1>2, <1>4, <2>1, AddBlockEffect DEF TypeOK
  <1>8. NoGenesis' /\ HandledSeen' /\ SeenBeforeStored'
    BY <1>0, <1>1, <1>2, <1>4 DEF NoGenesis, HandledSeen, SeenBeforeStored
  <1>9. AddedOnce'
    BY <1>0, <1>1, <1>2, <1>4 DEF AddedOnce, TypeOK, Requests
  <1>10. \A m \in Nodes : utxo'[m] \subseteq Made(m)' /\ Made(m) \subseteq Made(m)'
    BY <1>0, <1>1, AddKnown DEF OutputsKnown
  <1>11. \A m \in Nodes : bootAt'[m] = "idle" =>
            Used(m)' \subseteq Made(m)' /\ (NoTxTwice(m)' => utxo'[m] = Made(m)' \ Used(m)')
    BY <1>0, <1>2, <1>4 DEF OutputsKnown, OrderIrrelevant, Made, Used, NoTxTwice
  <1>12. OutputsKnown' /\ OrderIrrelevant'
    BY <1>0, <1>1, <1>10, <1>11 DEF TypeOK, OutputsKnown, OrderIrrelevant, Requests
  <1> QED BY <1>6, <1>7, <1>8, <1>9, <1>12 DEF NInv

LEMMA NStep == NInv /\ [Next]_nodeVars => NInv'
  <1> SUFFICES ASSUME NInv, [Next]_nodeVars
               PROVE  NInv'
    OBVIOUS
  <1>1. CASE \E n \in Nodes, b \in Blocks : HndlMnrBlk(n, b)
    BY <1>1, MineStep
  <1>2. CASE \E n \in Nodes, t \in Txs : HndlWtTx(n, t)
    BY <1>2, WalletStep
  <1>3. CASE \E r \in net \cup DOMAIN running : Handle(r)
    BY <1>3, ReceiveBlkStep, ReceiveTxStep, ValidateStep, ApplyBlkStep, ApplyTxStep DEF Handle
  <1>4. CASE \E n \in Nodes : Race(n)
    BY <1>4, RaceStep
  <1>5. CASE \E n \in Nodes : Bootstrap(n)
    BY <1>5, BootStartStep, BootAskStep, BootWaitStep, BootLoadStep, BootAddStep DEF Bootstrap
  <1>6. CASE UNCHANGED nodeVars
    <2>1. TypeOK' /\ PerNode' /\ NoGenesis'
      BY <1>6 DEF nodeVars, NInv, TypeOK, PerNode, NoGenesis, Stored
    <2>2. HandledSeen' /\ SeenBeforeStored' /\ AddedOnce'
      BY <1>6 DEF nodeVars, NInv, HandledSeen, SeenBeforeStored, AddedOnce, Stored
    <2>3. RunsKnown(DOMAIN running', running')
      BY <1>6, RunsAlone DEF nodeVars, NInv, TypeOK
    <2>4. OutputsKnown' /\ OrderIrrelevant'
      BY <1>6, <2>3, TreesAlone DEF nodeVars
    <2> QED BY <2>1, <2>2, <2>4 DEF NInv
  <1> QED BY <1>1, <1>2, <1>3, <1>4, <1>5, <1>6 DEF Next

\* The inductive invariant holds of every behaviour.
THEOREM NodeInvariant == Spec => []NInv
  BY NInit, NStep, PTL DEF Spec
-----------------------------------------------------------------------------
(* Results *)

\* Whatever the handlers do, the variables of the nodes keep their types.
THEOREM NodeTypes == Spec => []TypeOK
  <1>1. NInv => TypeOK
    BY DEF NInv
  <1> QED BY <1>1, NodeInvariant, PTL

\* BlockMap covers the tree, for every network and every interleaving of
\* handlers, the miner and Bootstrap.
THEOREM SeenFirst == Spec => []SeenBeforeStored
  <1>1. NInv => SeenBeforeStored
    BY DEF NInv
  <1> QED BY <1>1, NodeInvariant, PTL

\* The test and set under the mutex of BlockMap is enough: ForwardBlock adds a
\* block once, although validation and Add follow without the mutex.
THEOREM AddsOnce == Spec => []AddedOnce
  <1>1. NInv => AddedOnce
    BY DEF NInv
  <1> QED BY <1>1, NodeInvariant, PTL

\* The order in which blocks arrive does not matter for the utxo map.
THEOREM OrderDoesNotMatter == Spec => []OrderIrrelevant
  <1>1. NInv => OrderIrrelevant
    BY DEF NInv
  <1> QED BY <1>1, NodeInvariant, PTL
-----------------------------------------------------------------------------
(* Every tree implements Blockchain *)

\* A step that leaves the tree of n alone, and does not end n by an orphan.
LEMMA TreeStays ==
    ASSUME NEW n \in Nodes, UNCHANGED <<blocks[n], lastBlock[n], utxo[n]>>,
           (status'[n] # "orphan") = (status[n] # "orphan")
    PROVE  TreeStep(n)
  BY DEF TreeStep, Chain!bcVars

\* Add in one node is Add of its tree.
LEMMA AddIsAdd ==
    ASSUME TypeOK, PerNode, NEW n \in Nodes, NEW b \in Blocks, Up(n), AddBlock(n, b)
    PROVE  \A m \in Nodes : TreeStep(m)
  <1> SUFFICES ASSUME NEW m \in Nodes PROVE TreeStep(m)
    OBVIOUS
  <1>1. CASE PrvBlkHsh[b] \in Stored(n)
    <2>1. /\ blocks' = [blocks EXCEPT ![n] =
                [x \in Stored(n) \cup {b} |->
                    IF x = b THEN Chain(n)!NewNode(b) ELSE blocks[n][x]]]
          /\ lastBlock' = [lastBlock EXCEPT ![n] = Chain(n)!NewLast(b)]
          /\ utxo' = [utxo EXCEPT ![n] = Chain(n)!ApplyTxs(utxo[n], Transactions[b])]
          /\ status' = status
      BY <1>1 DEF AddBlock
    <2>2. CASE m # n
      BY <2>1, <2>2, TreeStays DEF TypeOK, PerNode
    <2>3. CASE m = n
      <3>1. Chain(n)!AddNode(b)
        BY <1>1, <2>1 DEF Chain!AddNode, Chain!Stored, Stored, Up, TypeOK, PerNode
      <3> QED BY <2>3, <3>1 DEF TreeStep, Chain!Next, Chain!Add
    <2> QED BY <2>2, <2>3
  <1>2. CASE PrvBlkHsh[b] \notin Stored(n)
    <2>1. /\ blocks' = blocks /\ lastBlock' = lastBlock /\ utxo' = utxo
          /\ status' = [status EXCEPT ![n] = "orphan"]
      BY <1>2 DEF AddBlock, treeVars
    <2>2. CASE m # n
      BY <2>1, <2>2, TreeStays DEF TypeOK
    <2>3. CASE m = n
      <3>1. Chain(n)!AddOrphan(b)
        BY <1>2, <2>1 DEF Chain!AddOrphan, Chain!Stored, Stored, Up, TypeOK
      <3> QED BY <2>3, <3>1 DEF TreeStep, Chain!Next, Chain!Add
    <2> QED BY <2>2, <2>3
  <1> QED BY <1>1, <1>2

\* Every step of a node, as steps of the trees.
LEMMA StepTrees == ASSUME NInv, [Next]_nodeVars PROVE \A n \in Nodes : TreeStep(n)
  <1>0. TypeOK /\ PerNode
    BY DEF NInv
  <1>1. CASE /\ UNCHANGED <<blocks, lastBlock, utxo>>
             /\ \A m \in Nodes : (status'[m] # "orphan") = (status[m] # "orphan")
    BY <1>1, TreeStays
  <1>2. ASSUME NEW n \in Nodes, NEW b \in Blocks, HndlMnrBlk(n, b)
        PROVE  \A m \in Nodes : TreeStep(m)
    BY <1>0, <1>2, AddIsAdd DEF HndlMnrBlk, Mineable
  <1>3. ASSUME NEW n \in Nodes, NEW t \in Txs, HndlWtTx(n, t)
        PROVE  \A m \in Nodes : TreeStep(m)
    BY <1>1, <1>3 DEF HndlWtTx
  <1>4. ASSUME NEW r \in net \cup DOMAIN running, Handle(r)
        PROVE  \A m \in Nodes : TreeStep(m)
    <2>1. CASE ApplyBlk(r)
      <3>1. r[2] \in Nodes /\ r[3] \in Blocks
        BY <1>0, <2>1 DEF ApplyBlk, TypeOK, Requests
      <3> QED BY <1>0, <2>1, <3>1, AddIsAdd DEF ApplyBlk
    <2>2. CASE ReceiveBlk(r)
      BY <1>1, <2>2 DEF ReceiveBlk
    <2>3. CASE ReceiveTx(r)
      BY <1>1, <2>3 DEF ReceiveTx
    <2>4. CASE Validate(r)
      BY <1>1, <2>4 DEF Validate
    <2>5. CASE ApplyTx(r)
      BY <1>1, <2>5 DEF ApplyTx
    <2> QED BY <1>4, <2>1, <2>2, <2>3, <2>4, <2>5 DEF Handle
  <1>5. ASSUME NEW n \in Nodes, Race(n) PROVE \A m \in Nodes : TreeStep(m)
    BY <1>0, <1>1, <1>5 DEF Race, Up, TypeOK
  <1>6. ASSUME NEW n \in Nodes, Bootstrap(n) PROVE \A m \in Nodes : TreeStep(m)
    <2>1. CASE BootStart(n)
      BY <1>1, <2>1 DEF BootStart
    <2>2. CASE BootWait(n)
      BY <1>1, <2>2 DEF BootWait
    <2>3. CASE BootLoad(n)
      <3>1. /\ UNCHANGED <<blocks, lastBlock, utxo>> /\ boot[n].addr \in Nodes
            /\ \/ status' = status
               \/ /\ Up(n) /\ Up(boot[n].addr)
                  /\ status' = [status EXCEPT ![boot[n].addr] = "nodata", ![n] = "noanswer"]
               \/ Up(n) /\ status' = [status EXCEPT ![n] = "noanswer"]
        BY <1>0, <2>3 DEF BootLoad, GetNil, PerNode
      <3> QED BY <1>0, <1>1, <3>1 DEF Up, TypeOK
    <2>4. CASE BootAdd(n)
      <3>1. Head(boot[n].todo) \in Blocks
        BY <2>4 DEF BootAdd, NInv, HandledSeen, TypeOK
      <3> QED BY <1>0, <2>4, <3>1, AddIsAdd DEF BootAdd
    <2>5. CASE \E p \in Peers[n] : BootAsk(n, p)
      BY <1>1, <2>5 DEF BootAsk
    <2> QED BY <1>6, <2>1, <2>2, <2>3, <2>4, <2>5 DEF Bootstrap
  <1>7. CASE UNCHANGED nodeVars
    BY <1>1, <1>7 DEF nodeVars
  <1> QED BY <1>2, <1>3, <1>4, <1>5, <1>6, <1>7 DEF Next

LEMMA TreesInit == Init => \A n \in Nodes : Chain(n)!Init
  <1> SUFFICES ASSUME Init, NEW n \in Nodes PROVE Chain(n)!Init
    OBVIOUS
  <1>1. Chain(n)!CreatedBy(Genesis) = Creates[Genesis]
    BY UniverseAssumption DEF Creates, TxCreates, Chain!CreatedBy, Chain!Creates
  <1> QED BY <1>1 DEF Init, Chain!Init

\* The tree of every node implements Blockchain: handlers, the miner and
\* Bootstrap, on any number of nodes, change it only by Add.
THEOREM TreesImplementBlockchain == Spec => NodeChain
  <1>1. NInv /\ [Next]_nodeVars => [\A n \in Nodes : TreeStep(n)]_nodeVars
    BY StepTrees
  <1> QED BY <1>1, TreesInit, NodeInvariant, PTL DEF Spec, NodeChain
-----------------------------------------------------------------------------
(* The trees of the nodes, side by side *)

\* What BlockchainProofs shows of one tree: bl is its map of nodes.
Shape(bl, last) ==
    /\ bl = [b \in DOMAIN bl |-> bl[b]] /\ DOMAIN bl \subseteq Blocks
    /\ last \in DOMAIN bl /\ Genesis \in DOMAIN bl /\ bl[Genesis].depth = 0
    /\ \A b \in DOMAIN bl : bl[b].depth \in Nat /\ bl[b].depth <= bl[last].depth
    /\ \A b \in DOMAIN bl \ {Genesis} :
          /\ bl[b] = [prev |-> PrvBlkHsh[b], depth |-> bl[PrvBlkHsh[b]].depth + 1]
          /\ PrvBlkHsh[b] \in DOMAIN bl

\* A block has the same depth in every tree.
SameDepth == \A n, m \in Nodes : \A b \in Stored(n) \cap Stored(m) :
                 blocks[n][b].depth = blocks[m][b].depth

Trees == (\A n \in Nodes : Shape(blocks[n], lastBlock[n])) /\ SameDepth

\* Trees only grow.
Grown == \A n \in Nodes : \A b \in Stored(n) :
             b \in DOMAIN blocks'[n] /\ blocks'[n][b] = blocks[n][b]

\* The tree after Add of b: nb and its last block nl.
Added(bl, last, b, nb, nl) ==
    /\ b \in Blocks /\ PrvBlkHsh[b] \in DOMAIN bl
    /\ nb = [x \in DOMAIN bl \cup {b} |->
               IF x = b THEN [prev |-> PrvBlkHsh[b], depth |-> bl[PrvBlkHsh[b]].depth + 1]
               ELSE bl[x]]
    /\ nl = IF bl[PrvBlkHsh[b]].depth + 1 > bl[last].depth THEN b ELSE last

\* Its old nodes are as before, and every parent was there before.
Growth(bl, nb, nl) ==
    /\ Shape(nb, nl)
    /\ \A x \in DOMAIN bl : x \in DOMAIN nb /\ nb[x] = bl[x]
    /\ \A x \in DOMAIN nb \ {Genesis} :
          PrvBlkHsh[x] \in DOMAIN bl /\ nb[x].depth = bl[PrvBlkHsh[x]].depth + 1

LEMMA ShapeAdded ==
    ASSUME NEW bl, NEW last, NEW b, NEW nb, NEW nl, Shape(bl, last), Added(bl, last, b, nb, nl)
    PROVE  Growth(bl, nb, nl)
  <1> DEFINE q == PrvBlkHsh[b]
             node == [prev |-> q, depth |-> bl[q].depth + 1]
  <1>1. /\ b \in Blocks /\ q \in DOMAIN bl /\ bl[q].depth \in Nat
        /\ DOMAIN nb = DOMAIN bl \cup {b} /\ nb[b] = node
        /\ \A x \in DOMAIN bl : x # b => nb[x] = bl[x]
        /\ nb = [x \in DOMAIN nb |-> nb[x]]
    BY DEF Added, Shape
  <1>2. b # Genesis
    BY <1>1, UniverseAssumption DEF Shape
  <1>3. b \in DOMAIN bl => bl[b] = node
    BY <1>2 DEF Shape
  <1>4. \A x \in DOMAIN bl : nb[x] = bl[x]
    BY <1>1, <1>3
  <1>5. node.prev = q /\ node.depth = bl[q].depth + 1 /\ node.depth \in Nat
    BY <1>1
  <1>6. \A x \in DOMAIN nb \ {Genesis} :
            /\ PrvBlkHsh[x] \in DOMAIN bl
            /\ nb[x] = [prev |-> PrvBlkHsh[x], depth |-> bl[PrvBlkHsh[x]].depth + 1]
    BY <1>1, <1>4 DEF Shape
  <1>7. bl[last].depth \in Nat /\ last \in DOMAIN bl
        /\ \A x \in DOMAIN bl : bl[x].depth \in Nat /\ bl[x].depth <= bl[last].depth
    BY DEF Shape
  <1>8. nl \in DOMAIN nb /\ \A x \in DOMAIN nb : nb[x].depth \in Nat /\ nb[x].depth <= nb[nl].depth
    <2>1. CASE bl[q].depth + 1 > bl[last].depth
      <3>1. nl = b
        BY <2>1 DEF Added
      <3> HIDE DEF q, node
      <3> QED BY <1>1, <1>4, <1>5, <1>7, <2>1, <3>1
    <2>2. CASE ~(bl[q].depth + 1 > bl[last].depth)
      <3>1. nl = last
        BY <2>2 DEF Added
      <3> HIDE DEF q, node
      <3> QED BY <1>1, <1>4, <1>5, <1>7, <2>2, <3>1
    <2> QED BY <2>1, <2>2
  <1>9. DOMAIN nb \subseteq Blocks /\ Genesis \in DOMAIN nb /\ nb[Genesis].depth = 0
    BY <1>1, <1>4 DEF Shape
  <1> HIDE DEF q, node
  <1>10. \A x \in DOMAIN nb \ {Genesis} :
            /\ nb[x] = [prev |-> PrvBlkHsh[x], depth |-> nb[PrvBlkHsh[x]].depth + 1]
            /\ PrvBlkHsh[x] \in DOMAIN nb
    BY <1>1, <1>4, <1>6
  <1>11. Shape(nb, nl)
    BY <1>1, <1>8, <1>9, <1>10 DEF Shape
  <1>12. \A x \in DOMAIN nb \ {Genesis} :
            PrvBlkHsh[x] \in DOMAIN bl /\ nb[x].depth = bl[PrvBlkHsh[x]].depth + 1
    BY <1>6
  <1> QED BY <1>1, <1>4, <1>11, <1>12 DEF Growth

\* A step of one tree, in these terms.
LEMMA TreeStepAdded ==
    ASSUME NEW n \in Nodes, TreeStep(n)
    PROVE  \/ blocks'[n] = blocks[n] /\ lastBlock'[n] = lastBlock[n]
           \/ \E b \in Blocks : Added(blocks[n], lastBlock[n], b, blocks'[n], lastBlock'[n])
  <1>1. CASE Chain(n)!Next
    <2>1. PICK b \in Blocks : Chain(n)!AddNode(b) \/ Chain(n)!AddOrphan(b)
      BY <1>1 DEF Chain!Next, Chain!Add
    <2>2. CASE Chain(n)!AddNode(b)
      BY <2>2 DEF Chain!AddNode, Chain!NewNode, Chain!NewLast, Chain!Depth, Chain!Stored, Added
    <2>3. CASE Chain(n)!AddOrphan(b)
      BY <2>3 DEF Chain!AddOrphan
    <2> QED BY <2>1, <2>2, <2>3
  <1>2. CASE UNCHANGED Chain(n)!bcVars
    BY <1>2 DEF Chain!bcVars
  <1> QED BY <1>1, <1>2 DEF TreeStep

LEMMA TreesGrow ==
    ASSUME Trees, \A n \in Nodes : TreeStep(n)
    PROVE  Trees' /\ Grown
  <1>1. ASSUME NEW n \in Nodes
        PROVE  Growth(blocks[n], blocks'[n], lastBlock'[n])
    <2> DEFINE bl == blocks[n]
               last == lastBlock[n]
               nb == blocks'[n]
               nl == lastBlock'[n]
    <2>0. Shape(bl, last)
      BY DEF Trees
    <2> HIDE DEF bl, last, nb, nl
    <2>1. CASE nb = bl /\ nl = last
      <3>1. Shape(nb, nl) /\ \A x \in DOMAIN nb \ {Genesis} :
                /\ PrvBlkHsh[x] \in DOMAIN nb
                /\ nb[x] = [prev |-> PrvBlkHsh[x], depth |-> nb[PrvBlkHsh[x]].depth + 1]
        BY <2>0, <2>1 DEF Shape
      <3>2. \A x \in DOMAIN nb \ {Genesis} :
                PrvBlkHsh[x] \in DOMAIN bl /\ nb[x].depth = bl[PrvBlkHsh[x]].depth + 1
        BY <2>1, <3>1
      <3> QED BY <2>1, <3>1, <3>2 DEF bl, nb, nl, Growth
    <2>2. CASE \E b \in Blocks : Added(bl, last, b, nb, nl)
      <3>1. PICK b \in Blocks : Added(bl, last, b, nb, nl)
        BY <2>2
      <3> QED BY <2>0, <3>1, ShapeAdded DEF bl, nb, nl
    <2> QED BY <2>1, <2>2, TreeStepAdded DEF bl, last, nb, nl
  <1>2. SameDepth'
    <2> SUFFICES ASSUME NEW n \in Nodes, NEW m \in Nodes,
                        NEW b \in DOMAIN blocks'[n] \cap DOMAIN blocks'[m]
                 PROVE  blocks'[n][b].depth = blocks'[m][b].depth
      BY DEF SameDepth, Stored
    <2>1. CASE b = Genesis
      BY <1>1, <2>1 DEF Growth, Shape
    <2>2. CASE b # Genesis
      <3>1. /\ PrvBlkHsh[b] \in DOMAIN blocks[n] \cap DOMAIN blocks[m]
            /\ blocks'[n][b].depth = blocks[n][PrvBlkHsh[b]].depth + 1
            /\ blocks'[m][b].depth = blocks[m][PrvBlkHsh[b]].depth + 1
        BY <1>1, <2>2 DEF Growth
      <3> QED BY <3>1 DEF Trees, SameDepth, Stored
    <2> QED BY <2>1, <2>2
  <1>3. Grown
    BY <1>1 DEF Growth, Grown, Stored
  <1> QED BY <1>1, <1>2, <1>3 DEF Trees, Growth

\* GetBlocks lists stored blocks, at the depths that follow the one asked for.
LEMMA GetBlocksLists ==
    ASSUME NEW p \in Nodes, NEW top, Shape(blocks[p], lastBlock[p])
    PROVE  /\ GetBlocks(p, top) \in Seq(Blocks)
           /\ \A k \in DOMAIN GetBlocks(p, top) :
                 /\ top \in Stored(p) /\ GetBlocks(p, top)[k] \in Stored(p)
                 /\ blocks[p][GetBlocks(p, top)[k]].depth = blocks[p][top].depth + k
  <1> DEFINE bl == blocks[p]
             last == lastBlock[p]
             d == bl[last].depth
             w == Walk!WalkDown(d, bl, last)
             ind == Chain(p)!IndexOf(top)
             up == IF ind + HdrLim < d + 1 THEN ind + HdrLim ELSE d + 1
  <1>0. d \in Nat /\ last \in DOMAIN bl
    BY DEF Shape
  <1>1. Chain(p)!Main = w
    BY DEF Chain!Main, Chain!Depth, Walk!WalkDown, PrevOf
  <1>2. Walk!IsWalkDown(w, d, bl, last)
    <2> HIDE DEF d, bl, last
    <2> QED BY <1>0, Walk!WalkIsDefined
  <1> HIDE DEF w
  <1>3. \A i \in 0 .. d : w[i] \in DOMAIN bl /\ bl[w[i]].depth = i
    <2> DEFINE S == {i \in 0 .. d : w[i] \in DOMAIN bl /\ bl[w[i]].depth = i}
    <2> HIDE DEF bl, last
    <2>0. Shape(bl, last)
      BY DEF bl, last
    <2>1. d \in S
      BY <1>0, <1>2 DEF Walk!IsWalkDown
    <2>2. ASSUME NEW i \in 1 .. d, i \in S PROVE i - 1 \in S
      <3>1. w[i] \in DOMAIN bl /\ bl[w[i]].depth = i /\ w[i - 1] = bl[w[i]].prev
        BY <1>2, <2>2 DEF Walk!IsWalkDown, PrevOf
      <3>2. w[i] # Genesis
        BY <2>0, <3>1, <1>0 DEF Shape
      <3>3. w[i - 1] \in DOMAIN bl /\ bl[w[i]].depth = bl[w[i - 1]].depth + 1
            /\ bl[w[i - 1]].depth \in Nat
        BY <2>0, <3>1, <3>2 DEF Shape
      <3>4. bl[w[i - 1]].depth = i - 1 /\ i - 1 \in 0 .. d
        <4> HIDE DEF d, S
        <4>1. PICK e \in Nat : e = bl[w[i - 1]].depth /\ i = e + 1
          BY <3>1, <3>3, Zenon
        <4>2. PICK dd \in Nat : dd = d /\ i \in 1 .. dd
          BY <1>0
        <4>3. i - 1 = e /\ i - 1 \in 0 .. dd
          BY <4>1, <4>2
        <4> QED BY <4>1, <4>2, <4>3
      <3> QED BY <3>3, <3>4
    <2>3. 0 .. d \subseteq S
      <3> HIDE DEF S, d
      <3> QED BY <1>0, <2>1, <2>2, Walk!DownInduction
    <2> QED BY <2>3
  <1>4. CASE top \notin DOMAIN bl
    <2>1. GetBlocks(p, top) = <<>>
      BY <1>4 DEF GetBlocks, Chain!IndexOf, Chain!Stored
    <2> QED BY <2>1
  <1>5. CASE top \in DOMAIN bl
    <2>1. ind = bl[top].depth /\ ind \in Nat /\ ind <= d
      BY <1>5 DEF Chain!IndexOf, Chain!Stored, Chain!Depth, Shape
    <2>2. Chain(p)!Length = d + 1
      BY DEF Chain!Length, Chain!Depth
    <2>3. up \in Nat /\ up <= d + 1 /\ HdrLim \in Nat
      BY <1>0, <2>1, NodesAssumption
    <2> DEFINE sl == Chain(p)!Slice(ind + 1, up)
    <2>4. GetBlocks(p, top) = sl
      BY <1>0, <2>1, <2>2 DEF GetBlocks
    <2> HIDE DEF ind, up, d
    <2>5. sl = [i \in 1 .. up - (ind + 1) |-> w[(ind + 1) + i - 1]]
      <3>1. ~(ind + 1 < 0) /\ ~(up > d + 1)
        BY <1>0, <2>1, <2>3
      <3> QED BY <1>1, <2>2, <3>1 DEF Chain!Slice
    <2>6. \A i \in 1 .. up - (ind + 1) : (ind + 1) + i - 1 = ind + i /\ ind + i \in 0 .. d
      BY <1>0, <2>1, <2>3
    <2> HIDE DEF sl
    <2>7. \A i \in 1 .. up - (ind + 1) :
              sl[i] = w[ind + i] /\ sl[i] \in DOMAIN bl /\ bl[sl[i]].depth = ind + i
      BY <1>3, <2>5, <2>6
    <2>8. sl \in Seq(Blocks) /\ DOMAIN sl = 1 .. up - (ind + 1)
      <3>1. DOMAIN bl \subseteq Blocks
        BY DEF Shape
      <3>2. up - (ind + 1) \in Int
        BY <2>1, <2>3
      <3>3. \E n \in Nat : 1 .. up - (ind + 1) = 1 .. n
        <4>1. CASE up - (ind + 1) \in Nat
          BY <4>1
        <4>2. CASE up - (ind + 1) < 0
          BY <3>2, <4>2
        <4> QED BY <3>2, <4>1, <4>2
      <3>4. PICK n \in Nat : 1 .. up - (ind + 1) = 1 .. n
        BY <3>3
      <3>5. sl = [i \in 1 .. n |-> sl[i]] /\ \A i \in 1 .. n : sl[i] \in Blocks
        <4> HIDE DEF bl
        <4> QED BY <2>5, <2>7, <3>1, <3>4
      <3> QED BY <3>4, <3>5
    <2> QED BY <1>5, <2>1, <2>4, <2>7, <2>8 DEF Stored
  <1> QED BY <1>4, <1>5
-----------------------------------------------------------------------------
(* Bootstrap catches up *)

\* s lists blocks that some node has, at the depths that follow d.
Follows(s, d) ==
    /\ s \in Seq(Blocks)
    /\ \E p \in Nodes : \A k \in DOMAIN s : s[k] \in Stored(p) /\ blocks[p][s[k]].depth = d + k

\* todo is the rest of res, and n has stored what comes before it.
Rest(n, res, todo) ==
    /\ todo \in Seq(Blocks) /\ Len(todo) <= Len(res)
    /\ \A k \in 1 .. Len(res) - Len(todo) : res[k] \in Stored(n)
    /\ \A k \in 1 .. Len(todo) : todo[k] = res[Len(res) - Len(todo) + k]

\* The variables rec of a Bootstrap of n that is at pc.
BootOK(n, rec, pc) ==
    /\ rec.resp = [p \in Peers[n] |-> rec.resp[p]]
    /\ rec.top \in Stored(n)
    /\ Follows(rec.res, blocks[n][rec.top].depth)
    /\ \A p \in Peers[n] : Follows(rec.resp[p], blocks[n][rec.top].depth)
    /\ pc = "idle" => rec.res = <<>> /\ \A p \in Peers[n] : rec.resp[p] = <<>>
    /\ pc \in {"load", "add", "done"} =>
          Rest(n, rec.res, rec.todo) /\ (pc = "done" <=> rec.todo = <<>>)

CInv == NInv /\ Trees /\ \A n \in Nodes : BootOK(n, boot[n], bootAt[n])

LEMMA EmptyFollows == ASSUME NEW n \in Nodes, NEW d PROVE Follows(<<>>, d)
  <1>1. DOMAIN <<>> = {} /\ <<>> \in Seq(Blocks)
    OBVIOUS
  <1> QED BY <1>1 DEF Follows

\* What holds of the variables of a Bootstrap holds after the trees have grown.
LEMMA BootOKStays ==
    ASSUME Grown, NEW n \in Nodes, NEW rec, NEW pc, BootOK(n, rec, pc)
    PROVE  BootOK(n, rec, pc)'
  <1>1. ASSUME NEW m \in Nodes, NEW b \in Stored(m)
        PROVE  b \in Stored(m)' /\ blocks'[m][b] = blocks[m][b]
    BY <1>1 DEF Grown, Stored
  <1>2. rec.top \in Stored(n)' /\ blocks'[n][rec.top] = blocks[n][rec.top]
    BY <1>1 DEF BootOK
  <1>3. ASSUME NEW s, NEW d, Follows(s, d) PROVE Follows(s, d)'
    <2>1. PICK p \in Nodes : \A k \in DOMAIN s :
              s[k] \in Stored(p) /\ blocks[p][s[k]].depth = d + k
      BY <1>3 DEF Follows
    <2>2. \A k \in DOMAIN s : s[k] \in Stored(p)' /\ blocks'[p][s[k]].depth = d + k
      BY <1>1, <2>1
    <2> QED BY <1>3, <2>2 DEF Follows
  <1>4. Rest(n, rec.res, rec.todo) => Rest(n, rec.res, rec.todo)'
    BY <1>1 DEF Rest
  <1>5. PICK d : d = blocks[n][rec.top].depth /\ d = blocks'[n][rec.top].depth
    BY <1>2
  <1>6. Follows(rec.res, d) /\ \A p \in Peers[n] : Follows(rec.resp[p], d)
    BY <1>5 DEF BootOK
  <1>7. Follows(rec.res, d)' /\ \A p \in Peers[n] : Follows(rec.resp[p], d)'
    BY <1>3, <1>6
  <1> QED BY <1>2, <1>4, <1>5, <1>7 DEF BootOK

BootsOK == \A n \in Nodes : BootOK(n, boot[n], bootAt[n])

\* A step that sets the variables of one Bootstrap, or none.
LEMMA BootSet ==
    ASSUME CInv, Grown, NEW n \in Nodes, NEW rec, NEW pc,
           boot' = [boot EXCEPT ![n] = rec], bootAt' = [bootAt EXCEPT ![n] = pc],
           BootOK(n, rec, pc)'
    PROVE  BootsOK'
  <1> SUFFICES ASSUME NEW m \in Nodes PROVE BootOK(m, boot[m], bootAt[m])'
    BY DEF BootsOK
  <1>0. boot = [x \in Nodes |-> boot[x]] /\ bootAt = [x \in Nodes |-> bootAt[x]]
    BY DEF CInv, NInv, TypeOK, PerNode
  <1>1. CASE m = n
    <2>1. boot'[n] = rec /\ bootAt'[n] = pc
      BY <1>0
    <2> QED BY <1>1, <2>1
  <1>2. CASE m # n
    <2>1. PICK r, q : r = boot[m] /\ q = bootAt[m]
      OBVIOUS
    <2>2. BootOK(m, r, q)'
      BY <2>1, BootOKStays DEF CInv
    <2>3. boot'[m] = r /\ bootAt'[m] = q
      BY <1>0, <1>2, <2>1
    <2> QED BY <2>2, <2>3
  <1> QED BY <1>1, <1>2

LEMMA BootAlone ==
    ASSUME CInv, Grown, boot' = boot, bootAt' = bootAt
    PROVE  BootsOK'
  <1> SUFFICES ASSUME NEW m \in Nodes PROVE BootOK(m, boot[m], bootAt[m])'
    BY DEF BootsOK
  <1>1. PICK r, q : r = boot[m] /\ q = bootAt[m]
    OBVIOUS
  <1>2. BootOK(m, r, q)'
    BY <1>1, BootOKStays DEF CInv
  <1> QED BY <1>1, <1>2

\* The record of a Bootstrap.
Fields == {"top", "at", "resp", "got", "res", "addr", "todo"}

LEMMA BootAskOK ==
    ASSUME CInv, Grown, NEW n \in Nodes, NEW p \in Peers[n], BootAsk(n, p)
    PROVE  BootsOK'
  <1>0. /\ DOMAIN boot[n] = Fields /\ boot = [x \in Nodes |-> boot[x]]
        /\ bootAt = [x \in Nodes |-> bootAt[x]] /\ p \in Nodes
        /\ BootOK(n, boot[n], bootAt[n]) /\ Shape(blocks[p], lastBlock[p])
    BY NodesAssumption DEF CInv, NInv, TypeOK, PerNode, Fields, Trees
  <1>1. bootAt[n] = "ask" /\ bootAt' = bootAt
    BY DEF BootAsk, BootCall, BootTest, BootRes, BootAddr, Asking
  <1>2. bootAt' = [bootAt EXCEPT ![n] = "ask"]
    BY <1>0, <1>1
  <1>3. ASSUME NEW rec, boot' = [boot EXCEPT ![n] = rec], BootOK(n, rec, "ask")
        PROVE  BootsOK'
    <2>1. BootOK(n, rec, "ask")'
      BY <1>3, BootOKStays
    <2> QED BY <1>2, <1>3, <2>1, BootSet
  <1>4. PICK r : r = boot[n]
    OBVIOUS
  <1>5. ASSUME NEW rec, boot' = [boot EXCEPT ![n] = rec], rec.top = r.top, rec.resp = r.resp,
               rec.res = r.res \/ rec.res = r.resp[p]
        PROVE  BootsOK'
    <2>1. BootOK(n, rec, "ask")
      BY <1>0, <1>1, <1>4, <1>5 DEF BootOK
    <2> QED BY <1>3, <1>5, <2>1
  <1>6. ASSUME NEW res \in GetBlocksRPC(p, r.top),
               SetBoot(n, [boot[n] EXCEPT !.resp[p] = res, !.at[p] = "test"])
        PROVE  BootsOK'
    <2> DEFINE rec == [boot[n] EXCEPT !.resp[p] = res, !.at[p] = "test"]
               d == blocks[n][r.top].depth
    <2>1. rec.top = r.top /\ rec.res = r.res /\ rec.resp = [r.resp EXCEPT ![p] = res]
      BY <1>0, <1>4 DEF Fields
    <2>2. Follows(res, d)
      <3>1. res = GetBlocks(p, r.top)
        BY <1>6 DEF GetBlocksRPC
      <3>2. /\ res \in Seq(Blocks)
            /\ \A k \in DOMAIN res : /\ r.top \in Stored(p) /\ res[k] \in Stored(p)
                                     /\ blocks[p][res[k]].depth = blocks[p][r.top].depth + k
        BY <1>0, <3>1, GetBlocksLists
      <3>3. r.top \in Stored(n)
        BY <1>0, <1>4 DEF BootOK
      <3>4. r.top \in Stored(p) => blocks[p][r.top].depth = d
        BY <1>0, <3>3 DEF CInv, Trees, SameDepth
      <3> QED BY <1>0, <3>2, <3>4 DEF Follows
    <2>3. BootOK(n, r, "ask")
      BY <1>0, <1>1, <1>4
    <2>4. rec.resp = [q \in Peers[n] |-> IF q = p THEN res ELSE r.resp[q]]
      BY <2>1, <2>3 DEF BootOK
    <2> HIDE DEF rec
    <2>5. BootOK(n, rec, "ask")
      BY <2>1, <2>2, <2>3, <2>4 DEF BootOK
    <2>6. boot' = [boot EXCEPT ![n] = rec]
      BY <1>6 DEF SetBoot, rec
    <2>7. PICK x : x = rec
      OBVIOUS
    <2>8. boot' = [boot EXCEPT ![n] = x] /\ BootOK(n, x, "ask")
      BY <2>5, <2>6, <2>7
    <2> QED BY <1>3, <2>8
  <1>7. ASSUME NEW rec, SetBoot(n, rec), rec.top = r.top, rec.resp = r.resp,
               rec.res = r.res \/ rec.res = r.resp[p]
        PROVE  BootsOK'
    BY <1>5, <1>7 DEF SetBoot
  <1>8. CASE BootCall(n, p)
    <2>1. CASE \E res \in GetBlocksRPC(p, boot[n].top) :
                   SetBoot(n, [boot[n] EXCEPT !.resp[p] = res, !.at[p] = "test"])
      BY <1>4, <1>6, <2>1
    <2>2. CASE SetBoot(n, [boot[n] EXCEPT !.at[p] = "done"])
      <3>1. PICK x : x = [boot[n] EXCEPT !.at[p] = "done"]
        OBVIOUS
      <3>2. x.top = r.top /\ x.resp = r.resp /\ x.res = r.res
        BY <1>0, <1>4, <3>1 DEF Fields
      <3> QED BY <1>7, <2>2, <3>1, <3>2
    <2> QED BY <1>8, <2>1, <2>2 DEF BootCall
  <1>9. CASE BootTest(n, p)
    <2>1. PICK at : SetBoot(n, [boot[n] EXCEPT !.at[p] = at])
      BY <1>9 DEF BootTest
    <2>2. PICK x : x = [boot[n] EXCEPT !.at[p] = at]
      OBVIOUS
    <2>3. x.top = r.top /\ x.resp = r.resp /\ x.res = r.res
      BY <1>0, <1>4, <2>2 DEF Fields
    <2> QED BY <1>7, <2>1, <2>2, <2>3
  <1>10. CASE BootRes(n, p)
    <2>1. PICK x : x = [boot[n] EXCEPT !.res = boot[n].resp[p], !.got = TRUE, !.at[p] = "addr"]
      OBVIOUS
    <2>2. x.top = r.top /\ x.resp = r.resp /\ x.res = r.resp[p]
      BY <1>0, <1>4, <2>1 DEF Fields
    <2> QED BY <1>7, <1>10, <2>1, <2>2 DEF BootRes
  <1>11. CASE BootAddr(n, p)
    <2>1. PICK x : x = [boot[n] EXCEPT !.addr = p, !.at[p] = "done"]
      OBVIOUS
    <2>2. x.top = r.top /\ x.resp = r.resp /\ x.res = r.res
      BY <1>0, <1>4, <2>1 DEF Fields
    <2> QED BY <1>7, <1>11, <2>1, <2>2 DEF BootAddr
  <1> QED BY <1>8, <1>9, <1>10, <1>11 DEF BootAsk

LEMMA BootStartOK ==
    ASSUME CInv, Grown, NEW n \in Nodes, BootStart(n)
    PROVE  BootsOK'
  <1>0. /\ DOMAIN boot[n] = Fields /\ BootOK(n, boot[n], "idle")
        /\ lastBlock[n] \in Stored(n)
    BY DEF CInv, NInv, TypeOK, PerNode, Fields, BootStart, Trees, Shape, Stored
  <1>1. PICK x : x = [boot[n] EXCEPT !.top = lastBlock[n]]
    OBVIOUS
  <1>2. boot' = [boot EXCEPT ![n] = x] /\ bootAt' = [bootAt EXCEPT ![n] = "ask"]
    BY <1>1 DEF BootStart, SetBoot, GoBoot
  <1>3. x.top = lastBlock[n] /\ x.res = <<>> /\ x.resp = boot[n].resp
        /\ \A p \in Peers[n] : x.resp[p] = <<>>
    BY <1>0, <1>1 DEF Fields, BootOK
  <1>4. BootOK(n, x, "ask")
    BY <1>0, <1>3, EmptyFollows DEF BootOK
  <1>5. BootOK(n, x, "ask")'
    BY <1>4, BootOKStays
  <1> QED BY <1>2, <1>5, BootSet

LEMMA BootWaitOK ==
    ASSUME CInv, Grown, NEW n \in Nodes, BootWait(n)
    PROVE  BootsOK'
  <1>0. /\ DOMAIN boot[n] = Fields /\ BootOK(n, boot[n], "ask")
        /\ bootAt[n] = "ask"
    BY DEF CInv, NInv, TypeOK, PerNode, Fields, BootWait
  <1>1. PICK x, pc : /\ x = [boot[n] EXCEPT !.todo = boot[n].res]
                     /\ pc = IF boot[n].res = <<>> THEN "done" ELSE "load"
    OBVIOUS
  <1>2. boot' = [boot EXCEPT ![n] = x] /\ bootAt' = [bootAt EXCEPT ![n] = pc]
    BY <1>1 DEF BootWait, SetBoot, GoBoot
  <1>3. x.top = boot[n].top /\ x.res = boot[n].res /\ x.resp = boot[n].resp /\ x.todo = x.res
    BY <1>0, <1>1 DEF Fields
  <1>4. Rest(n, x.res, x.todo)
    <2>1. x.res \in Seq(Blocks) /\ Len(x.res) \in Nat
      BY <1>0, <1>3 DEF BootOK, Follows
    <2> DEFINE s == x.res
    <2> HIDE DEF s
    <2>2. Len(s) - Len(s) = 0 /\ (\A k \in 1 .. Len(s) : 0 + k = k) /\ 1 .. 0 = {}
      BY <2>1 DEF s
    <2>3. Rest(n, s, s)
      BY <2>1, <2>2 DEF Rest, s
    <2> QED BY <1>3, <2>3 DEF s
  <1>5. pc \in {"done", "load"} /\ (pc = "done" <=> x.todo = <<>>)
    BY <1>1, <1>3
  <1>6. BootOK(n, x, pc)
    BY <1>0, <1>3, <1>4, <1>5 DEF BootOK
  <1>7. BootOK(n, x, pc)'
    BY <1>6, BootOKStays
  <1> QED BY <1>2, <1>7, BootSet

LEMMA BootLoadOK ==
    ASSUME CInv, Grown, NEW n \in Nodes, BootLoad(n)
    PROVE  BootsOK'
  <1>0. /\ bootAt[n] = "load" /\ BootOK(n, boot[n], "load") /\ boot' = boot
        /\ boot = [x \in Nodes |-> boot[x]]
    BY DEF CInv, NInv, PerNode, BootLoad
  <1>1. CASE bootAt' = bootAt
    BY <1>0, <1>1, BootAlone
  <1>2. CASE bootAt' = [bootAt EXCEPT ![n] = "add"]
    <2>1. PICK x : x = boot[n]
      OBVIOUS
    <2>2. BootOK(n, x, "add")
      BY <1>0, <2>1 DEF BootOK
    <2>3. BootOK(n, x, "add")'
      BY <2>2, BootOKStays
    <2>4. boot' = [boot EXCEPT ![n] = x]
      BY <1>0, <2>1
    <2> QED BY <1>2, <2>3, <2>4, BootSet
  <1> QED BY <1>1, <1>2 DEF BootLoad, GoBoot

\* The block that Bootstrap adds is the next of the list.
LEMMA BootAddOK ==
    ASSUME CInv, Grown, NEW n \in Nodes, BootAdd(n)
    PROVE  BootsOK'
  <1>0. /\ bootAt[n] = "add" /\ BootOK(n, boot[n], "add") /\ DOMAIN boot[n] = Fields
        /\ TypeOK /\ PerNode
    BY DEF CInv, NInv, PerNode, Fields, BootAdd
  <1>1. CASE PrvBlkHsh[Head(boot[n].todo)] \notin Stored(n)
    BY <1>1, BootAlone DEF BootAdd, bootVars
  <1>2. CASE PrvBlkHsh[Head(boot[n].todo)] \in Stored(n)
    <2>1. PICK r : r = boot[n]
      OBVIOUS
    <2>2. PICK x, pc : /\ x = [boot[n] EXCEPT !.todo = Tail(boot[n].todo)]
                       /\ pc = IF Tail(boot[n].todo) = <<>> THEN "done" ELSE "load"
      OBVIOUS
    <2>3. boot' = [boot EXCEPT ![n] = x] /\ bootAt' = [bootAt EXCEPT ![n] = pc]
      BY <1>2, <2>2 DEF BootAdd, NextHash, SetBoot, GoBoot
    <2>4. x.top = r.top /\ x.res = r.res /\ x.resp = r.resp /\ x.todo = Tail(r.todo)
      BY <1>0, <2>1, <2>2 DEF Fields
    <2>5. BootOK(n, r, "add")'
      BY <1>0, <2>1, BootOKStays
    <2>6. Head(r.todo) \in Stored(n)'
      <3>1. Head(r.todo) \in Blocks
        BY <1>0, <2>1 DEF CInv, NInv, HandledSeen, TypeOK
      <3> QED BY <1>0, <1>2, <2>1, <3>1, AddBlockEffect DEF BootAdd
    <2>7. Rest(n, x.res, x.todo)'
      <3> DEFINE res == r.res
                 todo == r.todo
      <3>1. Rest(n, res, todo)' /\ todo # <<>>
        BY <2>5 DEF BootOK
      <3>2. res \in Seq(Blocks)
        BY <2>5 DEF BootOK, Follows
      <3> HIDE DEF res, todo
      <3>3. /\ todo \in Seq(Blocks) /\ Len(todo) \in Nat /\ Len(todo) >= 1 /\ Len(res) \in Nat
            /\ Tail(todo) \in Seq(Blocks) /\ Len(Tail(todo)) = Len(todo) - 1
            /\ \A k \in 1 .. Len(todo) - 1 : Tail(todo)[k] = todo[k + 1]
            /\ Head(todo) = todo[1] /\ Len(todo) <= Len(res)
        BY <3>1, <3>2 DEF Rest
      <3> DEFINE j == Len(res) - Len(todo)
      <3>4. j \in Nat /\ Len(res) - Len(Tail(todo)) = j + 1
        BY <3>3
      <3>5. \A k \in 1 .. j : res[k] \in Stored(n)'
        BY <3>1 DEF Rest
      <3>6. \A k \in 1 .. Len(todo) : todo[k] = res[j + k]
        BY <3>1 DEF Rest
      <3> HIDE DEF j
      <3>7. res[j + 1] \in Stored(n)'
        BY <2>6, <3>3, <3>6 DEF todo
      <3>8. ASSUME NEW k \in 1 .. j + 1 PROVE res[k] \in Stored(n)'
        <4>1. k = j + 1 \/ k \in 1 .. j
          BY <3>4
        <4> QED BY <3>5, <3>7, <4>1
      <3>9. ASSUME NEW k \in 1 .. Len(todo) - 1 PROVE Tail(todo)[k] = res[(j + 1) + k]
        <4>1. k + 1 \in 1 .. Len(todo) /\ j + (k + 1) = (j + 1) + k
          BY <3>3, <3>4
        <4> QED BY <3>3, <3>6, <4>1
      <3>10. Rest(n, res, Tail(todo))'
        BY <3>3, <3>4, <3>8, <3>9 DEF Rest
      <3> QED BY <2>4, <3>10 DEF res, todo
    <2>8. pc \in {"done", "load"} /\ (pc = "done" <=> x.todo = <<>>)
      BY <2>1, <2>2, <2>4
    <2>9. BootOK(n, x, pc)'
      BY <2>4, <2>5, <2>7, <2>8 DEF BootOK
    <2> QED BY <2>3, <2>9, BootSet
  <1> QED BY <1>1, <1>2

\* One case per action.
LEMMA CStep == CInv /\ [Next]_nodeVars => CInv'
  <1> SUFFICES ASSUME CInv, [Next]_nodeVars PROVE CInv'
    OBVIOUS
  <1>1. NInv' /\ Trees' /\ Grown
    BY NStep, StepTrees, TreesGrow DEF CInv
  <1>2. BootsOK'
    <2>1. CASE boot' = boot /\ bootAt' = bootAt
      BY <1>1, <2>1, BootAlone
    <2>2. CASE \E n \in Nodes : Bootstrap(n)
      BY <1>1, <2>2, BootStartOK, BootAskOK, BootWaitOK, BootLoadOK, BootAddOK DEF Bootstrap
    <2>3. CASE \E n \in Nodes, b \in Blocks : HndlMnrBlk(n, b)
      BY <2>1, <2>3 DEF HndlMnrBlk
    <2>4. CASE \E n \in Nodes, t \in Txs : HndlWtTx(n, t)
      BY <2>1, <2>4 DEF HndlWtTx
    <2>5. CASE \E r \in net \cup DOMAIN running : Handle(r)
      BY <2>1, <2>5 DEF Handle, ReceiveBlk, ReceiveTx, Validate, ApplyBlk, ApplyTx
    <2>6. CASE \E n \in Nodes : Race(n)
      BY <2>1, <2>6 DEF Race
    <2>7. CASE UNCHANGED nodeVars
      BY <2>1, <2>7 DEF nodeVars
    <2> QED BY <2>2, <2>3, <2>4, <2>5, <2>6, <2>7 DEF Next
  <1> QED BY <1>1, <1>2 DEF CInv, BootsOK

LEMMA CInit == Init => CInv
  <1> SUFFICES ASSUME Init PROVE CInv
    OBVIOUS
  <1>1. \A n \in Nodes : /\ blocks[n] = [b \in {Genesis} |-> [prev |-> PrvBlkHsh[Genesis], depth |-> 0]]
                         /\ lastBlock[n] = Genesis /\ Stored(n) = {Genesis}
                         /\ bootAt[n] = "idle"
                         /\ boot[n].top = Genesis /\ boot[n].res = <<>>
                         /\ boot[n].resp = [p \in Peers[n] |-> <<>>]
    BY DEF Init, Stored
  <1>2. Trees
    <2>1. ASSUME NEW n \in Nodes PROVE Shape(blocks[n], lastBlock[n])
      <3> DEFINE bl == blocks[n]
      <3>1. /\ bl = [b \in {Genesis} |-> [prev |-> PrvBlkHsh[Genesis], depth |-> 0]]
            /\ lastBlock[n] = Genesis /\ Genesis \in Blocks
        BY <1>1, UniverseAssumption
      <3> HIDE DEF bl
      <3>2. DOMAIN bl = {Genesis} /\ bl[Genesis].depth = 0 /\ bl = [b \in DOMAIN bl |-> bl[b]]
        BY <3>1
      <3>3. Shape(bl, lastBlock[n])
        BY <3>1, <3>2 DEF Shape
      <3> QED BY <3>3 DEF bl
    <2>2. SameDepth
      BY <1>1 DEF SameDepth
    <2> QED BY <2>1, <2>2 DEF Trees
  <1>3. ASSUME NEW n \in Nodes PROVE BootOK(n, boot[n], bootAt[n])
    <2>1. Follows(<<>>, blocks[n][boot[n].top].depth)
      BY EmptyFollows
    <2> QED BY <1>1, <2>1 DEF BootOK
  <1> QED BY <1>2, <1>3, NInit DEF CInv

\* What the invariant says of a Bootstrap that has ended.
LEMMA EndedCaughtUp == CInv => CaughtUp
  <1> SUFFICES ASSUME CInv, NEW n \in Nodes, bootAt[n] = "done"
               PROVE  /\ \A k \in DOMAIN boot[n].res : boot[n].res[k] \in Stored(n)
                      /\ blocks[n][lastBlock[n]].depth
                            >= blocks[n][boot[n].top].depth + Len(boot[n].res)
    BY DEF CaughtUp
  <1> DEFINE res == boot[n].res
             d == blocks[n][boot[n].top].depth
  <1>1. /\ Rest(n, res, <<>>) /\ Follows(res, d) /\ boot[n].top \in Stored(n)
        /\ Shape(blocks[n], lastBlock[n])
    BY DEF CInv, BootOK, Trees
  <1>2. d \in Nat /\ d <= blocks[n][lastBlock[n]].depth /\ blocks[n][lastBlock[n]].depth \in Nat
    BY <1>1 DEF Shape, Stored
  <1> HIDE DEF res, d
  <1>3. res \in Seq(Blocks) /\ Len(res) \in Nat /\ DOMAIN res = 1 .. Len(res)
    BY <1>1 DEF Follows
  <1>4. \A k \in DOMAIN res : res[k] \in Stored(n)
    <2>1. Len(<<>>) = 0 /\ Len(res) - 0 = Len(res)
      BY <1>3
    <2> QED BY <1>1, <1>3, <2>1 DEF Rest
  <1>5. blocks[n][lastBlock[n]].depth >= d + Len(res)
    <2>1. CASE Len(res) = 0
      BY <1>2, <2>1
    <2>2. CASE Len(res) # 0
      <3> DEFINE b == res[Len(res)]
      <3>1. Len(res) \in DOMAIN res
        BY <1>3, <2>2
      <3>2. PICK p \in Nodes : b \in Stored(p) /\ blocks[p][b].depth = d + Len(res)
        BY <1>1, <3>1 DEF Follows
      <3>3. b \in Stored(n)
        BY <1>4, <3>1
      <3> HIDE DEF b
      <3>4. blocks[n][b].depth = d + Len(res)
        BY <3>2, <3>3 DEF CInv, Trees, SameDepth
      <3>5. blocks[n][b].depth <= blocks[n][lastBlock[n]].depth
        BY <1>1, <3>3 DEF Shape, Stored
      <3> QED BY <1>2, <1>3, <3>4, <3>5
    <2> QED BY <2>1, <2>2
  <1> QED BY <1>4, <1>5 DEF res, d

\* A Bootstrap that ends has stored every block that it was told of, and its main
\* chain is as long as the peer's was: although the list may come from a fork that
\* the node does not have, and although handlers and the miner add blocks meanwhile.
THEOREM BootstrapCatchesUp == Spec => []CaughtUp
  BY CInit, CStep, EndedCaughtUp, PTL DEF Spec
=============================================================================

-------------------------------- MODULE Node --------------------------------
(***************************************************************************)
(* BrunoCoin nodes that flood blocks and transactions to their peers and   *)
(* bootstrap from one another (BrunoCoin/pkg: node.go, server.go,          *)
(* validation.go).  Each node has a block tree, an instance of Blockchain. *)
(*                                                                         *)
(* An RPC runs as a goroutine of its own at both ends: a request in flight *)
(* may overtake another.  It is lost when the server is paused or the call *)
(* times out, which the sender only logs; a lost request is one that stays *)
(* in the network.  A handler is split where other goroutines may run:     *)
(* test of the map of seen items, validation, effect.  What a handler      *)
(* passes on to the miner and the wallet is in Miner and Wallet.           *)
(***************************************************************************)
EXTENDS Integers, Sequences, FiniteSets, FiniteSetsExt

CONSTANTS Blocks, Genesis, Txs, PubKeys,            \* as in Blockchain
          PrvBlkHsh, Transactions, Inputs, Outputs,
          Nodes,      \* the nodes
          Peers,      \* node -> nodes in its PeerDb
          MinerOf,    \* block -> node that mines it, or none
          PayerOf,    \* transaction -> node whose wallet makes it, or none
          Starters,   \* nodes that call Bootstrap
          HdrLim,     \* GetBlocks lists fewer hashes than this; 500
          Word        \* number of values of a uint32 amount

Locators == Txs \X (Nat \ {0})

ASSUME UniverseAssumption ==
    /\ Genesis \in Blocks
    /\ PrvBlkHsh[Genesis] \notin Blocks
    /\ Transactions \in [Blocks -> Seq(Txs)]
    /\ Inputs \in [Txs -> Seq([loc : Locators, amt : Nat, signer : PubKeys])]
    /\ Outputs \in [Txs -> Seq([amt : Nat, pk : PubKeys])]

ASSUME NodesAssumption ==
    /\ Blocks \cap Txs = {}
    /\ Peers \in [Nodes -> SUBSET Nodes]
    /\ HdrLim \in Nat \ {0} /\ Word \in Nat \ {0}

\* Outputs that a transaction and a block spend and create.
TxSpends(t) == {Inputs[t][k].loc : k \in DOMAIN Inputs[t]}
TxCreates(t) == {t} \X DOMAIN Outputs[t]
Spends == [b \in Blocks |-> UNION {TxSpends(Transactions[b][k]) : k \in DOMAIN Transactions[b]}]
Creates == [b \in Blocks |-> UNION {TxCreates(Transactions[b][k]) : k \in DOMAIN Transactions[b]}]

\* GenesisBlock: one coinbase transaction with one output.
ASSUME GenesisAssumption ==
    /\ Spends[Genesis] = {}
    /\ \A l \in Creates[Genesis] : l[2] = 1

VARIABLES blocks, lastBlock, utxo,  \* node -> those of its block tree
          blockMap, txMap,          \* node -> hashes of blocks, of transactions seen
          status,                   \* node -> "up", or what ended its process
          net,                      \* requests <<from, to, item>> in flight
          running,                  \* request being handled -> where its handler is
          bootAt, boot,             \* node -> where its Bootstrap is, its variables
          refused                   \* history: <<node, item>> found not valid

treeVars == <<blocks, lastBlock, utxo>>
bootVars == <<bootAt, boot>>
nodeVars == <<blocks, lastBlock, utxo, blockMap, txMap, status, net, running,
              bootAt, boot, refused>>

Chain(n) == INSTANCE Blockchain WITH
                blocks <- blocks[n], lastBlock <- lastBlock[n], utxo <- utxo[n],
                liminal <- {}, alive <- (status[n] # "orphan"), grants <- <<>>,
                Amounts <- {}, MaxGrants <- 0

Up(n) == status[n] = "up"
Stored(n) == DOMAIN blocks[n]
Requests == Nodes \X Nodes \X (Blocks \cup Txs)

\* One request to every peer.
Broadcast(n, x) == {<<n, p, x>> : p \in Peers[n]}
-----------------------------------------------------------------------------
(* Validation *)

SumOutputs(t) == MapThenSumSet(LAMBDA k : Outputs[t][k].amt, DOMAIN Outputs[t]) % Word
SumInputs(t) == MapThenSumSet(LAMBDA k : Inputs[t][k].amt, DOMAIN Inputs[t]) % Word

\* ChkTx, against the utxo map of LastBlock.  Sizes are below the limit.
ChkTx(n, t) ==
    /\ SumOutputs(t) # 0
    /\ SumOutputs(t) <= SumInputs(t)
    /\ \A k \in DOMAIN Inputs[t] :
          LET in == Inputs[t][k]
          IN  ~Chain(n)!IsInvalidInput(in.loc) /\ Chain(n)!OwnerOf(in.loc) = in.signer

\* ChkBlk.  The nonce and the size of a block are right by construction.
ChkBlk(n, b) ==
    LET txs == Transactions[b]
    IN  /\ txs # <<>>
        /\ Inputs[txs[1]] = <<>>
        /\ Chain(n)!ChkChainsUTXO(Tail(txs))
        /\ \A k \in 2 .. Len(txs) : ChkTx(n, txs[k])
        /\ SumOutputs(txs[1]) # 0
-----------------------------------------------------------------------------
(* Blocks enter the tree of a node *)

Init ==
    /\ blocks = [n \in Nodes |-> [b \in {Genesis} |->
                    [prev |-> PrvBlkHsh[Genesis], depth |-> 0]]]
    /\ lastBlock = [n \in Nodes |-> Genesis]
    /\ utxo = [n \in Nodes |-> {l \in Creates[Genesis] : l[2] = 1}]
    /\ blockMap = [n \in Nodes |-> {}]
    /\ txMap = [n \in Nodes |-> {}]
    /\ status = [n \in Nodes |-> "up"]
    /\ net = {}
    /\ running = [r \in {} |-> "check"]
    /\ bootAt = [n \in Nodes |-> "idle"]
    /\ boot = [n \in Nodes |->
                 [top |-> Genesis, at |-> [p \in Peers[n] |-> "call"],
                  resp |-> [p \in Peers[n] |-> <<>>], got |-> FALSE, res |-> <<>>,
                  addr |-> n, todo |-> <<>>]]
    /\ refused = {}

\* Mutant of AddBlock: a block without its parent hangs on LastBlock.
AddBlockAnywhere(n, b) ==
    LET node == IF PrvBlkHsh[b] \in Stored(n) THEN Chain(n)!NewNode(b)
                ELSE Chain(n)!NewNodeOnLast(b)
    IN  /\ blocks' = [blocks EXCEPT ![n] =
              [x \in Stored(n) \cup {b} |-> IF x = b THEN node ELSE blocks[n][x]]]
        /\ lastBlock' = [lastBlock EXCEPT ![n] =
              IF node.depth > Chain(n)!Depth(lastBlock[n]) THEN b ELSE @]
        /\ utxo' = [utxo EXCEPT ![n] = Chain(n)!ApplyTxs(utxo[n], Transactions[b])]
        /\ UNCHANGED status

\* Chain.Add: a block without its parent in the tree ends the process.
AddBlock(n, b) ==
    \/ /\ PrvBlkHsh[b] \in Stored(n)
       /\ blocks' = [blocks EXCEPT ![n] =
             [x \in Stored(n) \cup {b} |->
                 IF x = b THEN Chain(n)!NewNode(b) ELSE blocks[n][x]]]
       /\ lastBlock' = [lastBlock EXCEPT ![n] = Chain(n)!NewLast(b)]
       /\ utxo' = [utxo EXCEPT ![n] = Chain(n)!ApplyTxs(utxo[n], Transactions[b])]
       /\ UNCHANGED status
    \/ /\ PrvBlkHsh[b] \notin Stored(n)
       /\ status' = [status EXCEPT ![n] = "orphan"]
       /\ UNCHANGED treeVars

\* Outputs that the stored blocks of n created, and that they spent.
Made(n) == UNION {Creates[b] : b \in Stored(n)}
Used(n) == UNION {Spends[b] : b \in Stored(n)}

\* The miner of n has a block to hand over.  It builds on a block that n has
\* stored, from transactions that passed ChkTx or came from the wallet.
Mineable(n, b) ==
    /\ Up(n) /\ MinerOf[b] = n /\ b \notin blockMap[n]
    /\ b # Genesis /\ PrvBlkHsh[b] \in Stored(n) /\ Spends[b] \subseteq Made(n)

\* Mutant of HndlMnrBlk: the block does not enter the map of seen blocks.
HndlMnrBlkUnseen(n, b) ==
    /\ Mineable(n, b)
    /\ AddBlock(n, b)
    /\ net' = net \cup Broadcast(n, b)
    /\ UNCHANGED <<blockMap, txMap, running, bootAt, boot, refused>>

\* HndlMnrBlk.  Nobody else has the block before the broadcast, so that
\* nothing can come between its parts.
HndlMnrBlk(n, b) ==
    /\ Mineable(n, b)
    /\ blockMap' = [blockMap EXCEPT ![n] = @ \cup {b}]
    /\ AddBlock(n, b)
    /\ net' = net \cup Broadcast(n, b)
    /\ UNCHANGED <<txMap, running, bootAt, boot, refused>>

\* HndlWtTx.  The wallet pays with outputs of stored blocks.
Payable(n) == {t \in Txs : PayerOf[t] = n /\ t \notin txMap[n] /\ TxSpends(t) \subseteq Made(n)}
HndlWtTx(n, t) ==
    /\ Up(n) /\ t \in Payable(n)
    /\ txMap' = [txMap EXCEPT ![n] = @ \cup {t}]
    /\ net' = net \cup Broadcast(n, t)
    /\ UNCHANGED <<blocks, lastBlock, utxo, blockMap, status, running, bootAt, boot, refused>>
-----------------------------------------------------------------------------
(* ForwardBlock and ForwardTransaction *)

\* gRPC calls the handler of a request in a goroutine of its own.
Arrives(r, S) == r \in net /\ r[3] \in S /\ Up(r[2]) /\ net' = net \ {r}

Start(r) == [x \in DOMAIN running \cup {r} |-> IF x = r THEN "check" ELSE running[x]]
Finish(r) == [x \in DOMAIN running \ {r} |-> running[x]]

\* Mutants of ReceiveBlk: the wrong map is written, or the map is not tested.
ReceiveBlkWrongMap(r) ==
    /\ Arrives(r, Blocks)
    /\ running' = IF r[3] \in blockMap[r[2]] THEN running ELSE Start(r)
    /\ txMap' = [txMap EXCEPT ![r[2]] = @ \cup {r[3]}]
    /\ UNCHANGED <<blocks, lastBlock, utxo, blockMap, status, bootAt, boot, refused>>
ReceiveBlkUntested(r) ==
    /\ Arrives(r, Blocks)
    /\ running' = Start(r)
    /\ blockMap' = [blockMap EXCEPT ![r[2]] = @ \cup {r[3]}]
    /\ UNCHANGED <<blocks, lastBlock, utxo, txMap, status, bootAt, boot, refused>>

\* The test and set of BlockMap, under its mutex.
ReceiveBlk(r) ==
    /\ Arrives(r, Blocks)
    /\ running' = IF r[3] \in blockMap[r[2]] THEN running ELSE Start(r)
    /\ blockMap' = [blockMap EXCEPT ![r[2]] = @ \cup {r[3]}]
    /\ UNCHANGED <<blocks, lastBlock, utxo, txMap, status, bootAt, boot, refused>>

\* The test of TxMap, without a mutex; ForwardTransaction sets it at its end.
ReceiveTx(r) ==
    /\ Arrives(r, Txs)
    /\ running' = IF r[3] \in txMap[r[2]] THEN running ELSE Start(r)
    /\ UNCHANGED <<blocks, lastBlock, utxo, blockMap, txMap, status, bootAt, boot, refused>>

Valid(n, x) == IF x \in Blocks THEN ChkBlk(n, x) ELSE ChkTx(n, x)

\* Validation; a block that fails stays in BlockMap and is never read again.
Validate(r) ==
    /\ r \in DOMAIN running /\ running[r] = "check" /\ Up(r[2])
    /\ \/ /\ Valid(r[2], r[3])
          /\ running' = [running EXCEPT ![r] = "apply"]
          /\ UNCHANGED refused
       \/ /\ ~Valid(r[2], r[3])
          /\ running' = Finish(r)
          /\ refused' = refused \cup {<<r[2], r[3]>>}
    /\ UNCHANGED <<blocks, lastBlock, utxo, blockMap, txMap, status, net, bootAt, boot>>

\* Mutant of ApplyBlk: a block from the network is not passed on.
ApplyBlkKeeps(r) ==
    /\ r \in DOMAIN running /\ running[r] = "apply" /\ r[3] \in Blocks /\ Up(r[2])
    /\ AddBlock(r[2], r[3])
    /\ running' = Finish(r)
    /\ UNCHANGED <<blockMap, txMap, net, bootAt, boot, refused>>

\* Add and broadcast.  When Add panics, nothing is sent.
ApplyBlk(r) ==
    /\ r \in DOMAIN running /\ running[r] = "apply" /\ r[3] \in Blocks /\ Up(r[2])
    /\ AddBlock(r[2], r[3])
    /\ running' = Finish(r)
    /\ net' = IF PrvBlkHsh[r[3]] \in Stored(r[2]) THEN net \cup Broadcast(r[2], r[3])
              ELSE net
    /\ UNCHANGED <<blockMap, txMap, bootAt, boot, refused>>

\* Mutant of ApplyTx: a transaction from the network is not passed on.
ApplyTxKeeps(r) ==
    /\ r \in DOMAIN running /\ running[r] = "apply" /\ r[3] \in Txs /\ Up(r[2])
    /\ txMap' = [txMap EXCEPT ![r[2]] = @ \cup {r[3]}]
    /\ running' = Finish(r)
    /\ UNCHANGED <<blocks, lastBlock, utxo, blockMap, status, net, bootAt, boot, refused>>

\* To the miner, into TxMap, and to all peers.
ApplyTx(r) ==
    /\ r \in DOMAIN running /\ running[r] = "apply" /\ r[3] \in Txs /\ Up(r[2])
    /\ txMap' = [txMap EXCEPT ![r[2]] = @ \cup {r[3]}]
    /\ running' = Finish(r)
    /\ net' = net \cup Broadcast(r[2], r[3])
    /\ UNCHANGED <<blocks, lastBlock, utxo, blockMap, status, bootAt, boot, refused>>

\* Go ends a process that it sees reading a map while another goroutine writes
\* it: ChkChainsUTXO reads the maps of the tree without their mutex, and nothing
\* protects TxMap.  ChkTx dereferences nil when an Add spends the output between
\* its calls of GetUTXO.
At(n, pc, S) == {r \in DOMAIN running : r[2] = n /\ running[r] = pc /\ r[3] \in S}
Adding(n) == {r[3] : r \in At(n, "apply", Blocks)} \cup {b \in Blocks : Mineable(n, b)}
             \cup {Head(boot[m].todo) : m \in {m \in {n} : bootAt[m] = "add"}}
TreeRace(n) == \E r \in At(n, "check", Blocks \cup Txs) : \E b \in Adding(n) :
                   r[3] \in Txs => TxSpends(r[3]) \cap Spends[b] # {}
TxMapRace(n) == LET writers == At(n, "apply", Txs)
                    arriving == {q \in net : q[2] = n /\ q[3] \in Txs}
                IN  \/ writers # {} /\ arriving \cup Payable(n) # {}
                    \/ arriving # {} /\ Payable(n) # {}
                    \/ Cardinality(writers) > 1
Race(n) ==
    /\ Up(n)
    /\ TreeRace(n) \/ TxMapRace(n)
    /\ status' = [status EXCEPT ![n] = "raced"]
    /\ UNCHANGED <<blocks, lastBlock, utxo, blockMap, txMap, net, running, bootAt, boot, refused>>
-----------------------------------------------------------------------------
(* Bootstrap *)

GoBoot(n, pc) == bootAt' = [bootAt EXCEPT ![n] = pc]
SetBoot(n, rec) == boot' = [boot EXCEPT ![n] = rec]

\* GetBlocks of node p: the hashes after top on its main chain, fewer than
\* HdrLim.  IndexOf knows the blocks of forks too.
GetBlocks(p, top) ==
    LET ind == Chain(p)!IndexOf(top)
        len == Chain(p)!Length
        upperIndex == IF ind + HdrLim < len THEN ind + HdrLim ELSE len
    IN  IF ind # -1 /\ ind < len THEN Chain(p)!Slice(ind + 1, upperIndex) ELSE <<>>

\* The answers that GetBlocksRPC may get; it may always fail.
GetBlocksRPC(p, top) == {res \in {GetBlocks(p, top)} : Up(p)}

BootStart(n) ==
    /\ n \in Starters /\ Up(n) /\ bootAt[n] = "idle" /\ Peers[n] # {}
    /\ GoBoot(n, "ask")
    /\ SetBoot(n, [boot[n] EXCEPT !.top = lastBlock[n]])
    /\ UNCHANGED <<blocks, lastBlock, utxo, blockMap, txMap, status, net, running, refused>>

\* One goroutine per peer: it makes the call, whose failure ends it,
Asking(n, p, at) == Up(n) /\ bootAt[n] = "ask" /\ boot[n].at[p] = at
BootCall(n, p) ==
    /\ Asking(n, p, "call")
    /\ \/ \E res \in GetBlocksRPC(p, boot[n].top) :
             SetBoot(n, [boot[n] EXCEPT !.resp[p] = res, !.at[p] = "test"])
       \/ SetBoot(n, [boot[n] EXCEPT !.at[p] = "done"])

\* compares the answer with longestRes,
BootTest(n, p) ==
    /\ Asking(n, p, "test")
    /\ LET longer == ~boot[n].got \/ Len(boot[n].resp[p]) > Len(boot[n].res)
       IN  SetBoot(n, [boot[n] EXCEPT !.at[p] = IF longer THEN "res" ELSE "done"])

\* and makes two assignments, which no mutex keeps together.
BootRes(n, p) ==
    /\ Asking(n, p, "res")
    /\ SetBoot(n, [boot[n] EXCEPT !.res = boot[n].resp[p], !.got = TRUE, !.at[p] = "addr"])
BootAddr(n, p) ==
    /\ Asking(n, p, "addr")
    /\ SetBoot(n, [boot[n] EXCEPT !.addr = p, !.at[p] = "done"])

BootAsk(n, p) ==
    /\ BootCall(n, p) \/ BootTest(n, p) \/ BootRes(n, p) \/ BootAddr(n, p)
    /\ UNCHANGED <<blocks, lastBlock, utxo, blockMap, txMap, status, net, running,
                   bootAt, refused>>

\* wg.Wait; no answer at all is an error.
BootWait(n) ==
    /\ Up(n) /\ bootAt[n] = "ask" /\ \A p \in Peers[n] : boot[n].at[p] = "done"
    /\ SetBoot(n, [boot[n] EXCEPT !.todo = boot[n].res])
    /\ GoBoot(n, IF boot[n].res = <<>> THEN "done" ELSE "load")
    /\ UNCHANGED <<blocks, lastBlock, utxo, blockMap, txMap, status, net, running, refused>>

NextHash(n) ==
    /\ SetBoot(n, [boot[n] EXCEPT !.todo = Tail(boot[n].todo)])
    /\ GoBoot(n, IF Tail(boot[n].todo) = <<>> THEN "done" ELSE "load")

\* GetData of node p, and Chain.Get in it, which dereferences nil for a hash
\* that p does not have.
GetData(p, h) == Up(p) /\ h \in Stored(p)
GetDataRPC(p, h) == {b \in {h} : GetData(p, b)}
GetNil(p, h) == Up(p) /\ h \notin Stored(p)

\* Mutant of BootLoad: a block that was seen before is passed over.
BootLoadSkips(n) ==
    /\ Up(n) /\ bootAt[n] = "load"
    /\ LET h == Head(boot[n].todo)
           p == boot[n].addr
       IN  /\ GetData(p, h)
           /\ IF h \in blockMap[n] THEN NextHash(n) ELSE GoBoot(n, "add") /\ UNCHANGED boot
           /\ blockMap' = [blockMap EXCEPT ![n] = @ \cup {h}]
    /\ UNCHANGED <<blocks, lastBlock, utxo, txMap, status, net, running, refused>>

\* Without an answer of GetDataRPC, Bootstrap dereferences nil itself.
BootLoad(n) ==
    /\ Up(n) /\ bootAt[n] = "load"
    /\ LET h == Head(boot[n].todo)
           p == boot[n].addr
       IN  \/ /\ \E b \in GetDataRPC(p, h) : blockMap' = [blockMap EXCEPT ![n] = @ \cup {b}]
              /\ GoBoot(n, "add")
              /\ UNCHANGED status
           \/ /\ GetNil(p, h)
              /\ status' = [status EXCEPT ![p] = "nodata", ![n] = "noanswer"]
              /\ UNCHANGED <<blockMap, bootAt>>
           \/ /\ status' = [status EXCEPT ![n] = "noanswer"]
              /\ UNCHANGED <<blockMap, bootAt>>
    /\ UNCHANGED <<blocks, lastBlock, utxo, txMap, net, running, boot, refused>>

\* Chain.Add of the block, whether or not the tree has it already.
BootAdd(n) ==
    /\ Up(n) /\ bootAt[n] = "add"
    /\ AddBlock(n, Head(boot[n].todo))
    /\ IF PrvBlkHsh[Head(boot[n].todo)] \in Stored(n) THEN NextHash(n)
       ELSE UNCHANGED bootVars
    /\ UNCHANGED <<blockMap, txMap, net, running, refused>>
-----------------------------------------------------------------------------
Handle(r) == ReceiveBlk(r) \/ ReceiveTx(r) \/ Validate(r) \/ ApplyBlk(r) \/ ApplyTx(r)
Bootstrap(n) == \/ BootStart(n) \/ BootWait(n) \/ BootLoad(n) \/ BootAdd(n)
                \/ \E p \in Peers[n] : BootAsk(n, p)

Next == \/ \E n \in Nodes, b \in Blocks : HndlMnrBlk(n, b)
        \/ \E n \in Nodes, t \in Txs : HndlWtTx(n, t)
        \/ \E r \in net \cup DOMAIN running : Handle(r)
        \/ \E n \in Nodes : Race(n)
        \/ \E n \in Nodes : Bootstrap(n)

Spec == Init /\ [][Next]_nodeVars

\* No request is lost, gRPC serves every request, and every goroutine runs.
FairSpec == Spec /\ WF_nodeVars(\E r \in net \cup DOMAIN running : Handle(r))
-----------------------------------------------------------------------------
(* Properties *)

TypeOK ==
    /\ DOMAIN blocks = Nodes /\ lastBlock \in [Nodes -> Blocks]
    /\ \A n \in Nodes : Stored(n) \subseteq Blocks
    /\ utxo \in [Nodes -> SUBSET Locators]
    /\ blockMap \in [Nodes -> SUBSET Blocks] /\ txMap \in [Nodes -> SUBSET Txs]
    /\ status \in [Nodes -> {"up", "orphan", "raced", "nodata", "noanswer"}]
    /\ net \subseteq Requests /\ DOMAIN running \subseteq Requests
    /\ \A r \in DOMAIN running : running[r] \in {"check", "apply"}
    /\ bootAt \in [Nodes -> {"idle", "ask", "load", "add", "done"}]
    /\ refused \subseteq Nodes \X (Blocks \cup Txs)

\* A block in the tree is in BlockMap, so that no request for it is handled:
\* a second Add would create its spent outputs again.
SeenBeforeStored == \A n \in Nodes : Stored(n) \ {Genesis} \subseteq blockMap[n]

\* ForwardBlock never adds a block twice: while a handler has a block, the
\* block is not in the tree and no other handler has it, unless the node
\* bootstraps.
AddedOnce ==
    \A r \in DOMAIN running :
        (r[3] \in Blocks /\ bootAt[r[2]] = "idle") =>
            /\ r[3] \notin Stored(r[2])
            /\ \A q \in DOMAIN running : q[2] = r[2] /\ q[3] = r[3] => q = r

\* No transaction is in two of the blocks of n.
NoTxTwice(n) == \A b, c \in Stored(n) :
                    b # c => Creates[b] \cap Creates[c] = {}

\* Although the blocks of all forks change one map, in the order in which they
\* arrive, its content depends only on which blocks the node has: what they
\* created and none of them spent.  Two nodes with the same blocks agree.
OrderIrrelevant == \A n \in Nodes :
    (bootAt[n] = "idle" /\ NoTxTwice(n)) => utxo[n] = Made(n) \ Used(n)

\* A Bootstrap that ends has put every listed block into the tree, and the main
\* chain is at least as long as the one the peer listed.
CaughtUp == \A n \in Nodes :
    (bootAt[n] = "done" /\ boot[n].got) =>
        /\ \A k \in DOMAIN boot[n].res : boot[n].res[k] \in Stored(n)
        /\ blocks[n][lastBlock[n]].depth
              >= blocks[n][boot[n].top].depth + Len(boot[n].res)

\* A step of the tree of n, or one that leaves it alone.
TreeStep(n) == [Chain(n)!Next]_(Chain(n)!bcVars)

\* The tree of every node implements Blockchain: \A n : Chain(n)!Spec, in the
\* form that TLC reads.  Handlers, the miner and Bootstrap only ever do what
\* the theorems about the block tree assume of its callers.
NodeChain == /\ \A n \in Nodes : Chain(n)!Init
             /\ [][\A n \in Nodes : TreeStep(n)]_nodeVars

\* A block that is mined, or a transaction that is sent, reaches every node,
\* unless some node refuses it or dies.
Reaches(seen, x) == \/ \A n \in Nodes : x \in seen[n]
                    \/ \E n \in Nodes : <<n, x>> \in refused \/ ~Up(n)
BlocksSpread == \A b \in {c \in Blocks : MinerOf[c] \in Nodes} :
    (\E n \in Nodes : b \in Stored(n)) ~> Reaches([n \in Nodes |-> Stored(n)], b)
TxsSpread == \A t \in {s \in Txs : PayerOf[s] \in Nodes} :
    (\E n \in Nodes : t \in txMap[n]) ~> Reaches(txMap, t)

\* "a block that could not be found locally" is a case that GetData answers
\* (server.go): asking for a block ends nobody's process.
DataAnswered == \A n \in Nodes : status[n] # "nodata"
=============================================================================

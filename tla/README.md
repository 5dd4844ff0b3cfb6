# A TLA+ development for BrunoCoin, Redwood and RathDB

The repository holds three programs of a course on cryptocurrencies:

* **BrunoCoin** (`BrunoCoin/pkg`, Go): a node of a proof-of-work chain, with a
  block tree, a miner, a wallet, peers and an RPC server;
* **Redwood** (`Redwood/contracts`, Solidity): an exchange with order books, and
  a liquidity pool on top of it;
* **RathDB** (`RathDB/core/src`, C++): the storage of a chain, with a coin
  database, undo blocks and files.

BrunoCoin is the concurrent one and the centre of this development; the
exchange follows; the pool and RathDB are not modelled.

## 1. Inventory

| Component | State | Operations | Interacts with | Hard |
|---|---|---|---|---|
| block tree `blockchain.go` | `blocks` (hash → node with parent, depth, utxo map), `LastBlock`, `Liminal` flags of outputs | `Add`, `GetUTXOForAmt`; queries `List`, `Slice`, `Length`, `IndexOf`, `ChkChainsUTXO`, `GetBalance` | called by node, RPC server, wallet, validation; one mutex per call | forks, orders of arrival, blocks twice or without parent, map shared between nodes |
| transaction heap `tx_heap.go` | array of (priority, transaction) | `Add`, `Rmv`, `IncAll`, `RemAbv` | used by the pool and by the wallet | removal in the middle, copies |
| transaction pool `tx_pool.go`, `mining_pool.go` | heap, `CurPri`, `Ct` | `Add`, `ChkTxs`, `NewMiningPool` | miner | capacity, wrapping counters |
| miner `miner.go`, `mine.go` | pool, `Active`, `Mining`, `PrvHsh`, `ChnLen`, channels `PoolUpdated` and `SendBlk` | `HndlTx`, `HndlBlk`, `HndlChkBlk`, `Pause`, `Resume`, `Mine` and the goroutines it starts | node sends it transactions and blocks, it sends blocks to the node | goroutines, unbuffered channels, cancellation |
| wallet `wallet.go`, `liminal_txs.go` | liminal transactions (heap of age and transaction) | `HndlTxReq`, `HndlBlk` | outputs from the block tree, `SendTx` to the node, safe blocks from the RPC server | retries, several handlers at once, shared objects |
| node `node.go`, RPC server `server.go` | `TxMap`, `BlockMap`, peers, the select loop | `ForwardTransaction`, `ForwardBlock`, `GetBlocks`, `HndlMnrBlk`, `HndlWtTx`, `Bootstrap` | everything above | each RPC is a goroutine, test and use are apart |
| validation `validation.go` | none | `ChkBlk`, `ChkTx` | block tree | stale reads |
| transactions and blocks `block`, `proto/constructors.go` | content of transactions and blocks | hashing, signing, serialising, sums, sizes | everything above | sums that wrap, equal content, what is lost on the wire |
| peers, addresses | peer database, address database, `SentVer`, `LastSeen` | `Version`, `SendAddresses`, `ConnectToPeer`, `BroadcastAddr`, `PauseNetwork`, `ResumeNetwork` | RPC server | simultaneous handshakes, timeouts, full databases, lost requests |
| exchange `Exc.sol` | tokens, balances, order books, next ids | `addToken`, `deposit`, `withdraw`, `makeLimitOrder`, `deleteLimitOrder`, `makeMarketOrder` | ERC20 tokens | several trades in one call, reverts, sorted books |
| pool `Pool.sol`, factory `Factory.sol` | shares, ids of its two limit orders | `deposit`, `withdraw` | exchange | orders that were filled meanwhile |
| RathDB coin database, chain, chain writer | caches, database, files | `StoreBlock`, `UndoCoins`, `HandleBlock`, ... | each other | caches, reorganisations, offsets |

What makes each correct: the block tree must stay one rooted tree with a longest main
chain and a utxo map that is the main chain's; the pool must be a bounded bag whose
counters agree with it; the miner must lose no signal, never wait for ever, search in
one live goroutine at most, and hand its blocks over in order; the wallet must forget no
transaction and resend none twice; a node must add a block once, pass it on, and agree
with the nodes that have the same blocks; peering must be mutual and its exchange of
requests must end; a payment must be valid wherever it arrives and neither make nor lose
money; the exchange must be able to pay everybody and keep its books sorted. The hazards
behind these are listed, with their lines, in `PROJECT.json`.

## 2. Modules

| Module | Models | How |
|---|---|---|
| `Blockchain` | `blockchain/blockchain.go` | one step per call, since every call holds the mutex; content of blocks and transactions is given by constant functions of their hashes |
| `ChainHistory` | | `Blockchain` with a history of repeated additions, and the reference utxo set of a chain |
| `BlockchainProofs` | | theorems about `Blockchain` and `ChainHistory` |
| `Node` | `node.go`, `server.go`, `validation.go` | any number of nodes with a block tree each (an instance of `Blockchain` per node), handlers split where other goroutines may run |
| `NodeProofs` | | theorems about `Node` |
| `TxHeap` | `block/tx/tx_heap.go` with Go's `container/heap` | operators on sequences, positions from 1; loops are folds with a bound on their rounds |
| `TxPool` | `miner/tx_pool.go`, `mining_pool.go` | one step per locked call; `uint32` counters modulo `Word` |
| `PoolBag` | what the pool promises | abstract specification: a bounded bag |
| `TxPoolProofs` | | theorems about `TxHeap` and `TxPool` |
| `Miner` | `miner/miner.go`, `mine.go`, and of `node.go` and `server.go` what meets the miner | one step per access to shared state, a program counter per goroutine |
| `Wallet` | `wallet/wallet.go`, `liminal_txs.go`, and of `node.go` and `server.go` what meets the wallet | the same, on top of `TxHeap` |
| `WalletProofs` | | theorems about `Wallet` |
| `Payment` | `block/`, `proto/constructors.go`, `validation.go`, and of wallet and miner what makes transactions and blocks | transactions and blocks with their content, one step per handler |
| `PaymentProofs` | | theorems about `Payment` |
| `Peers` | `peer/`, `address/`, and of `server.go` and `node.go` what makes nodes peers | requests in flight, one step per handler, a clock of broadcasts |
| `ServerProofs` | | theorems about `Miner` and `Peers`, the two parts that run beside the handlers of `Node` |
| `Exc` | `Redwood/contracts/Exc.sol` | one step per call; a call that reverts is not enabled |
| `ExcProofs` | | theorems about `Exc` |
| `FoldFacts` | | lemmas about folds, sums and walks for any operator, which the other proofs instantiate |
| `MC*` | | instances for TLC |

**Blockchain.**  A hash stands for its content, so two transactions with equal
content are one element of `Txs`.  Outputs are named by locators, the keys of
the utxo maps.  `Add` assigns the previous node's map to the new node without a
copy, and a Go map is a reference; so all nodes share one map, the variable
`utxo`.  `Add` on an unknown parent dereferences nil and ends the process
(`AddOrphan`).  `GetUTXOForAmt` iterates over a map in any order and stops at
the amount: `TakeUTXO` takes any set that some order collects; `TakeUTXOFails`
leaves the flags set, as the code does.  `grants` is a history variable.

**Node.**  `Chain(n)` is the instance of `Blockchain` on the tree of node `n`.
`net` is the set of requests in flight, `running` maps a request that is being
handled to where its handler is: `ForwardBlock` is `ReceiveBlk` (test and set of
`BlockMap`, under its mutex), `Validate`, `ApplyBlk` (`Add` and the broadcast);
`ForwardTransaction` is `ReceiveTx` (test of `TxMap`), `Validate`, `ApplyTx`.  A
request is lost by never being handled: the sender does nothing but log it.
`HndlMnrBlk` is one step, since nobody else has the block before it is sent;
`Mineable` says of the miner what `ServerProofs` proves, that a mined block comes
after its parent.  `Bootstrap` is one goroutine per peer, with the test of
`longestRes` and the two assignments in separate steps, and then a loop of
`GetDataRPC` and `Add`.  Five things end a process: `Add` without the parent
("orphan"); a map that Go sees read and written at once, or an output that is
spent between two calls of `GetUTXO` (`Race`, "raced"); `Get` of an unknown hash
("nodata"); and a `GetDataRPC` without answer ("noanswer").  What the handlers pass
on to the miner and the wallet is in `Miner` and `Wallet`; `Bootstrap` also calls
`HndlChkBlk` for short lists, which changes only the miner's pool and is left
out.  `refused` is a history variable.

**Miner.**  Goroutines are the handlers (`Txs`, `Fwd`), control calls (`Ctl`),
the Mine loop (`loop`), mining goroutines (`Workers`) and the node's loop
(`inbox`).  A worker goes pri → pool → nonce → sendblk → chk → load → send →
wait → hash → done, or stops early.  A cancelled context is read once
more by the search, which may still have found its nonce before: `CalcNonce`
decides at one point whether the worker saw the cancellation.  Here the pool is
a set, and a block's hash is the record of what its header commits to.
`GenCBTx` of no transactions returns nil and ends the process: that is the
`crashed` branch of `Build`, which the model takes.

**TxHeap.**  `heap.up` and `heap.down` stop when the node is in its place; here they
are folds of one round over as many rounds as the heap has nodes, and a round of a
node in its place changes nothing.  `Rmv` cuts nodes out of the middle of the array
and orders it once at the end, as the code does.

**Wallet.**  A transaction is one object that the liminal heap, the node's loop
and the miner's pool all point to; `LockTime` changes in place, and what the
network sees is a version `<<t, lockTime>>`.  `ForwardBlock` is split where it
reads the length of the chain a second time.

**Payment.**  The other modules name transactions and blocks by their hashes; this
one gives them their content and follows a payment through the network.  A hash is
the tuple of what is hashed, a signature the pair of a key and the hash that is
signed, a public key a node; which hashes satisfy the proof of work depends on the
nonce alone.  `HndlTxReq` chooses outputs as some order of the map may give them,
signs, adds the change and sends; `HndlBlk` resends with another `LockTime`;
`ForwardTransaction` validates and fills the miner's pool; `Mine` chooses
transactions, makes the coinbase transaction, searches a nonce and adds the block
unchecked; `ForwardBlock` validates.  `Serialize` and `Deserialize` are applied
where the code does: the object of an output has the flag `Liminal`, the message
has not.  There is one chain, a handler is one step, and a node has a wallet or a
miner: forks and goroutines are in the modules above.  A broadcast is never taken
back, so that it may be delayed, repeated or lost.

**Peers.**  A `Peer` points to the `Address` that the address database holds; so
the peer database is a set of addresses, and `LastSeen` and `SentVer` belong to
the entry.  `SentVer` is kept as "set, and `VerTimeout` has not passed", and only
for addresses that are not peers, since for a peer it decides nothing.  `VersionRPC`
on an entry sets it when the call returns (`Return`), with or without an answer;
`ConnectToPeer` and the answer in `Version` use addresses of their own.  A request
fails when the other side is paused; `failed` is a history variable.  `LastSeen` is
cut to 32 bits of nanoseconds, which wrap every 4.3 seconds; `Word` values here.

**Exc.**  `purse` and `held` model the ERC20 tokens from how the exchange uses
them.  The loops of `makeBUY` and `makeSELL` are one fold from the end of the
array; running out of orders is an access out of bounds, which reverts.  The two
functions differ only in who gives what, so `Fill` takes the side.

## 3. Runs

Passing runs:

| Run | Question | Instance |
|---|---|---|
| `Blockchain_forks` | Do the nodes stay one tree with a longest main chain, whatever the order of additions, repetitions and orphans? `TreeRooted`, `LongestChain`, `Provenance`, `FirstSeenWins`, `AppendOnly`.  While there is one line of blocks, is the shared map that of the chain? `LineUTXO`, against a reference fold.  Is an output handed out once? `NoDoubleGrant` | branches of 3 and 2 blocks and a block without parent, 2 requests |
| `TxPool_heap` | Do heap, counters and choice of transactions agree, and is the pool a bag? `HeapOrder`, `CountersAgree`, `TopIsMined`, refinement `ImplementsBag` | 5 transactions with copies, one with a product that wraps |
| `Miner_own` | One live worker, no orphan of the miner's own, no lost signal, however the miner is paused and resumed? `OneLiveWorker`, `OwnNeverOrphan`, `NoLostWakeup` | 2 transactions, start, pause and resume, 2 workers |
| `Miner_live` | Is everybody served? `AllServed` under fairness | 1 transaction, 1 block from the network, start and pause, 4 workers |
| `Wallet_track` | Is a transaction ever forgotten or in two places? `NeverForgotten`, `OnePlace` | 2 transactions, 4 blocks, `SafeBlkAmt` 3 |
| `Node_gossip` | Is a block seen before it is stored and added once, does the order of arrival matter, has a `Bootstrap` that ends caught up? `TypeOK`, `SeenBeforeStored`, `AddedOnce`, `OrderIrrelevant`, `CaughtUp` | 3 nodes in a line, a branch of 2 blocks and one of 1, the node in the middle bootstraps once |
| `Node_live` | Does everything spread, and is each tree a `Blockchain`? `BlocksSpread`, `TxsSpread` under fairness, refinement `NodeChain` | 3 nodes in a line, 2 blocks, 2 transactions that spend one output |
| `Peers_handshake` | Is peering mutual, do the databases agree and keep their limits, does the exchange end? `PeersTypeOK`, `DbsAgree`, `Mutual`, `KnownIsPeer`, and `Settles` under fairness | 4 nodes with room for 2, 4 connections of which two cross, a broadcast, a pause |
| `Payment_flow` | Are payments valid, outputs spent once, blocks accepted, is money kept? `TypeOK`, `PaymentsValid`, `OneSpender`, `BlocksAccepted`, `SupplyKept` | 2 payers and a miner, 4 requests, 4 blocks |
| `Exc_trade` | Solvency, open and sorted books, quotes: `TypeOK`, `Solvent`, `OrdersOpen`, `QuotePaid`, `BooksSorted` | 2 traders, 3 orders, 2 trades, 2 prices |

Runs that show where the code and a statement about it disagree:

| Run | Statement | What happens |
|---|---|---|
| `Blockchain_forkutxo` | `utxo` "represents all UTXO on the chain of this block up until this block" | a block on a fork changes the map of the main chain, as all nodes share it |
| `Node_getdata` | `GetData` answers a request "for a block that could not be found locally" with an empty response | `Chain.Get` dereferences nil before the test; a peer that lags behind is asked for such a block when two goroutines of `Bootstrap` interleave `longestRes = res` and `addr = p.Addr` |

Other observations made while modelling, which no run is kept for.  Of statements
in comments: `PrvHsh` is not always "the hash of the last block on the main
chain" (`miner.go:24`), because two handlers on one parent both read
`IsEndMainChain` before either adds (`server.go:198`); a liminal transaction may be
in a block with enough blocks on top (`liminal_txs.go:16`), because a block added
between the two reads of `Length` hides a safe block from the wallet
(`server.go:204`); market orders go through the books from the end, while the best
price is at the start (`Exc.sol:109`, `214`).  Of the node: a block without its
parent passes `ChkBlk` when its inputs are in the current map, and `Add` then
panics; when they are not, it is refused and stays in `BlockMap`, so it is never
accepted later; `Bootstrap` adds again what arrived meanwhile, which puts its spent
outputs back, and does not relay what it loads; `GetBlocks` treats the height of a
block of a fork as an index of the main chain; its limit sends at most 499 hashes;
a transaction that is in blocks of two branches makes the map depend on the
order of arrival.  Elsewhere:
`Peek` returns the last element of the array instead of the top; `Rmv` takes out
one copy of a transaction that the pool holds twice; the array that
`NewMiningPool` reads is not sorted beyond its first element; two coinbase
transactions of one miner with one reward have one hash, and the second output
overwrites the first; a failed `GetUTXOForAmt` leaves its outputs liminal; a
block may empty the pool between `PriMet` and `NewMiningPool`, and the nil
coinbase ends the process; a cancelled worker resets `Mining` under its
successor; `blks[0]` has `SafeBlkAmt - 1` blocks on top of it, not `SafeBlkAmt`;
a version mined after a resend no longer has the hash of the liminal
transaction; a partial fill emits `NewTrade` with amount 0; a limit order sets
nothing aside, so a maker without funds makes market orders revert.

Of payments and blocks (`Payment` takes all these steps, and its properties say what
is left): two versions of a resent payment may both be in a miner's pool and be
mined in one block, which `ChkBlk` accepts, since it looks at each transaction by
itself (`validation.go:117` asks that nothing is spent twice); a version mined later
is added unchecked by the miner's own node and refused by all others, so that the
miner is left on a branch of its own; the reward is halved to zero after four
halvings, and a block without fees then has a coinbase worth nothing, which only its
miner accepts; two coinbase transactions of one miner with one sum have one hash, and
the earlier output is overwritten; a transaction of more inputs than fit in a block
(22, with the default `BlkSz`) is valid and enters the pool, and once it is at the
front the list to mine is empty and the nil coinbase ends the process; `Amt + Fee`
and the sums of a transaction wrap, so that a payment may pay out more than it spends
and pass `ChkTx`; the amounts that inputs state are not compared with the outputs
they name; a signature covers an amount and a key, not a locator; `ChkTx` accepts
equal sums where its comment asks for more (`validation.go:115`); the Merkle root is
never computed again, and the difficulty target is the one a block states; the flag
`Mining` is never read.

Of peers: `PeerDb.Add` answers false for a peer that exists, whose comment says true
(`peer/ephemeraldb.go:23`), so that the `Version` of a node that was restarted is not
answered; `SentVer` is set even when the call failed, and a `Version` that arrives in
the next two seconds is then taken for an answer, which leaves one side without the
peer; a broadcast with a time before the last `Version` is not forwarded; neither
database uses its lock; the limits are written in `New`, whatever the configuration
says; `GetAddresses` is called by nobody.

**Bounds.** `MaxGrants`, `MaxLen`, `MaxOrders`, `MaxTrades`, `MaxList`, `MaxNow` and
`MaxPauses` bound counters, and `Word` makes a word small enough to wrap. Five elements
give the heap three levels, where a removal in the middle can break the order. Two
branches of different length contain ties, overtaking and a reorganisation.  `Workers`
bounds the mining goroutines alive at once. With too few the loop would wait for a free
one, which the code never does, so `Miner_live` has one for each signal from outside
(start, pause, transaction, block); for the invariants a smaller number only removes
behaviours. Four blocks with `SafeBlkAmt` 3 give handlers of two safe blocks that
overlap, with resending after one block; a block holds any versions that were broadcast,
and those of the node's own pool, several of one transaction included. In `Node` the
middle of the line has two peers, so copies of a block arrive from both sides and a
`Bootstrap` compares two answers; x2 passes validation before its parent and y2 does
not; `HdrLim` is 3 instead of 500, so that a list is cut; `Word` is large enough that no
sum of the instance wraps. The invariants need no transactions in flight, and the
liveness run no `Bootstrap`, so each leaves the other out. In `Peers` a and b connect to
each other, so their `Version`s cross; c and d also connect to b, which has room for
two, so both databases fill up in every order; `Word` is 3 and the one broadcast is
forwarded along the way; a pause at any moment makes requests fail. In `Payment` a
splits its coins twice, with a fee and without, and then needs three outputs for one
payment, which is too large for a block of 240 bytes; c asks for an amount that wraps;
the reward is 1 for the first new block and 0 from the second on, the pool holds two
transactions, and a payment is resent after one safe block; so all the exceptions of its
properties, and chains without any, occur. Deadlock is not checked: all instances have
finitely much to do and then stop.

**Symmetry** is used for the transactions of `Miner_own`, whose
constants give them equal priorities; never in a run with a temporal property.

**Fairness.**  `Miner_live` assumes that as long as some goroutine of the process can
take a step, one does, and nothing about which: the Go scheduler does not stop while
a goroutine is ready, the two loops do nothing but serve their channels, and the
search for a nonce is bounded by `NncLim`.  Arrivals are not fair.  As there are
finitely many of them, this is enough: what it excludes is that everyone waits.

`Node_live` assumes weak fairness of the handlers as a whole, which says that no
request is lost and every handler goes on: gRPC serves every request of a
reachable server in a goroutine.  Over a real network this fails, and nothing in
the code sends again; the properties say what the flooding does when the network
does its part.  Mining, paying, races and `Bootstrap` are not fair.

`Peers_handshake` assumes that a request in flight is handled or fails: each call has
a timeout, and a handler waits for nothing but calls of its own.  Connections,
broadcasts, pauses, returns and the passing of `VerTimeout` are not fair.

## 4. Proofs

`BlockchainProofs` proves, for all universes of blocks and transactions and all
sequences of calls, from `UniverseAssumption` (constants are well typed, the
genesis block is a block) and `GenesisAssumption` (its header names no block):

* `TypeCorrect`: `TypeOK`;
* `TreeIsRooted`, `MainChainLongest`, `OutputsHaveProvenance`: the invariants
  `TreeRooted`, `LongestChain`, `Provenance`;
* `LastBlockGrows`, `NodesStay`: the action properties `FirstSeenWins`,
  `AppendOnly`;
* `MapOfLine`: `LineUTXO`, for `ChainHistory`;
* `GrantsApart`: `NoDoubleGrant`, for `ChainHistory`.

The inductive invariant is `IInv`, their conjunction.  The parts need one
another: `LongestChain` survives an addition only because depths are natural
numbers and old depths stay; old depths stay when a stored block is added AGAIN
only because `TreeRooted` says that its node already has the depth that `Add`
computes (`AddNodeTree`); the genesis block is not added again because its
header names no block; and `LastBlock` grows by one, not more, because the
parent of the new block is no deeper than `LastBlock`.

For `MapOfLine`, `List` is a recursive walk from `LastBlock` to the genesis block;
`Walked` says that it is the one function that goes down a block at a time, and
`LineGrows` that a block on top makes it longer by one and changes nothing below.
The loops of `Add` are one fold per block (`AddIsFold`), so that the reference for
the longer chain is one more round of the reference for the shorter one.
`GenesisOutput` (the genesis block spends nothing) starts the line.  `GrantsApart`
needs `Granted`: a granted output is liminal and was created by a stored block; so a
new block, which creates none of the outputs of a stored one, does not take the flag
away again.

`ServerProofs` proves of the miner, for any number of goroutines, transactions and blocks from
the network, from `MinerAssumption` (of which it needs that handlers and control
calls are not also goroutines that carry blocks, and that `NoBlk` is no worker):

* `TypeCorrect`: `TypeOK`;
* `AtMostOneLive`: `OneLiveWorker`. The strengthening is `LiveIsCurrent`: a searching
  worker that was not cancelled is the one whose context the loop holds, and the loop is
  not between cancelling and starting the next one;
* `ParentsFirst`: `OwnNeverOrphan`. The strengthening is `BlocksKnown`: `PrvHsh` is a
  block that the node has stored or has taken from `SendBlk`; a worker's new block is
  built on such a block; and a block that goes through `HndlBlk` is one. As the node
  takes a block only when it has added the last one, the parent is stored by then.
  `QueueWaits` (a goroutine is in the channel's queue once, and waits) says who goes on
  when the loop receives;
* `WakeupsArrive`: `NoLostWakeup`. The strengthening is `Woken`: with an active miner,
  somebody is between changing the pool and the send that follows (`Alarm`), or a worker
  searches that was not told to stop, or all nonces were tried, or the last worker found
  the pool too poor, which it still is. A cancelled worker is still in its search
  (`CancelledSearch`), so the one who cancelled it has a signal to send.

It proves of peers, whose specification is `PeersSpec`, for any number of nodes, any limits and any calls, from
`PeersAssumption` (constants are well typed, nobody connects to itself):

* `PeerTypes`: `PeersTypeOK`;
* `PeersMutual`: `Mutual`.  The strengthening is `Offered`: an entry whose `SentVer` is
  set, or will be when a call returns, was sent a `Version` that is in flight, has
  made the node a peer over there, or failed.  So when `Version` does not answer
  because it takes the request for an answer, the other side has what it needs or
  will have it, however the two seconds fall;
* `DatabasesAgree`: `DbsAgree`, with the finiteness of both databases beside it;
* `AddressesBecomePeers`: `KnownIsPeer`.  The strengthening is `Greeted`: whoever is in
  the address database has the node as a peer, is being sent a `Version`, or one of
  the two requests failed; with `Mutual` this leaves peers only when all is settled.

`NodeProofs` proves, for any number of nodes, any peers and any universe of blocks
and transactions, from `UniverseAssumption`, `NodesAssumption` (blocks are not
transactions, peers are nodes) and `GenesisAssumption` (the genesis block spends
nothing and has one output per transaction):

* `NodeTypes`: `TypeOK`;
* `SeenFirst`, `AddsOnce`: `SeenBeforeStored`, `AddedOnce`.  The strengthening is
  `HandledSeen`: what a handler holds, or `Bootstrap` is about to add, is in
  `BlockMap`; so a handler that passes the test is the only one.  `NoGenesis` keeps
  the genesis block, which no map has, out of the requests;
* `OrderDoesNotMatter`: `OrderIrrelevant`.  The strengthening is `OutputsKnown`: the
  map, and what a validated block spends, consist of outputs that stored blocks
  created.  A new block then neither spends its own outputs nor creates what was
  spent before, so that `Add` takes from `Made \ Used` what it spends and puts in
  what it creates (`AddOrder`).  That validation is still right when `Add` runs
  needs no lock: blocks are never dropped, so known outputs stay known
  (`AddKnown`).  It uses `AddedOnce`, which is where a second `Add` would put spent
  outputs back;
* `TreesImplementBlockchain`: the refinement `NodeChain`.  Every step of the network is
  an `Add` of the `Blockchain` of one node, or changes no tree; so what is proved of
  `Blockchain` holds of every node;
* `BootstrapCatchesUp`: `CaughtUp`.  The strengthening is `CInv`: every tree has the
  shape that `Blockchain` proves (`Shape`), a block has one depth in all trees
  (`SameDepth`), and what `Bootstrap` holds is a list of blocks of growing depth on
  top of a block of its own, of which it has added all but the rest it still has to
  load (`BootOK`).  An answer is such a list because `GetBlocks` walks down a main
  chain; that handlers add blocks between two rounds does no harm, as trees only
  grow (`Growth`).

`TxPoolProofs` proves, for all transactions, fees, sizes, blocks, capacities and word
widths, from `PoolAssumption`:

* `TypeCorrect`: `TypeOK`;
* `StaysHeap`, `CountersFollow`, `BestIsMined`: `HeapOrder`, `CountersAgree`,
  `TopIsMined`;
* `PoolIsBag`: the refinement `ImplementsBag`, for a finite set of transactions (the
  size of the bag is a sum over it).

The loops of the heap have invariants of their own.  `UpInv`: the array is a heap but
for one node and its parent, and the children of that node are no larger than that
parent.  `DownInv`: the same from above, for the part of the array that is a heap
already; each round halves or doubles the position, so as many rounds as nodes are
enough (`UpIsHeap`, `DownIsHeap`).  `InitIsHeap` goes from the last parent to the
root.  `CutInv`: after n elements of a block, each transaction has lost as many copies
as there are among them, down to zero, and the array and what was cut add up to the
array before.  The invariant of the pool is `PoolInv`: the array is a heap of nodes
with the priorities that `CalcPri` gives, `ct` is its length, at most `Cap`, and
`curPri` is its sum modulo `Word`.  The priorities matter: `ChkTxs` subtracts what
`CalcPri` says of the transactions of the block, not what the nodes hold.

`WalletProofs` proves, for any chain, any number of handlers and any finite set of
transactions (`SetToSeq` lists those of a block), from `WalletAssumption`:

* `WalletTypes`: `TypeOK`;
* `NothingForgotten`, `PlacesApart`: `NeverForgotten`, `OnePlace`.

What the heap does to the number of copies comes from `TxPoolProofs`, which is
instantiated with an unused pool.  The inductive invariant is `WInv`.  `Places`: a
transaction is liminal once, or held by one handler, or neither, and neither if it was
not made yet.  `Work`: a handler has no transaction twice, so that the one it puts back
is gone from its list.  `Deep`: a handler that checks a block found it at least
`SafeBlkAmt - 1` deep, and no handler of a block that is not yet added has begun.
`RemAbv` takes out at most as many copies as there are (`Oldest`), so with `Places`
each old transaction goes to exactly one handler.

`PaymentProofs` proves, for any nodes, requests, fees, limits, rewards and word size,
and however broadcasts are lost, delayed and repeated, from `PaymentAssumption`
(constants are well typed; the first output, the first reward and the limits of miner
and wallet are not zero; the size up to which a miner fills a block is no more than
the largest valid one, as in the configurations, 1000 and 10000000 bytes):

* `PaymentTypes`: `TypeOK`;
* `PaymentOneSpender`: `OneSpender`;
* `PaymentBlocksAccepted`: `BlocksAccepted`;
* `PaymentPaymentsValid`: `PaymentsValid`;
* `PaymentSupplyKept`: `SupplyKept`.

Four invariants carry these.  `IInv` says what the chain, the messages and the maps
have to do with one another: every transaction has the shape of a message and is told
by its hash (`HashTells`); an input of a payment claims an output that its owner sees
(`Founded`); the unspent outputs of a node are those that its chain created and did not
spend, with what the transaction says of them (`GoodUtxo`); payments that spend one
output have the same inputs (`Apart`), because an output that was chosen is flagged or
gone at its owner's (`Flagged`); and what is in a pool or liminal was sent.  The
flags are why `OneSpender` holds: they stay when a block is added, since only an output
that is made anew loses its flag, and a transaction that pays a wallet is not on the
chain twice (`Fresh`).  `SInv` adds that pools and blocks are sound (`Sound`, sums and
size), so that `Mine` puts together what `ChkBlk` accepts: the inputs of a payment are
unspent at the next node or another version has spent them (`NextInput`), and the block
is not too large (`MinedFits`).  `NInv` adds that the sums of a payment are right
without the wrap: no output is in it twice, and what comes out is no more than what
goes in (`Balanced`); this is where `Exact` is needed, that amount and fee together
do not wrap.

`MInv` adds that blocks keep money: a coinbase transaction pays the fees of its block
and the reward (`Minted`), no payment is in a block twice (`PaysApart`), and the unspent
outputs of every node are worth the supply (`Funded`).  Along a block, each transaction
takes its inputs from what those before it left, with the amounts it names
(`RoundMoves`), and adds its outputs (`TxWorth`); so the block changes the worth by what
its transactions gain (`BlkWorth`).  The coinbase amount is computed modulo `Word`.
That it does not wrap is no assumption: its output is still there after the block
(`CoinbaseStays`), the other outputs are worth at least nothing, so fees are at most
the supply, which with the reward is less than `Word` on a chain that is `Plain`.

`ExcProofs` proves, for any number of traders, tokens, prices and orders, from
`ExcAssumption`:

* `Typed`: `TypeOK`, so no balance and no amount goes below zero;
* `FilledOrdersLeave`, `BooksStaySorted`: `OrdersOpen`, `BooksSorted`;
* `PricesAsQuoted`: `QuotePaid`;
* `ExchangeSolvent`: `Solvent`, for finitely many traders and tickers, and when each
  ticker is listed with one address (`OneAddress`).  The repository's tests do
  so, and the instance of `Exc_trade` too; the contract does not ask for it, and
  listing a ticker again under another address would leave the balances behind.

The inductive invariant is `ExcInv`: `TypeOK`, books that are sorted, open and have ids
below the next one (`GoodBook`), and no balances of unlisted tokens (`Unlisted`). A
market order is a fold over the book from its end; `Loop` is the invariant of its
rounds: the orders that it keeps are a run of the old book, all of them open, there are
none while something is left to trade, and the balances are well typed.  `Paid` runs the
quote and the trade side by side.  `SolventInv` adds `Solvent`: one transfer moves an
amount between two entries of the sum (`SumChange`, twice), so a round keeps it, and
with it the call.

**Induction over data.**  The library's induction theorems take an operator as a
parameter, which the installed provers cannot instantiate.  `FoldFacts` goes around
this: it proves induction over natural numbers for a SET of numbers
(`SetInduction`), from it that a fold is a sequence of rounds
(`FoldLeftRounds`), and facts about sums and walks, all for a constant operator `Op`.
A module of proofs instantiates it with the body of its loop.

Only model-checked: liveness (`AllServed`, `BlocksSpread`, `TxsSpread`, `Settles`), as
the prover has no fairness and no `ENABLED`, and the two statements that the code does
not keep.  Every other property of a run is also a theorem.

## 5. What is left

Every part of BrunoCoin that changes state is modelled, and the exchange.  What a next
version would add:

1. `Pool`: the liquidity pool composed with `Exc`.
2. RathDB: caches with flush and undo, branch switches, file offsets; the chain
   composed with the coin database.
3. A `Node` whose blocks have the content that `Payment` gives them; the two share no
   state now, so that forks and races are checked without sums and signatures.

## 6. Not modelled

Key generation, encodings of keys and hashes, the encoding of messages on the wire
(code that protoc generated); logging and printing; `Kill` of miner and
node and `GetAddresses`, which nobody calls.  `Payment` has no forks and no goroutines,
`Peers` no data races inside a handler: a process that such a race ends is one whose
server is paused for good.  The liquidity pool, the factory (one map written once per
pair) and RathDB are separate programs and are not modelled.

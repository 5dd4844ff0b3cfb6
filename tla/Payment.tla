------------------------------ MODULE Payment ------------------------------
(***************************************************************************)
(* The way of a payment through a BrunoCoin network: the wallet makes a    *)
(* transaction, the others validate it, a miner puts it in a block with a  *)
(* coinbase transaction, the others validate the block (BrunoCoin/pkg/     *)
(* block, wallet, miner, validation.go).  Here transactions and blocks     *)
(* have their content; the other modules name them by their hashes.        *)
(*                                                                         *)
(* A hash is the tuple of what is hashed, a signature the pair of a key    *)
(* and the hash that is signed, a locking script is a node's public key,   *)
(* the node itself.  Amounts are uint32, Word values here.  Which hashes   *)
(* are below a difficulty target depends on the nonce alone.               *)
(*                                                                         *)
(* There is one chain and its blocks arrive in order (Blockchain and Node  *)
(* have the forks); a node that refuses a block is left behind.  A handler *)
(* is one step (Miner and Wallet have the goroutines); what is broadcast   *)
(* may be lost, delayed or delivered again.  Nodes have a wallet or a      *)
(* miner: Wallet has the transaction object that the two would share.      *)
(*                                                                         *)
(* Bounds: each of Requests is made once, MaxLen blocks.                   *)
(***************************************************************************)
EXTENDS Integers, Sequences, FiniteSets, FiniteSetsExt, SequencesExt

CONSTANTS Nodes, Miners,
          Requests,      \* the calls [from, to, amt, fee] of SendTx
          Word,          \* number of values of a uint32
          GenPK, InitSbsdy,                 \* the genesis block pays GenPK
          InitSubsdy, SubsdyHlvRt, MxHlvgs, \* the reward of a block
          PriLim, BlkSz, TxPCap,            \* limits of a miner
          NncLim, InitPOWD,                 \* the search for a nonce
          Below,         \* difficulty target -> nonces of hashes below it
          MxBlkSz,       \* largest transaction or block that is valid
          SafeBlkAmt, TxRplyThresh,         \* of the wallet
          MaxLen         \* bound on the length of the chain

Payers == Nodes \ Miners

ASSUME PaymentAssumption ==
    /\ Miners \subseteq Nodes /\ Word \in Nat \ {0, 1}
    /\ Requests \subseteq [from : Payers, to : Nodes,
                           amt : 0 .. Word - 1, fee : 0 .. Word - 1]
    /\ {InitSbsdy, InitSubsdy} \subseteq 1 .. Word - 1
    /\ SubsdyHlvRt \in Nat \ {0} /\ MxHlvgs \in Nat
    /\ {BlkSz, MxBlkSz} \subseteq Nat /\ BlkSz <= MxBlkSz
    /\ PriLim \in Nat \ {0} /\ SafeBlkAmt \in Nat \ {0, 1} /\ TxRplyThresh \in Nat \ {0}

VARIABLES chain,   \* the blocks that were broadcast, as sent, genesis first
          at,      \* node -> how many of them it has added; the miner's ChnLen
          utxo,    \* node -> locator -> output object
          txMap,   \* miner -> hashes of transactions seen
          pool,    \* miner -> transactions of its pool
          lmnl,    \* payer -> liminal transactions [T, P] of its wallet
          told,    \* payer -> index of the last safe block its wallet handled
          net,     \* transactions that were broadcast, as sent
          todo,    \* requests not made yet
          refused, \* history: <<n, i>>, n found block i not valid
          dead     \* nodes whose process has ended

payVars == <<chain, at, utxo, txMap, pool, lmnl, told, net, todo, refused, dead>>
-----------------------------------------------------------------------------
(* Transactions: objects, what is sent of them, and hashes *)

Map(Op(_), s) == [i \in DOMAIN s |-> Op(s[i])]

\* The constructors of messages; versions and the default lock time are 0.
NewTxInpt(h, i, unlckScr, amt) == [tx |-> h, idx |-> i, sig |-> unlckScr, amt |-> amt]
NewTxOutpt(amt, toPK) == [amt |-> amt, pk |-> toPK]
NewTx(inpts, outpts) == [lock |-> 0, ins |-> inpts, outs |-> outpts]

\* The object of an output has a flag that is not sent; it is FALSE in the
\* object that the receiver makes.
SerializeOut(o) == [amt |-> o.amt, pk |-> o.pk]
DeserializeOut(p) == [amt |-> p.amt, pk |-> p.pk, lim |-> FALSE]

SerializeIn(i) == [tx |-> i.tx, idx |-> i.idx, sig |-> i.sig, amt |-> i.amt]
DeserializeIn(p) == [tx |-> p.tx, idx |-> p.idx, sig |-> p.sig, amt |-> p.amt]

Serialize(t) == [lock |-> t.lock, ins |-> Map(SerializeIn, t.ins),
                 outs |-> Map(SerializeOut, t.outs)]
Deserialize(p) == [lock |-> p.lock, ins |-> Map(DeserializeIn, p.ins),
                   outs |-> Map(DeserializeOut, p.outs)]

OutHash(o) == <<"out", o.amt, o.pk>>
InHash(i) == <<"in", i.tx, i.idx, i.sig, i.amt>>
TxHash(t) == <<"tx", t.lock, Map(InHash, t.ins), Map(OutHash, t.outs)>>

SumAmt(s) == FoldLeft(LAMBDA sum, x : (sum + x.amt) % Word, 0, s)
SumInputs(t) == SumAmt(t.ins)
SumOutputs(t) == SumAmt(t.outs)
Fee(t) == (SumInputs(t) - SumOutputs(t)) % Word
IsCoinbase(t) == t.ins = <<>>

\* SzOfTx: two words and two strings of an input, a word and a string of an
\* output, the version and the lock time.
SzOfTx(t) == 40 * Len(t.ins) + 20 * Len(t.outs) + 8

MkTXOLoc(h, i) == <<h, i>>
PrsTXOLoc(l) == [TxHsh |-> l[1], OutIdx |-> l[2]]
Spends(t) == {MkTXOLoc(t.ins[k].tx, t.ins[k].idx) : k \in DOMAIN t.ins}
Creates(t) == {MkTXOLoc(TxHash(t), k) : k \in DOMAIN t.outs}

Sign(n, h) == [by |-> n, over |-> h]

\* Mutant of MkSig: what is signed is the locator.
MkSigLoc(n, l, o) == Sign(n, <<"loc", l>>)

\* MkSig signs the hash of the output: an amount and a key, no locator.
MkSig(n, l, o) == Sign(n, OutHash(o))
IsUnlckd(o, sig) == sig.by = o.pk /\ sig.over = OutHash(o)
-----------------------------------------------------------------------------
(* Blocks *)

\* A header as it is before the search for a nonce.
Header(prv, root, target) == [prev |-> prv, root |-> root, targ |-> target, nonce |-> 0]

\* One level of the tree: neighbours are hashed together, the last hash of an
\* odd number of them with itself.
Level(hs) == IF Len(hs) = 1 THEN hs
             ELSE [i \in 1 .. (Len(hs) + 1) \div 2 |->
                      <<"node", hs[2 * i - 1], hs[IF 2 * i > Len(hs) THEN Len(hs) ELSE 2 * i]>>]
CalcMrklRt(txs) == FoldLeft(LAMBDA hs, t : Level(hs), Map(TxHash, txs), txs)[1]

BlkHash(b) == <<"blk", b.hdr.prev, b.hdr.root, b.hdr.targ, b.hdr.nonce>>
SatisfiesPOW(b, dt) == b.hdr.nonce \in Below[dt]

SzOfHdr == 16 + 4 + 16 + 4 + 4
SzOfBlk(b) == SzOfHdr + FoldLeft(LAMBDA sz, t : sz + SzOfTx(t), 0, b.txs)

SerializeBlk(b) == [b EXCEPT !.txs = Map(Serialize, @)]
DeserializeBlk(p) == [p EXCEPT !.txs = Map(Deserialize, @)]

\* block.New: the transactions are serialized and made again, so the block
\* has objects of its own.
NewBlk(prv, txs, target) ==
    DeserializeBlk([hdr |-> Header(prv, CalcMrklRt(txs), target),
                    txs |-> Map(Serialize, txs)])

GenesisBlock ==
    [hdr |-> Header("", "", ""),
     txs |-> <<NewTx(<<>>, <<NewTxOutpt(InitSbsdy, GenPK)>>)>>]

\* Mutant of ApplyTx: every key gets the first output of the transaction.
ApplyTxFirst(U, t) == [l \in (DOMAIN U \ Spends(t)) \cup Creates(t) |->
                          IF l \in Creates(t) THEN t.outs[1] ELSE U[l]]

\* The loops of Blockchain.Add over the transactions of a block.
ApplyTx(U, t) == [l \in (DOMAIN U \ Spends(t)) \cup Creates(t) |->
                     IF l \in Creates(t) THEN t.outs[l[2]] ELSE U[l]]
ApplyBlk(U, b) == FoldLeft(ApplyTx, U, b.txs)
-----------------------------------------------------------------------------
(* Validation *)

\* GetUTXO: the output that an input names, if it is unspent.
GetUTXO(n, in) == {utxo[n][l] : l \in DOMAIN utxo[n] \cap {MkTXOLoc(in.tx, in.idx)}}

\* The amounts that the inputs state are summed, not those of the outputs
\* they name, and the sums may wrap.
ChkTx(n, t) ==
    /\ SumOutputs(t) # 0
    /\ SumOutputs(t) <= SumInputs(t)
    /\ \A k \in DOMAIN t.ins :
          \E o \in GetUTXO(n, t.ins[k]) : IsUnlckd(o, t.ins[k].sig)
    /\ SzOfTx(t) <= MxBlkSz

\* Each transaction is looked at by itself: two that spend one output pass.
\* The difficulty target is the one that the block states, and the Merkle
\* root is not computed again.
ChkBlk(n, b) ==
    /\ b.txs # <<>>
    /\ IsCoinbase(b.txs[1])
    /\ \A k \in 2 .. Len(b.txs) : Spends(b.txs[k]) \subseteq DOMAIN utxo[n] /\ ChkTx(n, b.txs[k])
    /\ SzOfBlk(b) <= MxBlkSz
    /\ SatisfiesPOW(b, b.hdr.targ)
    /\ SumOutputs(b.txs[1]) # 0
    /\ SzOfTx(b.txs[1]) <= MxBlkSz
-----------------------------------------------------------------------------
Init == /\ chain = <<GenesisBlock>>
        /\ at = [n \in Nodes |-> 1]
        /\ utxo = [n \in Nodes |-> ApplyBlk(<<>>, DeserializeBlk(GenesisBlock))]
        /\ txMap = [n \in Miners |-> {}]
        /\ pool = [n \in Miners |-> {}]
        /\ lmnl = [n \in Payers |-> {}]
        /\ told = [n \in Payers |-> 0]
        /\ net = {} /\ todo = Requests /\ refused = {} /\ dead = {}
-----------------------------------------------------------------------------
(* The wallet *)

\* Mutant of Spendable: the flag is not read.
SpendableAll(n) == {l \in DOMAIN utxo[n] : utxo[n][l].pk = n}
Spendable(n) == {l \in DOMAIN utxo[n] : utxo[n][l].pk = n /\ ~utxo[n][l].lim}

Amts(n) == [l \in DOMAIN utxo[n] |-> utxo[n][l].amt]
Collected(n, S) == SumFunctionOnSet(Amts(n), S) % Word
SetLiminal(n, S) == utxo' = [utxo EXCEPT ![n] =
                        [l \in DOMAIN @ |-> IF l \in S THEN [@[l] EXCEPT !.lim = TRUE] ELSE @[l]]]

\* The sum that HndlTxReq asks for, in 32 bits.
Needed(r) == (r.amt + r.fee) % Word

\* What one order of the map may give: GetUTXOForAmt stops as soon as it has
\* enough.
Collections(n, amt) ==
    {S \in SUBSET Spendable(n) :
        /\ Collected(n, S) >= amt
        /\ S # {} => \E l \in S : Collected(n, S \ {l}) < amt}

\* The transaction that HndlTxReq makes of the outputs S: a signed input for
\* each, the payment, and the change if there is any.
MkTx(r, S) ==
    LET n == r.from
        change == (Collected(n, S) - Needed(r)) % Word
        In(l) == LET ut == PrsTXOLoc(l)
                 IN  NewTxInpt(ut.TxHsh, ut.OutIdx, MkSig(n, l, utxo[n][l]), utxo[n][l].amt)
    IN  Deserialize(NewTx(Map(In, SetToSeq(S)),
                          <<NewTxOutpt(r.amt, r.to)>> \o
                          (IF change > 0 THEN <<NewTxOutpt(change, n)>> ELSE <<>>)))

\* HndlTxReq, and HndlWtTx that broadcasts the transaction.
HndlTxReq(r) ==
    /\ r \in todo
    /\ \E S \in Collections(r.from, Needed(r)) :
          LET t == MkTx(r, S)
          IN  /\ SetLiminal(r.from, S)
              /\ lmnl' = [lmnl EXCEPT ![r.from] = @ \cup {[T |-> t, P |-> 0]}]
              /\ net' = net \cup {Serialize(t)}
    /\ todo' = todo \ {r}
    /\ UNCHANGED <<chain, at, txMap, pool, told, refused, dead>>

\* GetUTXOForAmt runs out of outputs, having set the flag of each.
HndlTxReqFails(r) ==
    /\ r \in todo
    /\ Collected(r.from, Spendable(r.from)) < Needed(r)
    /\ SetLiminal(r.from, Spendable(r.from))
    /\ todo' = todo \ {r}
    /\ UNCHANGED <<chain, at, txMap, pool, lmnl, told, net, refused, dead>>

\* SendTx starts HndlTxReq if the amount is positive.
SendTx(r) == r.amt > 0 /\ (HndlTxReq(r) \/ HndlTxReqFails(r))

\* HndlBlk of the wallet changes the lock time to get another hash.
Again(t) == [t EXCEPT !.lock = (@ + 1) % Word]

\* The wallet's HndlBlk on the next block that is safe: liminal transactions
\* that the block holds are done, those that have waited long enough are sent
\* again with another lock time, and so another hash.
HndlBlk(n) ==
    LET i     == told[n] + 1
        b     == DeserializeBlk(chain[i])
        older == {[x EXCEPT !.P = @ + 1] :
                     x \in {y \in lmnl[n] : \A k \in DOMAIN b.txs : TxHash(b.txs[k]) # TxHash(y.T)}}
        old   == {Again(x.T) : x \in {y \in older : y.P >= TxRplyThresh}}
    IN  /\ i <= at[n] - SafeBlkAmt + 1
        /\ told' = [told EXCEPT ![n] = i]
        /\ lmnl' = [lmnl EXCEPT ![n] = {y \in older : y.P < TxRplyThresh}
                                       \cup {[T |-> t, P |-> 0] : t \in old}]
        /\ net' = net \cup {Serialize(t) : t \in old}
        /\ UNCHANGED <<chain, at, utxo, txMap, pool, todo, refused, dead>>
-----------------------------------------------------------------------------
(* Other nodes, and miners *)

\* ForwardTransaction at a miner, whose pool drops the transaction if it is
\* full.  Other nodes only pass it on (Node has that).
ForwardTransaction(n, p) ==
    LET t == Deserialize(p)
    IN  /\ n \notin dead
        /\ TxHash(t) \notin txMap[n]
        /\ ChkTx(n, t)
        /\ pool' = [pool EXCEPT ![n] = IF Cardinality(@) < TxPCap THEN @ \cup {t} ELSE @]
        /\ txMap' = [txMap EXCEPT ![n] = @ \cup {TxHash(t)}]
        /\ UNCHANGED <<chain, at, utxo, lmnl, told, net, todo, refused, dead>>

CalcPri(t) == LET pri == ((Fee(t) * 100) % Word) \div SzOfTx(t) IN IF pri = 0 THEN 1 ELSE pri

\* NewMiningPool goes through the array of the heap, in an order that TxPool
\* has and that is left open here, and stops at the first transaction that
\* does not fit; 100 bytes are for the coinbase.
TotalSz(S) == 100 + SumFunction([t \in S |-> SzOfTx(t)])
MiningPools(n) == {S \in SUBSET pool[n] :
                      /\ S # {} => TotalSz(S) < BlkSz
                      /\ S = pool[n] \/ \E t \in pool[n] \ S : TotalSz(S \cup {t}) >= BlkSz}

\* The minting reward of GenCBTx, halved round by round.
Halvings(len) == LET hlvgs == len \div SubsdyHlvRt IN IF hlvgs < MxHlvgs THEN hlvgs ELSE MxHlvgs
Reward(len) == FoldLeft(LAMBDA reward, i : reward \div 2, InitSubsdy,
                        [i \in 1 .. Halvings(len) |-> i])

\* Mutant of GenCBTx: the fees are not collected.
GenCBTxNoFees(n, txs) ==
    Deserialize(NewTx(<<>>, <<NewTxOutpt(Reward(at[n]), n)>>))

\* The fees of all transactions and the reward, paid to the miner.  Nothing
\* in it tells two coinbase transactions of one miner with one sum apart.
GenCBTx(n, txs) ==
    LET fees == FoldLeft(LAMBDA sum, t : (sum + Fee(t)) % Word, 0, txs)
    IN  Deserialize(NewTx(<<>>, <<NewTxOutpt((fees + Reward(at[n])) % Word, n)>>))

\* CalcNonce: the first nonce that will do; without one there is no block.
CalcNonce(b) == {i \in 0 .. NncLim - 1 :
                    /\ SatisfiesPOW([b EXCEPT !.hdr.nonce = i], InitPOWD)
                    /\ \A j \in 0 .. i - 1 : ~SatisfiesPOW([b EXCEPT !.hdr.nonce = j], InitPOWD)}

PriMet(n) == MapThenSumSet(CalcPri, pool[n]) >= PriLim

\* Mutant of AddBlk: the miner's pool keeps what the block holds.
AddBlkKeeps(n, b) == /\ utxo' = [utxo EXCEPT ![n] = ApplyBlk(@, b)]
                     /\ at' = [at EXCEPT ![n] = @ + 1]
                     /\ UNCHANGED pool

\* The node n adds block b: the chain, and the miner's HndlBlk, which takes
\* the transactions with the same hashes out of the pool.
AddBlk(n, b) ==
    /\ utxo' = [utxo EXCEPT ![n] = ApplyBlk(@, b)]
    /\ at' = [at EXCEPT ![n] = @ + 1]
    /\ pool' = [m \in Miners |->
                  IF m # n THEN pool[m]
                  ELSE {t \in pool[m] : \A k \in DOMAIN b.txs : TxHash(b.txs[k]) # TxHash(t)}]

\* A round of the miner, up to HndlMnrBlk: the block is added without being
\* checked, and broadcast.
Mine(n) ==
    /\ n \notin dead
    /\ at[n] = Len(chain) /\ Len(chain) < MaxLen
    /\ PriMet(n)
    /\ \E S \in MiningPools(n) \ {{}} :
          LET txs == SetToSeq(S)
              b   == NewBlk(BlkHash(chain[at[n]]), <<GenCBTx(n, txs)>> \o txs, InitPOWD)
          IN  \E i \in CalcNonce(b) :
                 LET mined == [b EXCEPT !.hdr.nonce = i]
                 IN  AddBlk(n, mined) /\ chain' = Append(chain, SerializeBlk(mined))
    /\ UNCHANGED <<txMap, lmnl, told, net, todo, refused, dead>>

\* No transaction fits: GenCBTx returns nil for the empty list, and block.New
\* dereferences it.
MineNothing(n) ==
    /\ n \notin dead
    /\ PriMet(n)
    /\ {} \in MiningPools(n)
    /\ dead' = dead \cup {n}
    /\ UNCHANGED <<chain, at, utxo, txMap, pool, lmnl, told, net, todo, refused>>

\* ForwardBlock with the next block of the chain.
ForwardBlock(n) ==
    LET i == at[n] + 1
        b == DeserializeBlk(chain[i])
    IN  /\ n \notin dead
        /\ i <= Len(chain) /\ <<n, i>> \notin refused
        /\ IF ChkBlk(n, b)
           THEN AddBlk(n, b) /\ UNCHANGED refused
           ELSE refused' = refused \cup {<<n, i>>} /\ UNCHANGED <<utxo, at, pool>>
        /\ UNCHANGED <<chain, txMap, lmnl, told, net, todo, dead>>

Next == \/ \E r \in Requests : SendTx(r)
        \/ \E n \in Payers : HndlBlk(n)
        \/ \E n \in Nodes : ForwardBlock(n)
        \/ \E n \in Miners : Mine(n) \/ MineNothing(n) \/ \E p \in net : ForwardTransaction(n, p)

Spec == Init /\ [][Next]_payVars
-----------------------------------------------------------------------------
(* Properties *)

\* The transactions of the first k blocks of the chain.
TxsOf(k) == UNION {ToSet(chain[i].txs) : i \in 1 .. k}

\* Two transactions with the same inputs are one payment, sent again.
Versions(s, t) == s # t /\ s.ins = t.ins /\ s.ins # <<>>

\* t was made of a request whose amount and fee add up without a wrap, or of
\* none.
Exact(t) == \A r \in Requests :
    t.outs[1] = [amt |-> r.amt, pk |-> r.to] => r.amt + r.fee < Word

\* Beside the types: an unspent output is the one that its locator names, in
\* every node, however the transaction and its block were sent and made again.
TypeOK ==
    /\ at \in [Nodes -> 1 .. Len(chain)] /\ told \in [Payers -> 0 .. Len(chain)]
    /\ todo \subseteq Requests /\ dead \subseteq Miners
    /\ \A n \in Nodes : \A l \in DOMAIN utxo[n] :
          /\ utxo[n][l] \in [amt : 0 .. Word - 1, pk : Nodes \cup {GenPK}, lim : BOOLEAN]
          /\ \E t \in TxsOf(at[n]) : l[1] = TxHash(t) /\ SerializeOut(utxo[n][l]) = t.outs[l[2]]

\* A payment that the wallet makes or sends again is valid for every node
\* whose chain has its inputs unspent: signatures, sums and locators survive
\* the way through the wire, and the fee and the change add up.  (A payment
\* that is too large, or whose amount and fee wrap, may not be.)
PaymentsValid == \A p \in net, n \in Nodes :
    (/\ Exact(p) /\ SzOfTx(p) <= MxBlkSz
     /\ Spends(p) \subseteq DOMAIN utxo[n]) => ChkTx(n, Deserialize(p))

\* "The transaction must not double spend any UTXO" (validation.go, ChkTx), as
\* far as it is so: an output is spent again on the chain only by another
\* version of the payment that spent it.
OneSpender == \A s, t \in TxsOf(Len(chain)) :
    Spends(s) \cap Spends(t) # {} => s = t \/ Versions(s, t)

\* A block that a miner adds unchecked is valid for all others, unless it has
\* a payment of which the chain has a version already, which stayed in the
\* miner's pool, or pays its miner nothing: the reward has been halved to zero
\* and there are no fees.
BlocksAccepted == \A r \in refused :
    LET b == chain[r[2]]
    IN  \/ SumOutputs(b.txs[1]) = 0
        \/ \E s \in TxsOf(r[2] - 1), t \in ToSet(b.txs) : Versions(s, t)

\* What the genesis block and k - 1 blocks after it have paid out.
Supply(k) == InitSbsdy + SumFunction([i \in 1 .. k - 1 |-> Reward(i)])

\* The first k blocks have no two coinbase transactions with one hash, no two
\* versions of a payment, and no sum that wraps: not that of an amount and a
\* fee, nor that of all outputs.
Plain(k) ==
    /\ \A i, j \in 1 .. k : i # j => chain[i].txs[1] # chain[j].txs[1]
    /\ \A s, t \in TxsOf(k) : ~Versions(s, t)
    /\ \A t \in TxsOf(k) : Exact(t)
    /\ Supply(k) < Word

\* The unspent outputs of a node are worth the genesis output and the rewards
\* of its blocks: fees go to the miners, and nothing is lost or made.
SupplyKept == \A n \in Nodes : Plain(at[n]) => SumFunction(Amts(n)) = Supply(at[n])
=============================================================================

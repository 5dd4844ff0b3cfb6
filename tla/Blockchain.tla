----------------------------- MODULE Blockchain -----------------------------
(***************************************************************************)
(* The block tree of a BrunoCoin node (BrunoCoin/pkg/blockchain).          *)
(*                                                                         *)
(* A block and a transaction are named by their hashes, which are taken to *)
(* be collision free: two transactions with the same content, such as two  *)
(* coinbase transactions of one miner with the same reward, are ONE        *)
(* element of Txs, and the constant functions below give the content that  *)
(* a hash stands for.  An output is named by its locator, the pair of the  *)
(* hash of its transaction and its index (from 1 here, from 0 in the       *)
(* code), which is the key of the utxo maps; the entry under a key is      *)
(* determined by the key, but for the Liminal flag of the output object.   *)
(*                                                                         *)
(* Add does not copy the utxo map of the previous node, it shares it: a Go *)
(* map is a reference, so every node of the tree holds the map that New    *)
(* made for the genesis block.  The maps of all nodes are therefore one    *)
(* variable, utxo.                                                         *)
(***************************************************************************)
EXTENDS Integers, Sequences, FiniteSets, FiniteSetsExt

CONSTANTS Blocks,        \* hashes of the blocks that callers may add
          Genesis,       \* the hash of the genesis block
          Txs,           \* hashes of transactions
          PubKeys,       \* public keys, the locking scripts of outputs
          PrvBlkHsh,     \* block -> hash in its header, of a block or of none
          Transactions,  \* block -> sequence of transactions
          Inputs,        \* transaction -> sequence of [loc, amt, signer]
          Outputs,       \* transaction -> sequence of [amt, pk]
          Amounts,       \* amounts that the wallet may ask for
          MaxGrants      \* bound on the requests that are granted

\* Identifiers of outputs: the strings that MkTXOLoc makes.
Locators == Txs \X (Nat \ {0})

ASSUME UniverseAssumption ==
    /\ Genesis \in Blocks
    /\ Transactions \in [Blocks -> Seq(Txs)]
    /\ Inputs \in [Txs -> Seq([loc : Locators, amt : Nat, signer : PubKeys])]
    /\ Outputs \in [Txs -> Seq([amt : Nat, pk : PubKeys])]
    /\ Amounts \subseteq Nat

\* The header of the genesis block holds the empty string, no block's hash.
ASSUME GenesisAssumption == PrvBlkHsh[Genesis] \notin Blocks

VARIABLES blocks,     \* hash -> [prev, depth], for every stored node
          lastBlock,  \* hash of the last block of the main chain
          utxo,       \* keys of the utxo map that all nodes share
          liminal,    \* outputs whose object has Liminal set
          alive,      \* FALSE once a nil dereference has ended the process
          grants      \* history: the outputs handed to the wallet, per request

bcVars == <<blocks, lastBlock, utxo, liminal, alive, grants>>
-----------------------------------------------------------------------------
(* Transactions and their outputs *)

\* Locators of the outputs that t creates (MkTXOLoc over its outputs).
Creates(t) == {t} \X DOMAIN Outputs[t]

\* Locators of the outputs that t spends.
Spends(t) == {Inputs[t][k].loc : k \in DOMAIN Inputs[t]}

\* Mutants of ApplyTxs: the index of a new output is off by one, or spent
\* outputs stay in the map.
ApplyTxsShifted(U, txs) ==
    {l \in U : \A k \in DOMAIN txs : l \notin Spends(txs[k])}
    \cup UNION {{<<l[1], l[2] + 1>> : l \in Creates(txs[k])} : k \in DOMAIN txs}
ApplyTxsKeepSpent(U, txs) == U \cup UNION {Creates(txs[k]) : k \in DOMAIN txs}

\* The two loops of Add over the transactions of a block, in order: an
\* output stays if no transaction spends it, a created output stays if no
\* later transaction of the block spends it.
ApplyTxs(U, txs) ==
    {l \in U : \A k \in DOMAIN txs : l \notin Spends(txs[k])}
    \cup UNION {{l \in Creates(txs[k]) : \A j \in DOMAIN txs :
                    j > k => l \notin Spends(txs[j])} : k \in DOMAIN txs}

CreatedBy(b) == UNION {Creates(Transactions[b][k]) : k \in DOMAIN Transactions[b]}

AmtOf(l) == Outputs[l[1]][l[2]].amt
OwnerOf(l) == Outputs[l[1]][l[2]].pk

\* GetBalance: liminal outputs count too.
GetBalance(pk) == MapThenSumSet(AmtOf, {l \in utxo : OwnerOf(l) = pk})
-----------------------------------------------------------------------------
(* Queries on the tree *)

Stored == DOMAIN blocks
Depth(b) == blocks[b].depth
Length == Depth(lastBlock) + 1
IndexOf(h) == IF h \in Stored THEN Depth(h) ELSE -1
IsEndMainChain(b) == PrvBlkHsh[b] = lastBlock

\* List follows PrevNode from LastBlock depth + 1 times; the block at index
\* i of the main chain is Main[i], from 0.
Main == LET walk[i \in 0 .. Depth(lastBlock)] ==
              IF i = Depth(lastBlock) THEN lastBlock ELSE blocks[walk[i + 1]].prev
        IN  walk
List == [i \in 1 .. Length |-> Main[i - 1]]

\* Slice: the main chain from index s up to, but not including, index e.
\* The walk stops at the genesis block, so a negative s is index 0.
Slice(s, e) == LET from == IF s < 0 THEN 0 ELSE s
                   to   == IF e > Length THEN Length ELSE e
               IN  [i \in 1 .. to - from |-> Main[from + i - 1]]

\* ChkChainsUTXO: every input is in the utxo map of the previous node; for an
\* unknown previous node, in that of LastBlock.  Both are the shared map.
\* Two transactions that spend the same output pass.
ChkChainsUTXO(txs) == \A k \in DOMAIN txs : Spends(txs[k]) \subseteq utxo

\* IsInvalidInput and GetUTXO look the input up in the map of LastBlock.
IsInvalidInput(l) == l \notin utxo
-----------------------------------------------------------------------------
(* Operations *)

Init == /\ blocks = [b \in {Genesis} |-> [prev |-> PrvBlkHsh[Genesis], depth |-> 0]]
        /\ lastBlock = Genesis
        /\ utxo = {l \in CreatedBy(Genesis) : l[2] = 1}
        /\ liminal = {}
        /\ alive = TRUE
        /\ grants = <<>>

\* Mutants of NewNode: the node hangs on LastBlock whatever its header says,
\* or its depth is counted from there.
NewNodeOnLast(b) == [prev |-> lastBlock, depth |-> Depth(lastBlock) + 1]
NewNodeLastDepth(b) == [prev |-> PrvBlkHsh[b], depth |-> Depth(lastBlock) + 1]

NewNode(b) == [prev |-> PrvBlkHsh[b], depth |-> Depth(PrvBlkHsh[b]) + 1]

\* Mutants of NewLast: only a child of LastBlock replaces it, or a tie does.
NewLastNoReorg(b) == IF IsEndMainChain(b) THEN b ELSE lastBlock
NewLastOnTie(b) == IF NewNode(b).depth >= Depth(lastBlock) THEN b ELSE lastBlock

\* LastBlock moves only to a strictly deeper node.
NewLast(b) == IF NewNode(b).depth > Depth(lastBlock) THEN b ELSE lastBlock

\* Add on a stored parent, under the lock.  Nothing stops a block from being
\* added again: the loops run again, and its outputs are new objects.
AddNode(b) ==
    /\ alive
    /\ PrvBlkHsh[b] \in Stored
    /\ utxo' = ApplyTxs(utxo, Transactions[b])
    /\ liminal' = liminal \ CreatedBy(b)
    /\ blocks' = [x \in Stored \cup {b} |-> IF x = b THEN NewNode(b) ELSE blocks[x]]
    /\ lastBlock' = NewLast(b)
    /\ UNCHANGED <<alive, grants>>

\* Add on an unknown parent: prevNode is nil and prevNode.utxo panics.
AddOrphan(b) ==
    /\ alive
    /\ PrvBlkHsh[b] \notin Stored
    /\ alive' = FALSE
    /\ UNCHANGED <<blocks, lastBlock, utxo, liminal, grants>>

Add(b) == AddNode(b) \/ AddOrphan(b)

\* Mutant of Spendable: the Liminal flag is not read.
SpendableAll(pk) == {l \in utxo : OwnerOf(l) = pk}

\* Outputs that GetUTXOForAmt may take.
Spendable(pk) == {l \in utxo : OwnerOf(l) = pk /\ l \notin liminal}

\* The iteration over the map, in any order, stops as soon as the amount is
\* reached: S is what one order collected.
Enough(S, amt) == LET sum == MapThenSumSet(AmtOf, S)
                  IN  sum >= amt /\ (S # {} => \E l \in S : sum - AmtOf(l) < amt)

\* GetUTXOForAmt that finds enough; S is what the wallet gets.
TakeUTXO(amt, pk, S) ==
    /\ alive
    /\ S \subseteq Spendable(pk)
    /\ Enough(S, amt)
    /\ Len(grants) < MaxGrants
    /\ liminal' = liminal \cup S
    /\ grants' = Append(grants, S)
    /\ UNCHANGED <<blocks, lastBlock, utxo, alive>>

\* GetUTXOForAmt that runs out of outputs: it has set Liminal on all of them,
\* and returns false.
TakeUTXOFails(amt, pk) ==
    /\ alive
    /\ MapThenSumSet(AmtOf, Spendable(pk)) < amt
    /\ liminal' = liminal \cup Spendable(pk)
    /\ UNCHANGED <<blocks, lastBlock, utxo, alive, grants>>

GetUTXOForAmt(amt, pk) ==
    \/ \E S \in SUBSET Spendable(pk) : TakeUTXO(amt, pk, S)
    \/ TakeUTXOFails(amt, pk)

Next == \/ \E b \in Blocks : Add(b)
        \/ \E amt \in Amounts, pk \in PubKeys : GetUTXOForAmt(amt, pk)

Spec == Init /\ [][Next]_bcVars
-----------------------------------------------------------------------------
(* Properties *)

TypeOK == /\ Stored \subseteq Blocks
          /\ blocks \in [Stored -> [prev : {PrvBlkHsh[b] : b \in Blocks}, depth : Nat]]
          /\ lastBlock \in Stored
          /\ utxo \subseteq Locators
          /\ liminal \subseteq Locators
          /\ alive \in BOOLEAN

\* The nodes form one tree rooted at the genesis block: following PrevNode
\* from any node stays among stored nodes, goes up one level at a time and
\* ends at the genesis block, so List and Slice never dereference nil.
TreeRooted ==
    /\ Genesis \in Stored /\ Depth(Genesis) = 0
    /\ \A b \in Stored \ {Genesis} :
          /\ blocks[b].prev = PrvBlkHsh[b]
          /\ PrvBlkHsh[b] \in Stored
          /\ Depth(b) = Depth(PrvBlkHsh[b]) + 1

\* No stored block is deeper than LastBlock: whatever the order in which the
\* blocks of the forks arrive, the main chain is a longest one.
LongestChain == \A b \in Stored : Depth(b) <= Depth(lastBlock)

\* Every unspent output was created by a block of the tree.
Provenance == \A l \in utxo : \E b \in Stored : l \in CreatedBy(b)

\* LastBlock is replaced only by a block one deeper: a tie never switches
\* the main chain, and Length never shrinks or jumps.
FirstSeenWins == [][lastBlock' # lastBlock =>
                        blocks'[lastBlock'].depth = Depth(lastBlock) + 1]_bcVars

\* Nodes are never dropped and never change.
AppendOnly == [][\A b \in Stored : b \in DOMAIN blocks' /\ blocks'[b] = blocks[b]]_bcVars
=============================================================================

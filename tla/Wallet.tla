------------------------------- MODULE Wallet -------------------------------
(***************************************************************************)
(* The wallet of a BrunoCoin node (BrunoCoin/pkg/wallet) with what the     *)
(* node does around it: ForwardBlock tells it about blocks that have       *)
(* become safe (server.go), and the node's loop broadcasts what it sends   *)
(* (node.go, HndlWtTx).                                                    *)
(*                                                                         *)
(* A transaction of the wallet is one object: the liminal transactions,    *)
(* the node's loop and the node's own miner all hold a pointer to it, and  *)
(* a resend increments LockTime in place.  What the network sees of it is  *)
(* a version <<t, l>>, its content with lock time l, named by its hash.    *)
(* The main chain is a sequence of sets of versions and does not fork.     *)
(***************************************************************************)
EXTENDS TxHeap, FiniteSetsExt

CONSTANTS Txs,           \* transactions that the wallet may be asked to make
          TxRplyThresh,  \* blocks seen until a transaction is sent again
          SafeBlkAmt,    \* how far down a block is when the wallet sees it
          MaxLen         \* bound on the length of the main chain

ASSUME WalletAssumption ==
    /\ TxRplyThresh \in Nat \ {0} /\ SafeBlkAmt \in Nat \ {0} /\ MaxLen \in Nat
    /\ Txs \cap Nat = {}  \* a transaction is no number of a block

VARIABLES chain,   \* the main chain, the genesis block first
          lock,    \* transaction -> LockTime of its object
          lmnl,    \* LmnlTxs.TxQ: heap of [P, T]
          pc,      \* goroutine -> where it is
          seen,    \* goroutine of a block -> length or index that it has read
          todo,    \* goroutine -> transactions that it still has to send
          net,     \* versions that were broadcast
          pool     \* transaction -> pointers to it in the pool of the node's own miner

walletVars == <<chain, lock, lmnl, pc, seen, todo, net, pool>>

\* ForwardBlock and then HndlBlk run in one goroutine per block of the chain.
BlkProcs == 2 .. MaxLen

Procs == BlkProcs \cup Txs

Version(t) == <<t, lock[t]>>
Goto(p, l) == pc' = [pc EXCEPT ![p] = l]

\* Some version of t is in block i.
InBlock(t, i) == \E v \in chain[i] : v[1] = t
-----------------------------------------------------------------------------
(* The liminal transactions: a heap by the number of blocks seen *)
NewLmnlTxs == NewTxHeap
LmnlAdd(t) == lmnl' = HeapAdd(lmnl, 0, t)

Init == /\ chain = <<{}>>
        /\ lock = [t \in Txs |-> 0]
        /\ lmnl = NewLmnlTxs
        /\ pc = [p \in Procs |-> "idle"]
        /\ seen = [p \in BlkProcs |-> 0]
        /\ todo = [p \in Procs |-> <<>>]
        /\ net = {}
        /\ pool = [t \in Txs |-> 0]

\* HndlTxReq, when the chain has enough outputs: the new transaction is put
\* with the liminal ones, then sent.
HndlTxReq(t) ==
    /\ pc[t] = "idle"
    /\ LmnlAdd(t)
    /\ todo' = [todo EXCEPT ![t] = <<t>>]
    /\ Goto(t, "send")
    /\ UNCHANGED <<chain, lock, seen, net, pool>>

\* A block extends the main chain.  It has versions that were broadcast or, if
\* the node's own miner made it, transactions as they are in its pool at the
\* moment.  Such a block is added unchecked; that of another miner may have
\* two versions of one transaction.
AddBlock ==
    /\ Len(chain) < MaxLen
    /\ \E S \in SUBSET (net \cup {Version(t) : t \in {u \in Txs : pool[u] > 0}}) :
          chain' = Append(chain, S)
    /\ Goto(Len(chain) + 1, "added")
    /\ UNCHANGED <<lock, lmnl, seen, todo, net, pool>>

\* "Slice(Length()-SafeBlkAmt, Length())": the length is read twice, each
\* time under the lock, and more blocks may be added in between.
ReadLength(n) ==
    /\ pc[n] = "added"
    /\ seen' = [seen EXCEPT ![n] = Len(chain)]
    /\ Goto(n, "slice")
    /\ UNCHANGED <<chain, lock, lmnl, todo, net, pool>>

\* "if len(blks) == SafeBlkAmt { go n.Wallet.HndlBlk(blks[0]) }", where blks
\* starts at the chain's start if the chain was too short.
Start(n) == Max({0, seen[n] - SafeBlkAmt})
ReadSlice(n) ==
    /\ pc[n] = "slice"
    /\ Goto(n, IF Len(chain) - Start(n) = SafeBlkAmt THEN "chk" ELSE "done")
    /\ seen' = [seen EXCEPT ![n] = Start(n) + 1]
    /\ UNCHANGED <<chain, lock, lmnl, todo, net, pool>>

\* Mutant of ChkTxs: old transactions are sent again and not taken out.
ChkTxsKeepOld(n) ==
    LET found == SetToSeq({t \in Txs : Version(t) \in chain[seen[n]]})
        older == IncAll(Rmv(lmnl, found))
    IN  /\ pc[n] = "chk"
        /\ lmnl' = older
        /\ todo' = [todo EXCEPT ![n] = Above(older, TxRplyThresh)]
        /\ Goto(n, "resend")
        /\ UNCHANGED <<chain, lock, seen, net, pool>>

\* LmnlTxs.ChkTxs, under its mutex: a liminal transaction goes if its version
\* of this moment is in the block; all others have seen one more block, and
\* those that have seen enough are taken out to be sent again.
ChkTxs(n) ==
    LET found == SetToSeq({t \in Txs : Version(t) \in chain[seen[n]]})
        older == IncAll(Rmv(lmnl, found))
    IN  /\ pc[n] = "chk"
        /\ lmnl' = RemAbv(older, TxRplyThresh)
        /\ todo' = [todo EXCEPT ![n] = Above(older, TxRplyThresh)]
        /\ Goto(n, "resend")
        /\ UNCHANGED <<chain, lock, seen, net, pool>>

\* Mutant of Resend: the transaction is not put back with the liminal ones.
ResendForgets(n) ==
    /\ pc[n] = "resend"
    /\ IF todo[n] = <<>>
       THEN Goto(n, "done") /\ UNCHANGED lock
       ELSE /\ lock' = [lock EXCEPT ![Head(todo[n])] = @ + 1]
            /\ Goto(n, "send")
    /\ UNCHANGED <<chain, lmnl, seen, todo, net, pool>>

\* The loop of HndlBlk: LockTime += 1 on the shared object, LmnlTxs.Add, and
\* then the wait on SendTx.
Resend(n) ==
    /\ pc[n] = "resend"
    /\ IF todo[n] = <<>>
       THEN Goto(n, "done") /\ UNCHANGED <<lock, lmnl>>
       ELSE /\ lock' = [lock EXCEPT ![Head(todo[n])] = @ + 1]
            /\ LmnlAdd(Head(todo[n]))
            /\ Goto(n, "send")
    /\ UNCHANGED <<chain, seen, todo, net, pool>>

\* The node's loop receives from SendTx.  HndlWtTx gives the pointer to the
\* miner and broadcasts the object as it is now.
HndlWtTx(p) ==
    LET t == Head(todo[p])
    IN  /\ pc[p] = "send"
        /\ pool' = [pool EXCEPT ![t] = @ + 1]
        /\ net' = net \cup {Version(t)}
        /\ todo' = [todo EXCEPT ![p] = Tail(@)]
        /\ Goto(p, IF p \in Txs THEN "done" ELSE "resend")
        /\ UNCHANGED <<chain, lock, lmnl, seen>>

Next == \/ \E t \in Txs : HndlTxReq(t)
        \/ AddBlock
        \/ \E n \in BlkProcs : ReadLength(n) \/ ReadSlice(n) \/ ChkTxs(n) \/ Resend(n)
        \/ \E p \in Procs : HndlWtTx(p)

Spec == Init /\ [][Next]_walletVars
-----------------------------------------------------------------------------
(* Properties *)

TypeOK ==
    /\ chain \in Seq(SUBSET (Txs \X Nat)) /\ lock \in [Txs -> Nat]
    /\ lmnl \in Seq([P : Nat, T : Txs])
    /\ pc \in [Procs -> {"idle", "added", "slice", "chk", "resend", "send", "done"}]
    /\ seen \in [BlkProcs -> Nat]
    /\ \A n \in BlkProcs : pc[n] = "chk" => seen[n] \in DOMAIN chain
    /\ todo \in [Procs -> Seq(Txs)]
    /\ net \subseteq Txs \X Nat /\ pool \in [Txs -> Nat]

Made == {t \in Txs : pc[t] # "idle"}
OnTop(i) == Len(chain) - i

\* Handlers that took t out of the liminal transactions and have not put it
\* back yet: its next round of the loop of HndlBlk will.
Holders(t) == {n \in BlkProcs :
                  /\ pc[n] \in {"resend", "send"}
                  /\ \E i \in DOMAIN todo[n] : todo[n][i] = t /\ (i > 1 \/ pc[n] = "resend")}

\* A transaction of the wallet is never forgotten: it is liminal, or a handler
\* is about to make it so again, or the chain holds it as deep as the wallet
\* looks.
NeverForgotten ==
    \A t \in Made : \/ Has(lmnl, t)
                    \/ Holders(t) # {}
                    \/ \E i \in DOMAIN chain : InBlock(t, i) /\ OnTop(i) >= SafeBlkAmt - 1

\* However many handlers run at once, a transaction is in one place only: it
\* is never resent by two handlers for the same wait.
OnePlace == \A t \in Txs : Count(lmnl, t) + Cardinality(Holders(t)) <= 1
=============================================================================

-------------------------------- MODULE Miner --------------------------------
(***************************************************************************)
(* The miner of a BrunoCoin node (BrunoCoin/pkg/miner/miner.go, mine.go)   *)
(* with the goroutines that touch it: handlers of transactions and blocks  *)
(* that the node starts, the Mine loop, the mining goroutines it starts,   *)
(* and the node's loop that takes mined blocks (node.go).                  *)
(*                                                                         *)
(* A goroutine has a program counter; one step is one access to shared     *)
(* state.  Both channels are unbuffered: a sender on PoolUpdated waits in  *)
(* a queue, which the Go runtime serves in order.                          *)
(*                                                                         *)
(* A block is the record of what its header commits to, its hash the       *)
(* record itself.  The transaction pool is a set with priorities (TxPool   *)
(* models the heap; a second copy of a transaction is left out here).      *)
(***************************************************************************)
EXTENDS Integers, Sequences, FiniteSets, FiniteSetsExt

CONSTANTS Txs,      \* transactions that the network or the wallet delivers
          Pri,      \* transaction -> priority
          PriLim,   \* cumulative priority at which mining starts
          PerBlk,   \* how many transactions fit in a block
          Fwd,      \* ForwardBlock calls that may arrive
          Ctl,      \* control calls that may be made: "start", "pause", "resume"
          Workers,  \* mining goroutines (a finished one may be started again)
          NoBlk     \* no block, or no worker

ASSUME MinerAssumption ==
    /\ Pri \in [Txs -> Nat \ {0}] /\ PriLim \in Nat \ {0} /\ PerBlk \in Nat \ {0}
    /\ Ctl \subseteq {"start", "pause", "resume"}
    /\ NoBlk \notin Workers
    /\ (Txs \cup Ctl) \cap (Fwd \cup Workers) = {}

VARIABLES pool,       \* TxP: transactions waiting to be mined
          active,     \* Active
          prvHsh,     \* PrvHsh
          chnLen,     \* ChnLen
          loop,       \* the Mine goroutine: "off", "recv" or "got"
          cur,        \* the worker whose context the loop would cancel next
          cancelled,  \* searching workers whose context is cancelled
          queue,      \* goroutines that wait to send on PoolUpdated, in order
          pc,         \* goroutine -> where it is
          blk,        \* goroutine -> the block it works on
          inbox,      \* what the node's loop took and has not added yet: one block or none
          stored,     \* blocks of the chain
          tip,        \* LastBlock of the chain
          outcome,    \* history: how the last worker ended
          crashed     \* TRUE once a nil dereference has ended the process

minerVars == <<pool, active, prvHsh, chnLen, loop, cur, cancelled,
               queue, pc, blk, inbox, stored, tip, outcome, crashed>>

Procs == Txs \cup Fwd \cup Ctl \cup Workers

Genesis == [depth |-> 0]
Blk(prev, txs, by) == [prev |-> prev, txs |-> txs, by |-> by, depth |-> prev.depth + 1]

CurPri(S) == MapThenSumSet(LAMBDA t : Pri[t], S)
PriMet == CurPri(pool) >= PriLim

Searching == {"pri", "pool", "nonce"}

Goto(p, l) == pc' = [pc EXCEPT ![p] = l]
-----------------------------------------------------------------------------
Init == /\ pool = {} /\ active = FALSE
        /\ prvHsh = Genesis /\ chnLen = 1
        /\ loop = "off" /\ cur = NoBlk /\ cancelled = {} /\ queue = <<>>
        /\ pc = [p \in Procs |-> "idle"]
        /\ blk = [p \in Procs |-> NoBlk]
        /\ inbox = {} /\ stored = {Genesis} /\ tip = Genesis
        /\ outcome = "none"
        /\ crashed = FALSE

\* "if m.Active.Load()": a handler that has updated the pool decides whether
\* to send.  A handler of a transaction ends here if the miner is not active,
\* a handler of a block goes on.
AfterSend(p) == IF p \in Fwd \cup Workers THEN "hash" ELSE "done"
\* Mutant of Load: a worker that has handled its own block does not send.
LoadSilent(p) ==
    /\ pc[p] = "load"
    /\ Goto(p, IF active /\ p \notin Workers THEN "send" ELSE AfterSend(p))
    /\ UNCHANGED <<pool, active, prvHsh, chnLen, loop, cur, cancelled, queue,
                   blk, inbox, stored, tip, outcome>>
Load(p) ==
    /\ pc[p] = "load"
    /\ Goto(p, IF active THEN "send" ELSE AfterSend(p))
    /\ UNCHANGED <<pool, active, prvHsh, chnLen, loop, cur, cancelled, queue,
                   blk, inbox, stored, tip, outcome>>

\* The sender arrives at the channel and waits.
Send(p) ==
    /\ pc[p] = "send"
    /\ queue' = Append(queue, p)
    /\ Goto(p, "wait")
    /\ UNCHANGED <<pool, active, prvHsh, chnLen, loop, cur, cancelled,
                   blk, inbox, stored, tip, outcome>>

\* HndlTx of a transaction that passed validation: TxP.Add.
HndlTx(t) ==
    /\ pc[t] = "idle"
    /\ pool' = pool \cup {t}
    /\ Goto(t, "load")
    /\ UNCHANGED <<active, prvHsh, chnLen, loop, cur, cancelled, queue,
                   blk, inbox, stored, tip, outcome>>

\* StartMiner starts the Mine loop.
StartMiner(c) == loop' = IF c = "start" THEN "recv" ELSE loop

\* StartMiner and Resume store TRUE, Pause stores FALSE; then all three send.
\* Pause and Resume follow a start.
Control(c) ==
    /\ pc[c] = "idle"
    /\ c = "start" \/ loop # "off"
    /\ active' = (c # "pause")
    /\ StartMiner(c)
    /\ Goto(c, "send")
    /\ UNCHANGED <<pool, prvHsh, chnLen, cur, cancelled, queue,
                   blk, inbox, stored, tip, outcome>>
-----------------------------------------------------------------------------
(* HndlBlk: HndlChkBlk, then SetHash, then IncChnLen *)

\* The first half of HndlChkBlk: ChkTxs takes the block's transactions out.
ChkTxs(p) ==
    /\ pc[p] = "chk"
    /\ pool' = pool \ blk[p].txs
    /\ Goto(p, "load")
    /\ UNCHANGED <<active, prvHsh, chnLen, loop, cur, cancelled, queue,
                   blk, inbox, stored, tip, outcome>>

\* SetHash and IncChnLen; the length matters only for the reward (GenCBTx),
\* which a block here does not carry.  The flag Mining is never read.
SetHash(p) ==
    /\ pc[p] = "hash"
    /\ prvHsh' = blk[p]
    /\ chnLen' = chnLen + 1
    /\ Goto(p, "done")
    /\ blk' = [blk EXCEPT ![p] = NoBlk]
    /\ UNCHANGED <<pool, active, loop, cur, cancelled, queue,
                   inbox, stored, tip, outcome>>
-----------------------------------------------------------------------------
(* The Mine loop *)

\* Mutants of Receive: the last worker is not cancelled, or the loop serves
\* the channel only when no worker runs, as if it mined by itself.
ReceiveNoCancel ==
    /\ loop = "recv" /\ queue # <<>>
    /\ queue' = Tail(queue)
    /\ pc' = [pc EXCEPT ![Head(queue)] = AfterSend(Head(queue))]
    /\ loop' = "got"
    /\ UNCHANGED <<pool, active, prvHsh, chnLen, cur, cancelled,
                   blk, inbox, stored, tip, outcome>>
ReceiveBetween ==
    /\ loop = "recv" /\ queue # <<>>
    /\ \A w \in Workers : pc[w] \in {"idle", "done"}
    /\ queue' = Tail(queue)
    /\ pc' = [pc EXCEPT ![Head(queue)] = AfterSend(Head(queue))]
    /\ loop' = "got"
    /\ UNCHANGED <<pool, active, prvHsh, chnLen, cur, cancelled,
                   blk, inbox, stored, tip, outcome>>

\* "<-m.PoolUpdated; cancel()": the first sender goes on, and the context of
\* the last worker is cancelled.
Receive ==
    /\ loop = "recv" /\ queue # <<>>
    /\ queue' = Tail(queue)
    /\ pc' = [pc EXCEPT ![Head(queue)] = AfterSend(Head(queue))]
    /\ cancelled' = cancelled \cup {w \in {cur} \ {NoBlk} : pc[w] \in Searching}
    /\ loop' = "got"
    /\ UNCHANGED <<pool, active, prvHsh, chnLen, cur,
                   blk, inbox, stored, tip, outcome>>

Free == {w \in Workers : pc[w] \in {"idle", "done"}}
FreeWorker == CHOOSE w \in Free : TRUE

\* "if !m.Active.Load() { continue }", or a new context and a new worker.
Spawn ==
    /\ loop = "got"
    /\ loop' = "recv"
    /\ IF ~active
       THEN UNCHANGED <<cur, pc, outcome>>
       ELSE /\ Free # {}
            /\ cur' = FreeWorker
            /\ Goto(FreeWorker, "pri")
            /\ outcome' = "running"
    /\ UNCHANGED <<pool, active, prvHsh, chnLen, cancelled, queue, blk, inbox, stored, tip>>
-----------------------------------------------------------------------------
(* A mining goroutine *)

\* The worker stops searching; only the last one's outcome is remembered.
Ends(w, result) == /\ cancelled' = cancelled \ {w}
                   /\ outcome' = IF w = cur THEN result ELSE outcome

CheckPri(w) ==
    /\ pc[w] = "pri"
    /\ IF PriMet
       THEN Goto(w, "pool") /\ UNCHANGED <<cancelled, outcome>>
       ELSE Goto(w, "done") /\ Ends(w, "low")
    /\ UNCHANGED <<pool, active, prvHsh, chnLen, loop, cur, queue,
                   blk, inbox, stored, tip, crashed>>

\* NewMiningPool, GenCBTx and block.New.  With no transactions GenCBTx
\* returns nil, and serialising the nil coinbase panics.
Build(w) ==
    /\ pc[w] = "pool"
    /\ IF pool = {}
       THEN crashed' = TRUE /\ UNCHANGED <<blk, pc>>
       ELSE /\ \E S \in SUBSET pool :
                  /\ Cardinality(S) = Min({PerBlk, Cardinality(pool)})
                  /\ blk' = [blk EXCEPT ![w] = Blk(prvHsh, S, "me")]
            /\ Goto(w, "nonce")
            /\ UNCHANGED crashed
    /\ UNCHANGED <<pool, active, prvHsh, chnLen, loop, cur, cancelled, queue,
                   inbox, stored, tip, outcome>>

\* CalcNonce, and Mining.Store(false): a cancelled context ends the search;
\* otherwise it finds a nonce or runs out of nonces.
CalcNonce(w) ==
    /\ pc[w] = "nonce"
    /\ \E result \in IF w \in cancelled THEN {"cancelled"} ELSE {"mined", "exhausted"} :
          /\ Ends(w, result)
          /\ Goto(w, IF result = "mined" THEN "sendblk" ELSE "done")
          /\ blk' = IF result = "mined" THEN blk ELSE [blk EXCEPT ![w] = NoBlk]
    /\ UNCHANGED <<pool, active, prvHsh, chnLen, loop, cur, queue, inbox, stored, tip, crashed>>
-----------------------------------------------------------------------------
(* The node *)

AddToChain(b) == /\ stored' = stored \cup {b}
                 /\ tip' = IF b.depth > tip.depth THEN b ELSE tip

\* Mutant of TakeBlk: a block that the node has not added yet is overwritten.
TakeBlkOverwrites(w) ==
    /\ pc[w] = "sendblk"
    /\ inbox' = {blk[w]}
    /\ Goto(w, "chk")
    /\ UNCHANGED <<pool, active, prvHsh, chnLen, loop, cur, cancelled, queue,
                   blk, stored, tip, outcome>>

\* The node's select loop receives from SendBlk; the worker goes on to HndlBlk.
TakeBlk(w) ==
    /\ pc[w] = "sendblk" /\ inbox = {}
    /\ inbox' = {blk[w]}
    /\ Goto(w, "chk")
    /\ UNCHANGED <<pool, active, prvHsh, chnLen, loop, cur, cancelled, queue,
                   blk, stored, tip, outcome>>

\* HndlMnrBlk adds the block to the chain; without its parent, Add panics.
HndlMnrBlk ==
    /\ inbox # {}
    /\ inbox' = {}
    /\ \E b \in inbox : IF b.prev \in stored
                         THEN AddToChain(b) /\ UNCHANGED crashed
                         ELSE crashed' = TRUE /\ UNCHANGED <<stored, tip>>
    /\ UNCHANGED <<pool, active, prvHsh, chnLen, loop, cur, cancelled, queue,
                   pc, blk, outcome>>

Mined == UNION {b.txs : b \in stored \ {Genesis}}

\* ForwardBlock of a valid block on a stored one: IsEndMainChain is read...
FwdArrives(f) ==
    /\ pc[f] = "idle"
    /\ \E prev \in stored, t \in Txs \ Mined :
          /\ blk' = [blk EXCEPT ![f] = Blk(prev, {t}, f)]
          /\ Goto(f, IF prev = tip THEN "addmain" ELSE "addfork")
    /\ UNCHANGED <<pool, active, prvHsh, chnLen, loop, cur, cancelled, queue,
                   inbox, stored, tip, outcome>>

\* ...before Add; only a block that extended the main chain goes to the miner.
FwdAdds(f) ==
    /\ pc[f] \in {"addmain", "addfork"}
    /\ AddToChain(blk[f])
    /\ IF pc[f] = "addmain" THEN Goto(f, "chk") /\ UNCHANGED blk
       ELSE Goto(f, "done") /\ blk' = [blk EXCEPT ![f] = NoBlk]
    /\ UNCHANGED <<pool, active, prvHsh, chnLen, loop, cur, cancelled, queue,
                   inbox, outcome>>
-----------------------------------------------------------------------------
Step(p) == Load(p) \/ Send(p) \/ ChkTxs(p) \/ SetHash(p)

WorkerStep(w) == CheckPri(w) \/ Build(w) \/ CalcNonce(w)

Arrival == \/ \E t \in Txs : HndlTx(t)
           \/ \E c \in Ctl : Control(c)
           \/ \E f \in Fwd : FwdArrives(f)

\* What the goroutines of the process do by themselves.
System == \/ /\ \/ \E p \in Procs : Step(p)
                \/ \E f \in Fwd : FwdAdds(f)
                \/ Receive
                \/ Spawn
                \/ \E w \in Workers : TakeBlk(w)
             /\ UNCHANGED crashed
          \/ \E w \in Workers : WorkerStep(w)
          \/ HndlMnrBlk

Next == /\ ~crashed
        /\ (Arrival /\ UNCHANGED crashed) \/ System

Spec == Init /\ [][Next]_minerVars

\* Some goroutine that can run does: the Go scheduler does not stop while a
\* goroutine is ready, the Mine loop and the node's loop do nothing but serve
\* their channels, and the search for a nonce is bounded by NncLim.  Arrivals
\* need not happen.  Nothing is said of which goroutine runs.
Fairness == WF_minerVars(~crashed /\ System)

FairSpec == Spec /\ Fairness
-----------------------------------------------------------------------------
(* Properties *)

TypeOK ==
    /\ pool \subseteq Txs /\ active \in BOOLEAN
    /\ chnLen \in Nat /\ loop \in {"off", "recv", "got"}
    /\ cur \in Workers \cup {NoBlk} /\ cancelled \subseteq Workers
    /\ queue \in Seq(Procs)
    /\ pc \in [Procs -> {"idle", "load", "send", "wait", "chk", "hash", "pri", "pool",
                         "nonce", "sendblk", "addmain", "addfork", "done"}]
    /\ prvHsh.depth \in Nat /\ tip \in stored
    /\ crashed \in BOOLEAN

\* The loop cancels the last context before it starts a worker, so at most
\* one mining goroutine is searching without having been told to stop.
OneLiveWorker == \A v, w \in Workers \ cancelled :
                    pc[v] \in Searching /\ pc[w] \in Searching => v = w

\* The miner's PrvHsh may name a block that the node's loop has not added yet,
\* but a block built on it reaches the loop only after it: the miner's own
\* blocks always find their parent when HndlMnrBlk adds them.
OwnNeverOrphan == \A b \in inbox : b.prev \in stored

\* No goroutine is waiting to run or to be served.
Quiescent == /\ \A p \in Procs : pc[p] \in {"idle", "done"}
             /\ loop # "got" /\ inbox = {}

\* A transaction that makes the pool worth mining is never forgotten, however
\* handlers, pauses and cancellations interleave: once all is quiet, an active
\* miner with enough priority has tried, and ran out of nonces.
NoLostWakeup == Quiescent /\ active /\ loop = "recv" /\ PriMet /\ ~crashed
                    => outcome = "exhausted"

\* Every sender on PoolUpdated and on SendBlk is served and every mining
\* goroutine ends: no set of handlers, workers and loops can wait for each
\* other for ever, although a worker sends on the channel of the loop that
\* started it.
AllServed == []<>(Quiescent \/ crashed)
=============================================================================

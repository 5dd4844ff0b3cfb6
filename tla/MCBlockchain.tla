---------------------------- MODULE MCBlockchain ----------------------------
(***************************************************************************)
(* A small universe of blocks with a fork for the block tree.              *)
(***************************************************************************)
EXTENDS ChainHistory

In(t, i, a, who) == [loc |-> <<t, i>>, amt |-> a, signer |-> who]
Out(a, who) == [amt |-> a, pk |-> who]

MCPubKeys == {"alice", "bob"}
MCTxs == {"gen", "t1", "t2", "t3", "u1", "u2", "cb1", "cb2", "cb3"}

\* t1, t2, t3 spend one another's outputs in a row; u1 spends what t1 spends.
MCInputs == [t \in MCTxs |->
    CASE t = "t1" -> <<In("gen", 1, 10, "alice")>>
      [] t = "t2" -> <<In("t1", 1, 5, "bob")>>
      [] t = "t3" -> <<In("t1", 2, 4, "alice"), In("t2", 1, 5, "alice")>>
      [] t = "u1" -> <<In("gen", 1, 10, "alice")>>
      [] t = "u2" -> <<In("u1", 1, 9, "bob")>>
      [] OTHER    -> <<>>]
MCOutputs == [t \in MCTxs |->
    CASE t = "gen" -> <<Out(10, "alice")>>
      [] t = "t1"  -> <<Out(5, "bob"), Out(4, "alice")>>
      [] t = "t2"  -> <<Out(5, "alice")>>
      [] t = "t3"  -> <<Out(8, "bob")>>
      [] t = "u1"  -> <<Out(9, "bob")>>
      [] t = "u2"  -> <<Out(7, "alice"), Out(2, "bob")>>
      [] t = "cb1" -> <<Out(3, "alice")>>
      [] t = "cb2" -> <<Out(2, "alice")>>
      [] OTHER     -> <<Out(2, "bob")>>]

\* Two branches of two blocks, one three blocks long, and a block whose
\* parent nobody sends.
ForkBlocks == {"g", "a1", "a2", "a3", "b1", "b2", "x"}
ForkPrv == [b \in ForkBlocks |->
    CASE b = "a1" -> "g" [] b = "a2" -> "a1" [] b = "a3" -> "a2"
      [] b = "b1" -> "g" [] b = "b2" -> "b1" [] b = "x" -> "unknown" [] OTHER -> ""]
ForkTxs == [b \in ForkBlocks |->
    CASE b = "a1" -> <<"cb1", "t1">> [] b = "a2" -> <<"cb2", "t2">>
      [] b = "a3" -> <<"cb3", "t3">> [] b = "b1" -> <<"cb3", "u1">>
      [] b = "b2" -> <<"cb2", "u2">> [] b = "x" -> <<"cb3", "t1">> [] OTHER -> <<"gen">>]
=============================================================================

------------------------------- MODULE MCNode -------------------------------
(***************************************************************************)
(* Three nodes in a line, a - b - c, and a universe in which a and c mine  *)
(* on the genesis block: x2 and y1 spend the same output; x2 passes        *)
(* validation before its parent has come, y2 does not.                     *)
(***************************************************************************)
EXTENDS Node

In(t, a, who) == [loc |-> <<t, 1>>, amt |-> a, signer |-> who]
Out(a, who) == [amt |-> a, pk |-> who]

MCTxs == {"gen", "cx1", "cx2", "cy1", "cy2", "t", "t2", "u"}
MCInputs == [t \in MCTxs |->
    CASE t \in {"t", "t2"} -> <<In("gen", 9, "alice")>>
      [] t = "u"           -> <<In("cy1", 2, "bob")>>
      [] OTHER             -> <<>>]
MCOutputs == [t \in MCTxs |->
    CASE t = "gen" -> <<Out(9, "alice")>>
      [] t = "t"   -> <<Out(5, "bob"), Out(3, "alice")>>
      [] t = "t2"  -> <<Out(8, "alice")>>
      [] t = "u"   -> <<Out(1, "alice")>>
      [] OTHER     -> <<Out(2, "bob")>>]

MCBlocks == {"g", "x1", "x2", "y1", "y2"}
MCPrv == [b \in MCBlocks |->
    CASE b \in {"x1", "y1"} -> "g" [] b = "x2" -> "x1" [] b = "y2" -> "y1" [] OTHER -> ""]
MCTransactions == [b \in MCBlocks |->
    CASE b = "x1" -> <<"cx1">> [] b = "x2" -> <<"cx2", "t">>
      [] b = "y1" -> <<"cy1", "t2">> [] b = "y2" -> <<"cy2", "u">> [] OTHER -> <<"gen">>]
MCMinerOf == [b \in MCBlocks |->
    CASE b \in {"x1", "x2"} -> "a" [] b \in {"y1", "y2"} -> "c" [] OTHER -> "none"]

\* Without y2, and with the branch of a alone.
MCMinerOf3 == [MCMinerOf EXCEPT !["y2"] = "none"]
MCMinerOf2 == [MCMinerOf3 EXCEPT !["y1"] = "none"]

MCPeers == [n \in {"a", "b", "c"} |-> IF n = "b" THEN {"a", "c"} ELSE {"b"}]
NoPayer == [t \in MCTxs |-> "none"]
TwoPayers == [NoPayer EXCEPT !["t"] = "a", !["t2"] = "c"]
=============================================================================

------------------------------ MODULE MCPeers ------------------------------
(***************************************************************************)
(* Four nodes: a and b connect to each other, c and d connect to b, which  *)
(* has room for two of the three.                                          *)
(***************************************************************************)
EXTENDS Peers

MCConf == [n \in Nodes |-> 1]
MCContacts == {<<"a", "b">>, <<"b", "a">>, <<"c", "b">>, <<"d", "b">>}
=============================================================================

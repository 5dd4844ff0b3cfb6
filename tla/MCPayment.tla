----------------------------- MODULE MCPayment -----------------------------
(***************************************************************************)
(* Two nodes that pay, and a miner.  The one splits its coins and then     *)
(* needs three outputs for one payment, too many for a block; the amount   *)
(* and the fee that the other pays wrap.                                   *)
(***************************************************************************)
EXTENDS Payment

Req(from, to, amt, fee) == [from |-> from, to |-> to, amt |-> amt, fee |-> fee]
MCRequests == {Req("a", "a", 2, 1), Req("a", "a", 2, 0),
               Req("a", "c", 6, 1), Req("c", "b", 31, 2)}
MCBelow == [d \in {"targ"} |-> {1, 2}]
=============================================================================

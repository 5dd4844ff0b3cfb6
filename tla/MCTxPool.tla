------------------------------ MODULE MCTxPool ------------------------------
(***************************************************************************)
(* A pool of at most five transactions with priorities from 1 to 4.  The    *)
(* fee of e times 100 does not fit in a word of the models.                *)
(***************************************************************************)
EXTENDS TxPool

MCTxs == {"a", "b", "c", "d", "e"}
MCSz == [t \in MCTxs |-> IF t = "d" THEN 88 ELSE 68]
MCFee == [t \in MCTxs |-> CASE t = "a" -> 0 [] t = "b" -> 2 [] t = "c" -> 3
                            [] t = "d" -> 4 [] OTHER -> 11]
MCBlks == {<<"a", "b">>, <<"d">>, <<"e", "c", "a">>}
=============================================================================

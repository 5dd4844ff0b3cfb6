-------------------------------- MODULE MCExc --------------------------------
(***************************************************************************)
(* Instances of the exchange: two traders and one token besides PIN, each  *)
(* ticker with one address, as the tests add them.                   *)
(***************************************************************************)
EXTENDS Exc

MCListings == {<<"PIN", "pin">>, <<"ZRX", "zrx">>}
MCFunds == "a" :> ("pin" :> 2 @@ "zrx" :> 0) @@ "b" :> ("pin" :> 1 @@ "zrx" :> 3)
=============================================================================

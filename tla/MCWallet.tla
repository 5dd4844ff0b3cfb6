------------------------------ MODULE MCWallet ------------------------------
(***************************************************************************)
(* Instances of the wallet with a short main chain.                        *)
(***************************************************************************)
EXTENDS Wallet
=============================================================================

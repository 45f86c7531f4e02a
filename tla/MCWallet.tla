------------------------------ MODULE MCWallet ------------------------------
(* Wallet with the addresses of two signers. *)
EXTENDS Wallet

CONSTANTS alice, bob

MCAddress == {alice, bob}
=============================================================================

---------------------------- MODULE MCWalletGate ----------------------------
(***************************************************************************)
(* Instances of WalletGate for TLC: two signers, one of whom may have the  *)
(* faucet's threshold exactly, the boundary of both comparisons.           *)
(***************************************************************************)
EXTENDS WalletGate

CONSTANTS alice, bob

MCAddress == {alice, bob}
MCOpening == {[a \in MCAddress |-> 0],
              [a \in MCAddress |-> IF a = alice THEN 1 ELSE 2]}
=============================================================================

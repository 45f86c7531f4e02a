--------------------------- MODULE MCCliTransfer ---------------------------
(***************************************************************************)
(* Instances of CliTransfer for TLC: two keys of one user, and an account  *)
(* of somebody else.                                                       *)
(***************************************************************************)
EXTENDS CliTransfer

CONSTANTS alice, bob, shop

MCAddress   == {alice, bob, shop}
MCDatabases == {[a \in MCAddress |-> CASE a = alice -> 2 [] a = bob -> 1
                                       [] a = shop  -> Absent]}
=============================================================================

----------------------------- MODULE MCCliKeys -----------------------------
(***************************************************************************)
(* The instance of CliKeys for TLC: two terminals, a file of 64 bytes and  *)
(* one of 32, which is a key of two types, and a key of each type to be    *)
(* generated.                                                              *)
(***************************************************************************)
EXTENDS CliKeys

CONSTANTS new1, new2, new3, long, short1, short2,  \* addresses
          file64, file32, left, right

MCAddress == {new1, new2, new3, long, short1, short2}
MCTypes == [a \in MCAddress |-> CASE a \in {new1, long}   -> "ed25519"
                                  [] a \in {new2, short1} -> "secp256r1"
                                  [] a \in {new3, short2} -> "bls"]
MCContent ==
  [f \in {file64, file32} |-> [k \in KeyType |->
     CASE f = file64 /\ k = "ed25519"   -> long
       [] f = file32 /\ k = "secp256r1" -> short1
       [] f = file32 /\ k = "bls"       -> short2
       [] OTHER                         -> Invalid]]
=============================================================================

------------------------------ MODULE MCFaucet ------------------------------
(***************************************************************************)
(* Instances of Faucet for TLC.  Coins are counted in units of which a     *)
(* transfer gives two, the threshold and the fee are one; the faucet can   *)
(* pay for two transfers and its fees but not for three.                   *)
(***************************************************************************)
EXTENDS Faucet

CONSTANTS faucet, alice, bob, random0, random1,  \* accounts
          r1, r2, r3,                            \* requests
          phone, laptop                          \* remote addresses

MCAddress == {faucet, alice, bob, random0, random1}

MCReadyAddress == <<random0, random1>>
MCReady == [n \in 0 .. MaxRestarts |-> MCReadyAddress[n + 1]]

MCDatabases ==
  {[a \in MCAddress |-> CASE a = faucet -> 8 [] a = alice -> 1 [] OTHER -> Absent],
   [a \in MCAddress |-> IF a = faucet THEN 10 ELSE Absent]}

(* Coins for three transfers; a restart makes a fourth possible.           *)
MCRestartDatabases == {d \in MCDatabases : d[faucet] = 10}

(* Two requests from one remote address for the same account. *)
MCTwo == {r1, r2}
MCTwoTarget == [r \in MCTwo |-> alice]
MCTwoRemote == [r \in MCTwo |-> phone]

(* Two requests for two accounts. *)
MCApartTarget == [r \in MCTwo |-> IF r = r1 THEN alice ELSE bob]
MCApartRemote == [r \in MCTwo |-> IF r = r1 THEN phone ELSE laptop]

(* Three requests, one of them for no address, from two remote addresses. *)
MCThree == {r1, r2, r3}
MCThreeTarget == [r \in MCThree |-> CASE r = r1 -> alice [] r = r2 -> bob
                                      [] r = r3 -> BadAddress]
MCThreeRemote == [r \in MCThree |-> IF r = r1 THEN phone ELSE laptop]
=============================================================================

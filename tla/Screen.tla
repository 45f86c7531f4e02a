------------------------------- MODULE Screen -------------------------------
(***************************************************************************)
(* What the gate of App.tsx and Faucet.tsx promises the wallet behind it:  *)
(* a wallet is shown for one address at a time; it may be handed another   *)
(* address, or be shown too early, but then the next thing that happens to *)
(* it is that it is taken down.  WalletGate implements this, Wallet relies *)
(* on it.                                                                  *)
(***************************************************************************)
CONSTANTS Address,
          NoWallet   \* no wallet is shown

VARIABLES wallet,    \* the address of the wallet that is shown, or NoWallet
          leaving    \* it is about to be taken down

screen == <<wallet, leaving>>

Init == wallet = NoWallet /\ leaving = FALSE

(* The component is mounted: everything in it is new. *)
Show(a, brief) == /\ wallet = NoWallet
                  /\ wallet' = a
                  /\ leaving' = brief

(* Mutant: the wallet is kept. *)
Hand_Stays(a) == /\ wallet # NoWallet /\ ~ leaving
                 /\ a # wallet
                 /\ wallet' = a
                 /\ UNCHANGED leaving

(* It is rendered with another address; what it holds is of the old one.   *)
Hand(a) == /\ wallet # NoWallet /\ ~ leaving
           /\ a # wallet
           /\ wallet' = a
           /\ leaving' = TRUE

Leave == /\ wallet # NoWallet
         /\ wallet' = NoWallet
         /\ leaving' = FALSE

Next == \/ \E a \in Address : Hand(a) \/ \E brief \in BOOLEAN : Show(a, brief)
        \/ Leave

Spec == Init /\ [][Next]_screen
=============================================================================

------------------------------- MODULE Wallet -------------------------------
(***************************************************************************)
(* The wallet behind the gate: Wallet.tsx's components WalletView and      *)
(* LatestBlocks, mounted, handed another address and unmounted as the gate *)
(* promises in Screen (WalletGate shows that it does).  The two components *)
(* share nothing but their mounts, so a behaviour follows one of them, and *)
(* the other takes no steps.                                               *)
(***************************************************************************)
EXTENDS Integers, Sequences

CONSTANTS Address, NoWallet,
          Builds,      \* "production", "development" (StrictMode)
          MaxMounts,   \* bound on the number of mounts explored
          MaxAsks, MaxSends, MaxChanges, MaxShown, MaxHeight

ASSUME WalletAssumption ==
  /\ NoWallet \notin Address
  /\ Builds \subseteq {"production", "development"}
  /\ {MaxMounts, MaxAsks, MaxSends, MaxChanges, MaxHeight} \subseteq Nat
  /\ MaxShown \in Nat \ {0}

VARIABLES build,
          part,        \* the component followed: "view" or "blocks"
          wallet, leaving,
          chain, asks, balance, balanceLoading, balanceError,
          abiAsks, abi, abiLoading, abiError,
          inputs, fields, edited, sends, told,
          height, mount, mounted, blocks, subs

Page  == INSTANCE Screen
View  == INSTANCE WalletView
Lists == INSTANCE LatestBlocks

page   == <<wallet, leaving>>
view   == <<chain, asks, balance, balanceLoading, balanceError, abiAsks, abi,
            abiLoading, abiError, inputs, fields, edited, sends, told>>
latest == <<height, mount, mounted, blocks, subs>>

vars == <<build, part, page, view, latest>>
-----------------------------------------------------------------------------
Init == /\ build \in Builds
        /\ part \in {"view", "blocks"}
        /\ Page!Init
        /\ View!InitView
        /\ Lists!InitBlocks

(* StrictMode runs the effects of a mount twice. *)
Times == IF build = "development" THEN 2 ELSE 1

Show(a, brief) ==
  /\ Page!Show(a, brief)
  /\ \/ part = "view" /\ View!Mount(a, Times) /\ UNCHANGED latest
     \/ part = "blocks" /\ mount < MaxMounts /\ Lists!Mount(Times) /\ UNCHANGED view
  /\ UNCHANGED <<build, part>>

Hand(a) ==
  /\ Page!Hand(a)
  /\ IF part = "view" THEN View!NewAddress(a) ELSE UNCHANGED view
  /\ UNCHANGED <<build, part, latest>>

Leave ==
  /\ Page!Leave
  /\ IF part = "view" THEN View!Unmount /\ UNCHANGED latest
                      ELSE Lists!Unmount /\ UNCHANGED view
  /\ UNCHANGED <<build, part>>

UserActs == /\ wallet # NoWallet /\ ~ leaving
            /\ View!User(wallet)
            /\ UNCHANGED <<build, part, page, latest>>

AnswersArrive == /\ part = "view" /\ wallet # NoWallet
                 /\ View!Answers
                 /\ UNCHANGED <<build, part, page, latest>>

BlocksArrive == /\ part = "blocks"
                /\ Lists!Deliveries
                /\ UNCHANGED <<build, part, page, view>>

SubscriptionGoes(s) == Lists!Goes(s) /\ UNCHANGED <<build, part, page, view>>

(* No more mounts are explored. *)
Over == /\ part = "blocks" /\ mount = MaxMounts /\ wallet = NoWallet
        /\ UNCHANGED vars

Next == \/ \E a \in Address : Hand(a) \/ \E brief \in BOOLEAN : Show(a, brief)
        \/ Leave \/ UserActs \/ AnswersArrive \/ BlocksArrive
        \/ \E s \in DOMAIN subs : SubscriptionGoes(s)
        \/ Over

MaxSubs == 2 * MaxMounts

(* A promise of the client is kept or broken, and what awaits it goes on.  *)
Spec == Init /\ [][Next]_vars /\ \A s \in 1 .. MaxSubs : WF_vars(SubscriptionGoes(s))
-----------------------------------------------------------------------------
(* The wallet's state is well formed. *)
TypeOK ==
  /\ build \in Builds
  /\ wallet \in Address \cup {NoWallet} /\ leaving \in BOOLEAN
  /\ mounted = (part = "blocks" /\ wallet # NoWallet)
  /\ \A i \in DOMAIN asks :
       asks[i] \in [addr : Address, pc : {"sent", "read", "done"},
                    got : -1 .. MaxChanges]
  /\ balance \in 0 .. Len(asks)
  /\ {balanceLoading, balanceError, abi, abiLoading, abiError, edited} \subseteq BOOLEAN
  /\ inputs \in {"none", "default", "typed"}
  /\ fields \in {"none", "blank", "default", "typed"}
  /\ \A i \in DOMAIN sends :
       sends[i] \in [addr : Address, pc : {"sent", "accepted", "done"}, made : 0 .. MaxChanges]
  /\ Len(blocks) <= MaxShown
  /\ \A s \in DOMAIN subs :
       subs[s] \in [mount : 1 .. mount, at : 0 .. height,
                    pc : {"pending", "listening", "failed", "ended"},
                    left : BOOLEAN, timer : BOOLEAN]

(* The balance on the screen is one of the address on the screen, though   *)
(* balance is not reset with the address and answers for both may be under *)
(* way: the gate takes the wallet down before anyone can rely on it.       *)
ShownIsOwn ==
  wallet # NoWallet /\ ~ leaving /\ balance # 0 => asks[balance].addr = wallet

(* "Loading balance..." means that an answer is still to come, although    *)
(* one flag serves all requests; without one a balance or an error is      *)
(* shown.                                                                  *)
SpinnerHasRequest ==
  /\ balanceLoading => View!Awaited
  /\ part = "view" /\ wallet # NoWallet /\ ~ View!Awaited => balance # 0 \/ balanceError

(* After a transaction the wallet shows the balance of before, for good,   *)
(* in one case only: an older request was answered after a newer one.      *)
LagsOnlyByOverlap ==
  /\ part = "view" /\ wallet # NoWallet /\ ~ leaving
  /\ ~ View!Awaited /\ ~ balanceError
  /\ asks[balance].got < told
  => balance < Len(asks)

(* What the user typed into an action stays, also when another answer with *)
(* the ABI runs the effect for the defaults again.                         *)
TypedIsKept == View!ActionsShown /\ edited => inputs = "typed"

(* A production page shows blocks newest first and none of them twice,     *)
(* though subscriptions of earlier mounts still deliver.                   *)
NewestFirst ==
  build = "production" =>
    \A i, j \in DOMAIN blocks : i < j => blocks[i] > blocks[j]

(* A subscription of a mount that is over ends with its timer, unless it   *)
(* failed, also when it was still pending at the clean-up: every page that *)
(* opens mounts the wallet for a moment before the gate's effect runs.     *)
ListenersEnd ==
  \A s \in 1 .. MaxSubs :
    (s \in DOMAIN subs /\ ~ (mounted /\ subs[s].mount = mount))
      ~> (s \in DOMAIN subs /\ \/ subs[s].pc = "failed"
                               \/ subs[s].pc = "ended" /\ ~ subs[s].timer)
-----------------------------------------------------------------------------
(* "All fields are pre-filled with default values." (README.md, 2.3): when *)
(* nothing is under way, an action on the screen has no blank field.       *)
FieldsArePrefilled ==
  View!ActionsShown /\ ~ View!Awaited /\ abiAsks = 0 => fields # "blank"
=============================================================================

---------------------------- MODULE LatestBlocks ----------------------------
(***************************************************************************)
(* The component LatestBlocks of Wallet.tsx: its effect subscribes to the  *)
(* blocks of the chain and starts a timer; its clean-up waits for the      *)
(* subscription, ends it, and only then clears the timer.  Subscribing     *)
(* takes time and may fail, so a mount can be over before it is            *)
(* subscribed.  A block stands for its height.                             *)
(***************************************************************************)
EXTENDS Integers, Sequences

CONSTANTS
  MaxShown,    \* how many blocks are shown, 5
  MaxHeight    \* bound on the blocks explored

VARIABLES
  height,      \* the height of the chain's last block that is not empty
  mount,       \* how often the component was mounted
  mounted,     \* it is mounted now
  blocks,      \* the blocks shown, newest first
  subs         \* the subscriptions that were begun, in order

latest == <<height, mount, mounted, blocks, subs>>

NewSub == [mount |-> mount', pc |-> "pending", at |-> 0, left |-> FALSE, timer |-> TRUE]
-----------------------------------------------------------------------------
InitBlocks == /\ height = 0
              /\ mount = 0
              /\ mounted = FALSE
              /\ blocks = << >>
              /\ subs = << >>

(* The effect runs n times, cleaned up in between. *)
Mount(n) ==
  /\ mount' = mount + 1
  /\ mounted' = TRUE
  /\ blocks' = << >>
  /\ subs' = subs \o [i \in 1 .. n |-> [NewSub EXCEPT !.left = i < n]]
  /\ UNCHANGED height

(* Mutant: the clean-up does not wait for a subscription that is pending.  *)
Unmount_NoWait ==
  /\ mounted' = FALSE
  /\ blocks' = << >>
  /\ subs' = [s \in DOMAIN subs |->
                [subs[s] EXCEPT !.left = @ \/ subs[s].pc = "listening"]]
  /\ UNCHANGED <<height, mount>>

(* The clean-up is called, up to its await. *)
Unmount ==
  /\ mounted' = FALSE
  /\ blocks' = << >>
  /\ subs' = [s \in DOMAIN subs |-> [subs[s] EXCEPT !.left = TRUE]]
  /\ UNCHANGED <<height, mount>>

NewBlock ==
  /\ height < MaxHeight
  /\ height' = height + 1
  /\ UNCHANGED <<mount, mounted, blocks, subs>>

(* The promise of listenToBlocks is kept, from the next block on, or not.  *)
Subscribed(s) ==
  /\ subs[s].pc = "pending"
  /\ \/ subs' = [subs EXCEPT ![s].pc = "listening", ![s].at = height]
     \/ subs' = [subs EXCEPT ![s].pc = "failed"]
  /\ UNCHANGED <<height, mount, mounted, blocks>>

(* Mutant: the list is not cut. *)
Prepend_All(block, shown) == <<block>> \o shown

(* The newest blocks are kept. *)
Prepend(block, shown) ==
  SubSeq(<<block>> \o shown, 1, IF Len(shown) < MaxShown THEN Len(shown) + 1 ELSE MaxShown)

(* Mutant: new blocks are put behind the others. *)
Delivered_Behind(s) ==
  /\ subs[s].pc = "listening"
  /\ subs[s].at < height
  /\ subs' = [subs EXCEPT ![s].at = @ + 1]
  /\ blocks' = IF mounted /\ subs[s].mount = mount
               THEN Append(blocks, subs'[s].at) ELSE blocks
  /\ UNCHANGED <<height, mount, mounted>>

(* The callback, in order; React ignores it for a mount that is over.      *)
Delivered(s) ==
  /\ subs[s].pc = "listening"
  /\ subs[s].at < height
  /\ subs' = [subs EXCEPT ![s].at = @ + 1]
  /\ blocks' = IF mounted /\ subs[s].mount = mount
               THEN Prepend(subs'[s].at, blocks) ELSE blocks
  /\ UNCHANGED <<height, mount, mounted>>

(* The clean-up goes on: it unsubscribes and clears the timer.  When there *)
(* is no subscription it logs that and leaves the timer running.           *)
CleanUp(s) ==
  /\ subs[s].left
  /\ subs[s].pc = "listening"
  /\ subs' = [subs EXCEPT ![s].pc = "ended", ![s].timer = FALSE, ![s].at = 0]
  /\ UNCHANGED <<height, mount, mounted, blocks>>

Goes(s) == s \in DOMAIN subs /\ (Subscribed(s) \/ CleanUp(s))

Deliveries == NewBlock \/ \E s \in DOMAIN subs : Delivered(s)
=============================================================================

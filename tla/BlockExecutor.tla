--------------------------- MODULE BlockExecutor ---------------------------
(***************************************************************************)
(* A block of transactions executed by the node against the balance store. *)
(* The node (hypersdk, not part of this repository) runs the transactions  *)
(* of a block in parallel: it hands each one a view of the records it      *)
(* declared through StateKeys and SponsorStateKeys, holds a transaction    *)
(* back until every earlier one that declared a common key has finished,   *)
(* charges the fee through CanDeduct and Deduct, runs the actions in       *)
(* order, rolls the view back to the state after the fee when an action    *)
(* fails, and commits the view.  What the hooks and the action do is the   *)
(* code of this repository, modules Storage and Transfer.                  *)
(***************************************************************************)
EXTENDS Transfer, Sequences

CONSTANTS N,       \* the number of transactions in the block
          Blocks   \* the blocks the node may be given

TransactionRecord ==
  [actor : Address, fee : Balance, actions : Seq(TransferAction) \ {<< >>}]

ASSUME BlockAssumption == /\ N \in Nat
                          /\ Blocks \subseteq [1 .. N -> TransactionRecord]

Tx == 1 .. N

VARIABLES
  block,     \* the transaction at each position of the block
  genesis,   \* the database the block is executed on
  db,        \* the committed database
  burned,    \* the fees charged so far; nobody receives them
  phase,     \* how far each transaction is
  view,      \* the database as each transaction sees it
  paid,      \* its checkpoint: the view right after the fee was charged
  next,      \* the action it runs next
  err,       \* the error that ended it, or "nil"
  outputs    \* the results of the actions it has run

vars == <<block, genesis, db, burned, phase, view, paid, next, err, outputs>>
-----------------------------------------------------------------------------
(* What a transaction declares: its sponsor's key and its actions' keys,   *)
(* with the permissions of a key declared twice added up.                  *)
DeclaredScope(tx) ==
  [a \in Address |->
     SponsorStateKeys(tx.actor)[a] \cup
       UNION {StateKeys(tx.actor, tx.actions[i])[a] : i \in DOMAIN tx.actions}]

Keys(t) == {a \in Address : DeclaredScope(block[t])[a] # {}}

(* The accounts whose records a transaction is about, declared or not. *)
Parties(t) ==
  {block[t].actor} \cup {block[t].actions[i].to : i \in DOMAIN block[t].actions}

Conflict(s, t) ==
  \E a \in Keys(s) \cap Keys(t) :
     "Write" \in DeclaredScope(block[s])[a] \cup DeclaredScope(block[t])[a]

Finished(t) == phase[t] \in {"committed", "rejected", "aborted"}
Active(t)   == phase[t] \in {"running", "executed"}

Ready(t) == /\ phase[t] = "queued"
            /\ \A s \in Tx : s < t /\ Conflict(s, t) => Finished(s)

(* The fee checks of transaction t against database d. *)
FeeCheck(t, d) == CanDeduct(d, DeclaredScope(block[t]), block[t].actor, block[t].fee)
FeeCharge(t, d) == Deduct(d, DeclaredScope(block[t]), block[t].actor, block[t].fee)

(* The outcome of the action t runs next. *)
NextAction(t) ==
  Execute(view[t], DeclaredScope(block[t]), block[t].actor, block[t].actions[next[t]])
-----------------------------------------------------------------------------
(* A database that loading a genesis file leaves (module Genesis): records *)
(* of zero are possible, a sum beyond 64 bits is not.                      *)
GenesisDatabase == {d \in Database : Supply(d) <= MaxUint64}

Init == /\ block \in Blocks
        /\ genesis \in GenesisDatabase
        /\ db = genesis
        /\ burned = 0
        /\ phase = [t \in Tx |-> "queued"]
        /\ view = [t \in Tx |-> genesis]
        /\ paid = [t \in Tx |-> genesis]
        /\ next = [t \in Tx |-> 1]
        /\ err = [t \in Tx |-> "nil"]
        /\ outputs = [t \in Tx |-> << >>]

(* The sponsor cannot pay: the transaction is left out. *)
Reject(t) == /\ Ready(t)
             /\ FeeCheck(t, db) # "nil"
             /\ phase' = [phase EXCEPT ![t] = "rejected"]
             /\ err' = [err EXCEPT ![t] = FeeCheck(t, db)]
             /\ UNCHANGED <<block, genesis, db, burned, view, paid, next, outputs>>

(* The check passed and the deduction failed all the same. *)
Abort(t) == /\ Ready(t)
            /\ FeeCheck(t, db) = "nil"
            /\ FeeCharge(t, db).err # "nil"
            /\ phase' = [phase EXCEPT ![t] = "aborted"]
            /\ err' = [err EXCEPT ![t] = FeeCharge(t, db).err]
            /\ UNCHANGED <<block, genesis, db, burned, view, paid, next, outputs>>

(* A new view of the declared records, the fee taken from it. *)
Begin(t) == /\ Ready(t)
            /\ FeeCheck(t, db) = "nil"
            /\ FeeCharge(t, db).err = "nil"
            /\ phase' = [phase EXCEPT ![t] = "running"]
            /\ view' = [view EXCEPT ![t] = FeeCharge(t, db).db]
            /\ paid' = [paid EXCEPT ![t] = FeeCharge(t, db).db]
            /\ UNCHANGED <<block, genesis, db, burned, next, err, outputs>>

RunAction(t) == /\ phase[t] = "running"
                /\ next[t] <= Len(block[t].actions)
                /\ NextAction(t).err = "nil"
                /\ view' = [view EXCEPT ![t] = NextAction(t).db]
                /\ next' = [next EXCEPT ![t] = @ + 1]
                /\ outputs' = [outputs EXCEPT ![t] =
                     Append(@, [senderBalance   |-> NextAction(t).senderBalance,
                                receiverBalance |-> NextAction(t).receiverBalance])]
                /\ UNCHANGED <<block, genesis, db, burned, phase, paid, err>>

(* An action fails: the transaction keeps its fee and nothing else. *)
FailAction(t) == /\ phase[t] = "running"
                 /\ next[t] <= Len(block[t].actions)
                 /\ NextAction(t).err # "nil"
                 /\ view' = [view EXCEPT ![t] = paid[t]]
                 /\ err' = [err EXCEPT ![t] = NextAction(t).err]
                 /\ phase' = [phase EXCEPT ![t] = "executed"]
                 /\ UNCHANGED <<block, genesis, db, burned, paid, next, outputs>>

Finish(t) == /\ phase[t] = "running"
             /\ next[t] > Len(block[t].actions)
             /\ phase' = [phase EXCEPT ![t] = "executed"]
             /\ UNCHANGED <<block, genesis, db, burned, view, paid, next, err, outputs>>

(* The records the transaction declared go from its view to the database.  *)
Commit(t) == /\ phase[t] = "executed"
             /\ phase' = [phase EXCEPT ![t] = "committed"]
             /\ db' = [a \in Address |-> IF a \in Keys(t) THEN view[t][a] ELSE db[a]]
             /\ burned' = burned + block[t].fee
             /\ UNCHANGED <<block, genesis, view, paid, next, err, outputs>>

(* The whole block is executed. *)
Terminating == /\ \A t \in Tx : Finished(t)
               /\ UNCHANGED vars

Step(t) == \/ Reject(t) \/ Abort(t) \/ Begin(t)
           \/ RunAction(t) \/ FailAction(t) \/ Finish(t) \/ Commit(t)

Next == (\E t \in Tx : Step(t)) \/ Terminating

Spec == Init /\ [][Next]_vars
-----------------------------------------------------------------------------
(* The state of the executor is well formed: one type invariant for the    *)
(* variables of the block.                                                 *)
TypeOK ==
  /\ block \in Blocks
  /\ genesis \in Database
  /\ db \in Database
  /\ burned \in Nat
  /\ phase \in [Tx -> {"queued", "running", "executed", "committed",
                       "rejected", "aborted"}]
  /\ view \in [Tx -> Database]
  /\ paid \in [Tx -> Database]
  /\ next \in [Tx -> Nat \ {0}]
  /\ \A t \in Tx : next[t] <= Len(block[t].actions) + 1
  /\ err \in [Tx -> {"nil", "ErrInvalidKeyOrPermission", "ErrInvalidAddress",
                     "ErrInvalidBalance", "ErrOutputValueZero",
                     "ErrOutputMemoTooLarge"}]
  /\ outputs \in [Tx -> Seq([senderBalance : Balance, receiverBalance : Balance])]

(* No coin is made or lost: whatever transfers and fees run in parallel,   *)
(* the coins of all accounts and the burned fees are those of the genesis. *)
(* SubBalance, AddBalance and the rollback of a failed transfer, whose     *)
(* first half is already in the view, have to add up for it.               *)
SupplyConserved == Supply(db) + burned = Supply(genesis)

(* Of two transactions that share an account, as signer or recipient, the  *)
(* later one starts after the earlier one is done.  The executor only      *)
(* keeps apart what StateKeys and SponsorStateKeys declare.                *)
SharersInOrder ==
  \A s, t \in Tx :
    s < t /\ phase[t] # "queued" /\ Parties(s) \cap Parties(t) # {} => Finished(s)

(* Of the accounts a running transaction declared, its view and its        *)
(* checkpoint hold the database's coins less the fee, between any two of   *)
(* its actions and after a failure.                                        *)
ViewsBalanced ==
  \A t \in Tx :
    Active(t) =>
      /\ SupplyOf(view[t], Keys(t)) + block[t].fee = SupplyOf(db, Keys(t))
      /\ SupplyOf(paid[t], Keys(t)) + block[t].fee = SupplyOf(db, Keys(t))

(* Adding to the recipient never overflows (storage.go AddBalance's        *)
(* smath.Add): a transfer that fails with ErrInvalidBalance fails because  *)
(* the sender had too little.  Nothing in AddBalance ensures it; it is the *)
(* bound on the genesis supply, kept by every interleaving.                *)
AddNeverOverflows ==
  \A t \in Tx :
    /\ phase[t] = "running"
    /\ next[t] <= Len(block[t].actions)
    /\ NextAction(t).err = "ErrInvalidBalance"
    => GetBalance(view[t], block[t].actor) < block[t].actions[next[t]].value

(* The keys declared by StateKeys and SponsorStateKeys are enough: with    *)
(* every permission on every key an action and a fee would do the same.    *)
ScopeSuffices ==
  \A t \in Tx :
    /\ phase[t] = "running" /\ next[t] <= Len(block[t].actions)
         => NextAction(t) = Execute(view[t], FullScope, block[t].actor,
                                    block[t].actions[next[t]])
    /\ phase[t] = "queued"
         => /\ FeeCheck(t, db) = CanDeduct(db, FullScope, block[t].actor, block[t].fee)
            /\ FeeCharge(t, db) = Deduct(db, FullScope, block[t].actor, block[t].fee)

(* Deduct fails after CanDeduct agreed in one case only, a fee of zero on  *)
(* an account without a record: CanDeduct reads no record as zero and lets *)
(* it pass, SubBalance reports ErrInvalidAddress.                          *)
DeductFollowsCheck ==
  \A t \in Tx : phase[t] = "aborted" => /\ block[t].fee = 0
                                        /\ err[t] = "ErrInvalidAddress"

(* What has become of a transaction, as its block shows it. *)
Shown ==
  [t \in Tx |->
     CASE phase[t] = "committed" -> IF err[t] = "nil" THEN "done" ELSE "failed"
       [] phase[t] = "rejected"  -> "refused"
       [] phase[t] = "aborted"   -> "failed"
       [] OTHER                  -> "pending"]

Bank == INSTANCE Bank WITH
          opening <- [a \in Address |-> GetBalance(genesis, a)],
          balance <- [a \in Address |-> GetBalance(db, a)],
          outcome <- Shown

(* Parallel execution is invisible: when the block is done every balance   *)
(* is what its transactions give one after the other in block order, and   *)
(* each of them was done, failed or refused as it would be then.           *)
Deterministic ==
  (\A t \in Tx : Finished(t)) =>
     LET after == Bank!InOrder(block, [a \in Address |-> GetBalance(genesis, a)])
     IN  /\ \A a \in Address : GetBalance(db, a) = after[N][a]
         /\ \A t \in Tx : Shown[t] = Bank!Verdict(after[t - 1], block[t])

(* Every step implements the bank: a transaction shows in the database all *)
(* at once when it commits, and with the effect it has on plain numbers,   *)
(* whether an action failed half way or an account sent to itself.         *)
ImplementsBank == Bank!Spec

(* README, 2.2: executing a transfer "shows expected balances of the       *)
(* sender and receiver".  The result of the last action run is compared    *)
(* with the view it leaves.                                                *)
ResultShowsBalances ==
  \A t \in Tx :
    phase[t] = "running" /\ next[t] > 1 =>
      LET result   == outputs[t][next[t] - 1]
          transfer == block[t].actions[next[t] - 1]
      IN  /\ result.senderBalance = GetBalance(view[t], block[t].actor)
          /\ result.receiverBalance = GetBalance(view[t], transfer.to)
=============================================================================

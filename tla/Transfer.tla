------------------------------ MODULE Transfer ------------------------------
(***************************************************************************)
(* The one action of MorpheusVM, actions/transfer.go: the keys it declares *)
(* and what it does to a view of the balance store.  A transfer is a       *)
(* record of recipient, value and length of the memo.                      *)
(***************************************************************************)
EXTENDS Storage

CONSTANT MaxMemoSize

ASSUME MemoAssumption == MaxMemoSize \in Nat

TransferAction == [to : Address, value : Balance, memo : Nat]

(* Mutants: the entries of the map literal in the other order; the         *)
(* recipient is forgotten.                                                 *)
StateKeys_ActorLast(actor, transfer) ==
  [a \in Address |-> IF a = actor THEN {"Read", "Write"}
                     ELSE IF a = transfer.to THEN Permission
                     ELSE {}]

StateKeys_NoRecipient(actor, transfer) ==
  [a \in Address |-> IF a = actor THEN {"Read", "Write"} ELSE {}]

(* The two entries of the map literal collapse into the recipient's when   *)
(* an account sends to itself.                                             *)
StateKeys(actor, transfer) ==
  [a \in Address |-> IF a = transfer.to THEN Permission
                     ELSE IF a = actor THEN {"Read", "Write"}
                     ELSE {}]

(* Mutant: a memo of the largest size is refused. *)
Validate_OffByOne(transfer) ==
  IF transfer.value = 0 THEN "ErrOutputValueZero"
  ELSE IF transfer.memo >= MaxMemoSize THEN "ErrOutputMemoTooLarge"
  ELSE "nil"

(* The checks that come before any state is touched. *)
Validate(transfer) ==
  IF transfer.value = 0 THEN "ErrOutputValueZero"
  ELSE IF transfer.memo > MaxMemoSize THEN "ErrOutputMemoTooLarge"
  ELSE "nil"

(* The recipient's half: a missing record is created. *)
Credit(db, scope, a, amount) == AddBalance(db, scope, a, amount, TRUE)

(* Mutant: the recipient is credited first. *)
Execute_CreditFirst(db, scope, actor, transfer) ==
  LET add == Credit(db, scope, transfer.to, transfer.value)
      sub == SubBalance(add.db, scope, actor, transfer.value)
      Done(err, after) ==
        [err |-> err, db |-> after,
         senderBalance |-> sub.bal, receiverBalance |-> add.bal]
  IN  IF Validate(transfer) # "nil" THEN Done(Validate(transfer), db)
      ELSE IF add.err # "nil" THEN Done(add.err, db)
      ELSE Done(sub.err, sub.db)

(* Takes the value from the actor, then adds it to the recipient, whose    *)
(* record is created if missing.  When the second half fails the database  *)
(* returned still shows the first: undoing it is left to the caller.       *)
Execute(db, scope, actor, transfer) ==
  LET check == Validate(transfer)
      sub   == SubBalance(db, scope, actor, transfer.value)
      add   == Credit(sub.db, scope, transfer.to, transfer.value)
      Done(err, after, sender, receiver) ==
        [err |-> err, db |-> after,
         senderBalance |-> sender, receiverBalance |-> receiver]
  IN  IF check # "nil" THEN Done(check, db, 0, 0)
      ELSE IF sub.err # "nil" THEN Done(sub.err, sub.db, 0, 0)
      ELSE IF add.err # "nil" THEN Done(add.err, add.db, 0, 0)
      ELSE Done("nil", add.db, sub.bal, add.bal)
=============================================================================

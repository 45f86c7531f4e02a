------------------------- MODULE CliTransferProofs -------------------------
(***************************************************************************)
(* Theorems about the command "transfer", for any users, amounts and       *)
(* transactions: its state is well formed, and the range that it offers    *)
(* fails in the three ways RevertsExplained names, and in no other.        *)
(***************************************************************************)
EXTENDS CliTransfer, StorageProofs

Fate == {"pool", "paid", "reverted", "dropped"}

Tx == [from : Signer, to : Address, value : Balance, fate : Fate]

(* The transfer a transaction executes. *)
Payment(tx) == [to |-> tx.to, value |-> tx.value, memo |-> 0]

(* A transfer whose value the sender has does not fail (ExecuteSucceeds).  *)
LEMMA OwnSucceeds ==
  ASSUME NEW d \in Database, Supply(d) <= MaxUint64,
         NEW from \in Address, NEW to \in Address, NEW value \in 1 .. MaxUint64,
         value <= GetBalance(d, from)
  PROVE  Execute(d, FullScope, from, [to |-> to, value |-> value, memo |-> 0]).err = "nil"
  <1> DEFINE transfer == [to |-> to, value |-> value, memo |-> 0]
  <1>1. /\ transfer \in TransferAction /\ transfer.to \in Address
        /\ transfer.value = value /\ Validate(transfer) = "nil"
    BY MemoAssumption, StorageAssumption DEF TransferAction, Balance, Validate
  <1> HIDE DEF transfer
  <1>2. Execute(d, FullScope, from, transfer).err = "nil"
    BY <1>1, ExecuteSucceeds, Address \in SUBSET Address DEF Supply
  <1>3. QED
    BY <1>2 DEF transfer

(* What a fee and a transfer leave of a database: balances that fit, and   *)
(* no coins that were not there.                                           *)
LEMMA PaymentKept ==
  ASSUME NEW d \in Database, Supply(d) <= MaxUint64,
         NEW from \in Address, NEW to \in Address, NEW value \in Balance,
         Execute(d, FullScope, from, [to |-> to, value |-> value, memo |-> 0]).err = "nil"
  PROVE  LET e == Execute(d, FullScope, from, [to |-> to, value |-> value, memo |-> 0]).db
         IN  e \in Database /\ Supply(e) <= MaxUint64
  <1> DEFINE transfer == [to |-> to, value |-> value, memo |-> 0]
  <1>1. transfer \in TransferAction /\ transfer.to \in Address
    BY DEF TransferAction
  <1> HIDE DEF transfer
  <1>2. Execute(d, FullScope, from, transfer).db \in Database
    BY <1>1, ExecuteType
  <1>3. Execute(d, FullScope, from, transfer).err = "nil"
    BY DEF transfer
  <1>4. SupplyOf(Execute(d, FullScope, from, transfer).db, Address) = SupplyOf(d, Address)
    BY <1>1, <1>3, ExecuteSupply, Address \in SUBSET Address
  <1>5. QED
    BY <1>2, <1>4 DEF Supply, transfer

(* The same of the fee alone. *)
LEMMA DeductKept ==
  ASSUME NEW d \in Database, Supply(d) <= MaxUint64, NEW from \in Address,
         Deduct(d, FullScope, from, Fee).err = "nil"
  PROVE  LET e == Deduct(d, FullScope, from, Fee).db
         IN  /\ e \in Database
             /\ Supply(e) <= MaxUint64
             /\ GetBalance(e, from) = GetBalance(d, from) - Fee
  <1>1. Fee \in Balance /\ Fee \in Nat /\ MaxUint64 \in Nat
    BY CliTransferAssumption, BalanceNat, StorageAssumption
  <1> DEFINE e == Deduct(d, FullScope, from, Fee).db
  <1>2. e \in Database /\ GetBalance(e, from) = GetBalance(d, from) - Fee
    BY <1>1, SubBalanceType, SubBalanceEffect DEF Deduct
  <1>3. SupplyOf(e, Address) + Fee = SupplyOf(d, Address)
    BY <1>1, SubBalanceSupply, Address \in SUBSET Address DEF Deduct
  <1>4. SupplyOf(e, Address) \in Nat
    BY CoinsFinite, Address \in SUBSET Address
  <1> HIDE DEF e
  <1>5. SupplyOf(e, Address) <= MaxUint64
    BY <1>1, <1>3, <1>4 DEF Supply
  <1>6. QED
    BY <1>2, <1>5 DEF Supply, e
-----------------------------------------------------------------------------
Typed ==
  /\ db \in Database
  /\ Supply(db) <= MaxUint64
  /\ txs \in Seq(Tx)
  /\ actor \in Signer
  /\ balance \in Balance
  /\ pc \in {"idle", "balance", "prompt", "listen"}
  /\ outcome \in {"none", "nil", "error", "success", "failure"}
  /\ lowered \in BOOLEAN

(* The transaction that is waited for is the actor's and within the limit. *)
WithinLimit ==
  pc = "listen" => /\ txs # << >>
                   /\ txs[Mine].from = actor
                   /\ txs[Mine].value <= balance

(* Until its own transaction is executed, the account has what the command *)
(* has read, or another transaction has lowered it.                        *)
Pending == pc = "prompt" \/ (pc = "listen" /\ txs[Mine].fate = "pool")

StillThere == Pending => lowered \/ GetBalance(db, actor) >= balance

(* The inductive invariant: RevertsExplained is about a transaction    *)
(* that is settled, StillThere says what it found when it was.             *)
CommandInv == /\ Typed /\ WithinLimit /\ StillThere
              /\ RevertsExplained

(* A transaction is between accounts, and its value is a balance. *)
LEMMA TxOf ==
  ASSUME Typed, NEW i \in DOMAIN txs
  PROVE  /\ txs[i] \in Tx
         /\ txs[i].from \in Address /\ txs[i].to \in Address
         /\ txs[i].value \in Balance /\ txs[i].value \in Nat
  <1>1. txs[i] \in Tx
    BY DEF Typed
  <1>2. QED
    BY <1>1, CliTransferAssumption, BalanceNat DEF Tx

(* No command has run yet. *)
LEMMA InitCommandInv == Init => CommandInv
  <1>1. SUFFICES ASSUME Init PROVE CommandInv
    OBVIOUS
  <1>2. Typed
    <2>1. db \in Database /\ Supply(db) <= MaxUint64
      BY <1>1, CliTransferAssumption DEF Init
    <2>2. txs \in Seq(Tx)
      BY <1>1 DEF Init
    <2>3. balance \in Balance
      BY <1>1, StorageAssumption DEF Init, Balance
    <2>4. QED
      BY <1>1, <2>1, <2>2, <2>3 DEF Init, Typed
  <1>3. pc = "idle"
    BY <1>1 DEF Init
  <1>4. QED
    BY <1>2, <1>3 DEF CommandInv, WithinLimit, StillThere, Pending, RevertsExplained

(* What the command does by itself. *)
LEMMA CommandKept ==
  ASSUME CommandInv,
         DefaultActor \/ GetBalanceInfo \/ SendTx \/ Decline \/ ListenTx \/ Stop
  PROVE  CommandInv'
  <1>0. 0 \in Balance /\ MaxUint64 \in Nat
    BY StorageAssumption DEF Balance
  <1>1. CASE DefaultActor
    BY <1>0, <1>1 DEF DefaultActor, CommandInv, Typed, WithinLimit, StillThere, Pending,
       RevertsExplained
  <1>2. CASE GetBalanceInfo /\ pc' = "idle"
    BY <1>0, <1>2 DEF GetBalanceInfo, Return, CommandInv, Typed, WithinLimit, StillThere,
       Pending, RevertsExplained
  <1>3. CASE GetBalanceInfo /\ pc' # "idle"
    <2>1. actor \in Address
      BY CliTransferAssumption DEF CommandInv, Typed
    <2>2. BalanceReply \in Balance /\ BalanceReply \in Nat
      BY <2>1, GetBalanceType, BalanceNat DEF BalanceReply, CommandInv, Typed
    <2>3. /\ pc' = "prompt" /\ balance' = BalanceReply
          /\ UNCHANGED <<db, txs, actor, outcome, lowered>>
      BY <1>3 DEF GetBalanceInfo, Return
    <2>4. Typed' /\ WithinLimit'
      BY <2>2, <2>3 DEF CommandInv, Typed, WithinLimit
    <2>5. StillThere'
      BY <2>2, <2>3 DEF StillThere, BalanceReply
    <2>6. QED
      BY <2>3, <2>4, <2>5 DEF CommandInv, RevertsExplained
  <1>4. CASE SendTx
    <2>1. PICK to \in Address, value \in 0 .. balance :
            txs' = Append(txs, [from |-> actor, to |-> to, value |-> value, fate |-> "pool"])
      BY <1>4 DEF SendTx
    <2>2. /\ pc = "prompt" /\ pc' = "listen"
          /\ UNCHANGED <<db, actor, balance, outcome, lowered>>
      BY <1>4 DEF SendTx, Goto
    <2>3. /\ balance \in Nat /\ balance <= MaxUint64
          /\ value \in Balance /\ value <= balance
      BY <1>0, BalanceNat DEF CommandInv, Typed, Balance
    <2> DEFINE tx == [from |-> actor, to |-> to, value |-> value, fate |-> "pool"]
    <2>4. tx \in Tx
      BY <2>3 DEF Tx, Fate, CommandInv, Typed
    <2>5. /\ tx.from = actor /\ tx.value = value /\ tx.fate = "pool"
      OBVIOUS
    <2> HIDE DEF tx
    <2>6. txs' = Append(txs, tx) /\ txs \in Seq(Tx)
      BY <2>1 DEF tx, CommandInv, Typed
    <2>7. txs' \in Seq(Tx) /\ txs' # << >> /\ txs'[Len(txs')] = tx
      BY <2>4, <2>6
    <2>8. Typed'
      BY <2>2, <2>7 DEF CommandInv, Typed
    <2>9. WithinLimit'
      BY <2>2, <2>3, <2>5, <2>7 DEF WithinLimit, Mine
    <2>10. StillThere'
      BY <2>2 DEF CommandInv, StillThere, Pending
    <2>11. RevertsExplained'
      BY <2>2, <2>5, <2>7 DEF RevertsExplained, Mine
    <2>12. QED
      BY <2>8, <2>9, <2>10, <2>11 DEF CommandInv
  <1>5. CASE ListenTx
    <2>1. /\ pc' = "idle" /\ balance' = 0 /\ UNCHANGED <<db, txs, actor, lowered>>
      BY <1>5 DEF ListenTx, Return
    <2>2. pc = "listen" /\ txs[Mine].fate # "pool"
      BY <1>5 DEF ListenTx
    <2>3. txs[Mine].fate \in Fate
      <3>1. Mine \in DOMAIN txs
        BY <2>2 DEF Mine, CommandInv, Typed, WithinLimit
      <3>2. QED
        BY <3>1, TxOf DEF CommandInv, Tx
    <2>4. outcome' \in {"success", "failure", "error"}
      BY <1>5, <2>2, <2>3 DEF ListenTx, Return, Fate
    <2>5. QED
      BY <1>0, <2>1, <2>4 DEF CommandInv, Typed, WithinLimit, StillThere, Pending,
         RevertsExplained
  <1>6. CASE Stop
    BY <1>0, <1>6 DEF Stop, Return, CommandInv, Typed, WithinLimit, StillThere, Pending,
       RevertsExplained
  <1>7. CASE Decline
    BY <1>0, <1>7 DEF Decline, Return, CommandInv, Typed, WithinLimit, StillThere, Pending,
       RevertsExplained
  <1>8. QED
    BY <1>1, <1>2, <1>3, <1>4, <1>5, <1>6, <1>7

(* A transaction is settled and nothing else is known to change in it.     *)
LEMMA SettleKept ==
  ASSUME Typed, WithinLimit, NEW i \in DOMAIN txs, NEW fate \in Fate,
         Settle(i, fate), UNCHANGED command
  PROVE  /\ txs' \in Seq(Tx)
         /\ WithinLimit'
         /\ pc = "listen" =>
              /\ Mine' = Mine /\ Mine \in DOMAIN txs
              /\ txs'[Mine].value = txs[Mine].value
              /\ txs'[Mine].fate = IF i = Mine THEN fate ELSE txs[Mine].fate
  <1>1. /\ txs \in Seq(Tx) /\ i \in 1 .. Len(txs)
        /\ txs' = [txs EXCEPT ![i].fate = fate]
    BY DEF Typed, Settle
  <1>2. txs[i] \in Tx
    BY <1>1
  <1>3. [txs[i] EXCEPT !.fate = fate] \in Tx
    BY <1>2 DEF Tx
  <1>4. txs' \in Seq(Tx) /\ Len(txs') = Len(txs)
    BY <1>1, <1>3
  <1>5. \A j \in DOMAIN txs :
          /\ txs'[j].from = txs[j].from
          /\ txs'[j].value = txs[j].value
          /\ txs'[j].fate = IF j = i THEN fate ELSE txs[j].fate
    <2>1. TAKE j \in DOMAIN txs
    <2>2. txs[j] \in Tx
      BY <1>1
    <2>3. CASE j = i
      <3>1. txs'[j] = [txs[j] EXCEPT !.fate = fate]
        BY <1>1, <2>3
      <3>2. QED
        BY <2>2, <2>3, <3>1 DEF Tx
    <2>4. CASE j # i
      BY <1>1, <2>4
    <2>5. QED
      BY <2>3, <2>4
  <1>6. pc = "listen" => Mine' = Mine /\ Mine \in DOMAIN txs
    BY <1>1, <1>4 DEF WithinLimit, Mine
  <1>7. UNCHANGED <<pc, actor, balance>>
    BY DEF command
  <1>8. pc = "listen" => txs' # << >>
    BY <1>1, <1>4 DEF WithinLimit
  <1>9. WithinLimit'
    BY <1>5, <1>6, <1>7, <1>8 DEF WithinLimit
  <1>10. QED
    BY <1>4, <1>5, <1>6, <1>9

(* What Noting notes keeps StillThere. *)
LEMMA NotingKept ==
  ASSUME CommandInv, db' \in Database, Noting(db'), UNCHANGED command, Pending' => Pending
  PROVE  StillThere' /\ lowered' \in BOOLEAN /\ (lowered => lowered')
  <1>1. UNCHANGED <<actor, balance>> /\ actor \in Address
    BY CliTransferAssumption DEF command, CommandInv, Typed
  <1>2. /\ GetBalance(db, actor) \in Nat /\ GetBalance(db', actor) \in Nat
        /\ balance \in Nat
    BY <1>1, GetBalanceType, BalanceNat DEF CommandInv, Typed
  <1>3. lowered' = (lowered \/ GetBalance(db', actor) < GetBalance(db, actor))
    BY DEF Noting
  <1>4. lowered' \in BOOLEAN /\ (lowered => lowered')
    BY <1>3
  <1>5. ASSUME Pending', ~ lowered' PROVE GetBalance(db', actor) >= balance
    <2>1. /\ Pending /\ ~ lowered
          /\ ~ (GetBalance(db', actor) < GetBalance(db, actor))
      BY <1>3, <1>5
    <2>2. GetBalance(db, actor) >= balance
      BY <2>1 DEF CommandInv, StillThere
    <2>3. QED
      BY <1>2, <2>1, <2>2
  <1>6. StillThere'
    BY <1>1, <1>5 DEF StillThere
  <1>7. QED
    BY <1>4, <1>6

(* The command's own transaction, executed while its account has what the  *)
(* command has read: it is reverted only for the fee or for a zero.        *)
LEMMA OwnPaid ==
  ASSUME CommandInv, pc = "listen", txs[Mine].fate = "pool", ~ lowered,
         Deduct(db, FullScope, txs[Mine].from, Fee).err = "nil",
         Execute(Deduct(db, FullScope, txs[Mine].from, Fee).db, FullScope,
                 txs[Mine].from, Payment(txs[Mine])).err # "nil"
  PROVE  txs[Mine].value = 0 \/ txs[Mine].value \in balance - Fee + 1 .. balance
  <1> DEFINE tx == txs[Mine]
             charged == Deduct(db, FullScope, tx.from, Fee)
  <1>1. Mine \in DOMAIN txs
    BY DEF CommandInv, Typed, WithinLimit, Mine
  <1>2. /\ tx.from \in Address /\ tx.to \in Address
        /\ tx.value \in Balance /\ tx.value \in Nat
    BY <1>1, TxOf DEF CommandInv
  <1>3. tx.from = actor /\ tx.value <= balance
    BY DEF CommandInv, WithinLimit
  <1>4. GetBalance(db, actor) >= balance
    BY DEF CommandInv, StillThere, Pending
  <1>5. db \in Database /\ Supply(db) <= MaxUint64 /\ balance \in Balance
    BY DEF CommandInv, Typed
  <1>6. /\ charged.db \in Database /\ Supply(charged.db) <= MaxUint64
        /\ GetBalance(charged.db, tx.from) = GetBalance(db, tx.from) - Fee
    BY <1>2, <1>5, DeductKept
  <1>7. /\ GetBalance(db, actor) \in Nat /\ balance \in Nat /\ Fee \in Nat /\ tx.value \in Nat
        /\ MaxUint64 \in Nat
    BY <1>2, <1>3, <1>5, GetBalanceType, BalanceNat, CliTransferAssumption, StorageAssumption
  <1>8. CASE tx.value = 0
    BY <1>8
  <1>9. tx.value # 0 => ~ (tx.value <= GetBalance(charged.db, tx.from))
    <2>1. Execute(charged.db, FullScope, tx.from,
                  [to |-> tx.to, value |-> tx.value, memo |-> 0]).err # "nil"
      BY DEF Payment
    <2> HIDE DEF charged, tx
    <2>2. tx.value # 0 => tx.value \in 1 .. MaxUint64
      BY <1>2, <1>7, BalanceNat
    <2>3. QED
      BY <1>2, <1>6, <2>1, <2>2, OwnSucceeds
  <1> HIDE DEF charged, tx
  <1>10. CASE tx.value # 0
    <2>1. tx.value > balance - Fee
      BY <1>3, <1>4, <1>6, <1>7, <1>9, <1>10
    <2>2. tx.value \in balance - Fee + 1 .. balance
      BY <1>3, <1>7, <2>1
    <2>3. QED
      BY <2>2 DEF tx
  <1>11. QED
    BY <1>8, <1>10 DEF tx

(* A transaction is executed: it is the command's own, or what it takes    *)
(* from the account is noted.                                              *)
LEMMA AcceptKept ==
  ASSUME CommandInv, NEW i \in DOMAIN txs, Accept(i), UNCHANGED command
  PROVE  CommandInv'
  <1> DEFINE charged == Deduct(db, FullScope, txs[i].from, Fee)
             done == Execute(charged.db, FullScope, txs[i].from, Payment(txs[i]))
             fate == IF done.err = "nil" THEN "paid" ELSE "reverted"
  <1>1. /\ txs[i].fate = "pool"
        /\ charged.err = "nil"
        /\ db' = IF done.err = "nil" THEN done.db ELSE charged.db
        /\ Settle(i, fate)
        /\ IF i = Mine /\ pc = "listen" THEN UNCHANGED lowered ELSE Noting(db')
    BY DEF Accept, Payment
  <1>2. db \in Database /\ Supply(db) <= MaxUint64 /\ Typed /\ WithinLimit
    BY DEF CommandInv, Typed
  <1>3. txs[i].from \in Address /\ txs[i].to \in Address /\ txs[i].value \in Balance
    BY <1>2, TxOf
  <1>4. charged.db \in Database /\ Supply(charged.db) <= MaxUint64
    BY <1>1, <1>2, <1>3, DeductKept
  <1>5. db' \in Database /\ Supply(db') <= MaxUint64
    <2>1. CASE done.err = "nil"
      <3>1. done.db \in Database /\ Supply(done.db) <= MaxUint64
        <4> HIDE DEF charged
        <4>1. QED
          BY <1>3, <1>4, <2>1, PaymentKept DEF Payment, done
      <3>2. QED
        BY <1>1, <2>1, <3>1
    <2>2. CASE done.err # "nil"
      BY <1>1, <1>4, <2>2
    <2>3. QED
      BY <2>1, <2>2
  <1>6. fate \in Fate
    BY DEF Fate
  <1>7. done.err # "nil" <=> fate = "reverted"
    OBVIOUS
  <1>8. pc = "listen" /\ i = Mine /\ ~ lowered /\ done.err # "nil"
          => txs[Mine].value = 0 \/ txs[Mine].value \in balance - Fee + 1 .. balance
    BY <1>1, OwnPaid
  <1> HIDE DEF fate, done, charged
  <1>9. /\ txs' \in Seq(Tx)
        /\ WithinLimit'
        /\ pc = "listen" =>
              /\ Mine' = Mine /\ Mine \in DOMAIN txs
              /\ txs'[Mine].value = txs[Mine].value
              /\ txs'[Mine].fate = IF i = Mine THEN fate ELSE txs[Mine].fate
    BY <1>1, <1>2, <1>6, SettleKept
  <1>10. UNCHANGED <<pc, actor, balance, outcome>>
    BY DEF command
  <1>11. Pending' => Pending
    BY <1>1, <1>9, <1>10 DEF Pending
  <1>12. CASE i = Mine /\ pc = "listen"
    <2>1. lowered' = lowered
      BY <1>1, <1>12
    <2>2. ~ Pending'
      BY <1>7, <1>9, <1>10, <1>12 DEF Pending, fate
    <2>3. RevertsExplained'
      BY <1>7, <1>8, <1>9, <1>10, <1>12, <2>1 DEF RevertsExplained
    <2>4. Typed'
      BY <1>2, <1>5, <1>9, <1>10, <2>1 DEF Typed
    <2>5. QED
      BY <1>9, <2>2, <2>3, <2>4 DEF CommandInv, StillThere
  <1>13. CASE ~ (i = Mine /\ pc = "listen")
    <2>1. StillThere' /\ lowered' \in BOOLEAN /\ (lowered => lowered')
      BY <1>1, <1>5, <1>11, <1>13, NotingKept
    <2>2. RevertsExplained'
      BY <1>9, <1>10, <1>13, <2>1 DEF RevertsExplained, CommandInv
    <2>3. Typed'
      BY <1>2, <1>5, <1>9, <1>10, <2>1 DEF Typed
    <2>4. QED
      BY <1>9, <2>1, <2>2, <2>3 DEF CommandInv
  <1>14. QED
    BY <1>12, <1>13

(* A transaction is removed: no account changes. *)
LEMMA DropKept ==
  ASSUME CommandInv, NEW i \in DOMAIN txs, Drop(i), UNCHANGED command
  PROVE  CommandInv'
  <1>1. Typed /\ WithinLimit /\ "dropped" \in Fate
    BY DEF CommandInv, Fate
  <1>2. Settle(i, "dropped") /\ UNCHANGED <<db, lowered>>
    BY DEF Drop
  <1>3. /\ txs' \in Seq(Tx)
        /\ WithinLimit'
        /\ pc = "listen" =>
              /\ Mine' = Mine /\ Mine \in DOMAIN txs
              /\ txs'[Mine].value = txs[Mine].value
              /\ txs'[Mine].fate = IF i = Mine THEN "dropped" ELSE txs[Mine].fate
    BY <1>1, <1>2, SettleKept
  <1>4. UNCHANGED <<pc, actor, balance, outcome>>
    BY DEF command
  <1>5. Typed'
    BY <1>1, <1>2, <1>3, <1>4 DEF Typed
  <1>6. StillThere'
    BY <1>2, <1>3, <1>4 DEF CommandInv, StillThere, Pending
  <1>7. RevertsExplained'
    BY <1>2, <1>3, <1>4 DEF CommandInv, RevertsExplained
  <1>8. QED
    BY <1>3, <1>5, <1>6, <1>7 DEF CommandInv

(* Another client moves a coin, and what it takes is noted. *)
LEMMA OtherKept ==
  ASSUME CommandInv, NEW from \in Address, NEW to \in Address, OtherTransfer(from, to)
  PROVE  CommandInv'
  <1> DEFINE done == Execute(db, FullScope, from, [to |-> to, value |-> 1, memo |-> 0])
  <1>1. /\ done.err = "nil" /\ db' = done.db /\ Noting(db')
        /\ UNCHANGED txs /\ UNCHANGED command
    BY DEF OtherTransfer
  <1>2. db \in Database /\ Supply(db) <= MaxUint64 /\ Typed
    BY DEF CommandInv, Typed
  <1>3. 1 \in Balance
    BY StorageAssumption DEF Balance
  <1>4. db' \in Database /\ Supply(db') <= MaxUint64
    BY <1>1, <1>2, <1>3, PaymentKept
  <1> HIDE DEF done
  <1>5. UNCHANGED <<pc, actor, balance, outcome, txs, Mine>>
    BY <1>1 DEF command, Mine
  <1>6. StillThere' /\ lowered' \in BOOLEAN /\ (lowered => lowered')
    BY <1>1, <1>4, <1>5, NotingKept DEF Pending
  <1>7. Typed'
    BY <1>2, <1>4, <1>5, <1>6 DEF Typed
  <1>8. WithinLimit' /\ RevertsExplained'
    BY <1>5, <1>6 DEF CommandInv, WithinLimit, RevertsExplained
  <1>9. QED
    BY <1>6, <1>7, <1>8 DEF CommandInv

(* Every step, of the command, the node or another, keeps the invariant. *)
LEMMA NextCommandInv == CommandInv /\ [Next]_vars => CommandInv'
  <1>1. SUFFICES ASSUME CommandInv, [Next]_vars PROVE CommandInv'
    OBVIOUS
  <1>2. CASE DefaultActor \/ GetBalanceInfo \/ SendTx \/ Decline \/ ListenTx \/ Stop
    BY <1>1, <1>2, CommandKept
  <1>3. ASSUME NEW i \in DOMAIN txs, Node(i) PROVE CommandInv'
    BY <1>1, <1>3, AcceptKept, DropKept DEF Node
  <1>4. ASSUME NEW from \in Address, NEW to \in Address, OtherTransfer(from, to)
        PROVE  CommandInv'
    BY <1>1, <1>4, OtherKept
  <1>5. CASE UNCHANGED vars
    BY <1>1, <1>5 DEF vars, CommandInv, Typed, WithinLimit, StillThere, Pending, Mine,
       RevertsExplained
  <1>6. QED
    BY <1>1, <1>2, <1>3, <1>4, <1>5 DEF Next
-----------------------------------------------------------------------------
(* CommandInv holds in every state of every session. *)
THEOREM CommandInvariant == Spec => []CommandInv
  BY InitCommandInv, NextCommandInv, PTL DEF Spec

(* The chain and the command are well formed; the transaction that is      *)
(* waited for is one the command made for its own account.                 *)
THEOREM TransferTypeCorrect == Spec => []TypeOK
  <1>1. ASSUME CommandInv PROVE TypeOK
    <2>1. \A i \in DOMAIN txs :
            txs[i] \in [from : Signer, to : Address, value : Balance,
                        fate : {"pool", "paid", "reverted", "dropped"}]
      <3>1. TAKE i \in DOMAIN txs
      <3>2. txs[i] \in Tx /\ txs[i].value \in Balance
        BY <1>1, TxOf DEF CommandInv
      <3>3. QED
        BY <3>2 DEF Tx, Fate
    <2>2. QED
      BY <1>1, <2>1 DEF CommandInv, Typed, WithinLimit, TypeOK
  <1>2. QED
    BY <1>1, CommandInvariant, PTL

(* A transfer in the range that the command offers is reverted only when   *)
(* another transaction has lowered the balance, for the fee, which the     *)
(* limit (handler.go, GetBalance) does not leave room for, or because its  *)
(* amount is zero, which the prompt of action.go lets through.             *)
THEOREM LimitFailsInThreeWays == Spec => []RevertsExplained
  <1>1. CommandInv => RevertsExplained
    BY DEF CommandInv
  <1>2. QED
    BY <1>1, CommandInvariant, PTL
=============================================================================

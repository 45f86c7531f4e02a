------------------------ MODULE BlockExecutorProofs ------------------------
(***************************************************************************)
(* Theorems about every execution of a block, for any set of accounts, any *)
(* transactions, any number of them and any genesis whose supply fits: the *)
(* state is well formed, no coin is made or lost, no credit overflows, the *)
(* execution implements the abstract Bank, and what it leaves is what the  *)
(* transactions give one after the other.                                  *)
(***************************************************************************)
EXTENDS BlockExecutor, StorageProofs

(* What a transaction of the block is made of. *)
LEMMA BlockTypes ==
  ASSUME TypeOK, NEW t \in Tx
  PROVE  /\ block[t].actor \in Address
         /\ block[t].fee \in Balance
         /\ block[t].actions \in Seq(TransferAction)
         /\ \A i \in 1 .. Len(block[t].actions) :
              block[t].actions[i] \in TransferAction
  BY BlockAssumption DEF TypeOK, Tx, TransactionRecord

(* What the action run next returns. *)
LEMMA NextActionType ==
  ASSUME TypeOK, NEW t \in Tx, next[t] <= Len(block[t].actions)
  PROVE  /\ block[t].actions[next[t]] \in TransferAction
         /\ NextAction(t).db \in Database
         /\ NextAction(t).senderBalance \in Balance
         /\ NextAction(t).receiverBalance \in Balance
         /\ NextAction(t).err \in {"nil", "ErrInvalidKeyOrPermission",
                                   "ErrInvalidAddress", "ErrInvalidBalance",
                                   "ErrOutputValueZero", "ErrOutputMemoTooLarge"}
  <1>1. next[t] \in 1 .. Len(block[t].actions)
    BY BlockTypes DEF TypeOK
  <1>2. /\ block[t].actions[next[t]] \in TransferAction
        /\ block[t].actor \in Address
        /\ view[t] \in Database
    BY <1>1, BlockTypes DEF TypeOK
  <1>3. QED
    BY <1>2, ExecuteType DEF NextAction

(* What charging a fee returns. *)
LEMMA FeeChargeType ==
  ASSUME TypeOK, NEW t \in Tx
  PROVE  /\ FeeCharge(t, db).db \in Database
         /\ FeeCharge(t, db).err \in {"nil", "ErrInvalidKeyOrPermission",
                                      "ErrInvalidAddress", "ErrInvalidBalance"}
  BY BlockTypes, SubBalanceType DEF TypeOK, FeeCharge, Deduct

LEMMA InitTypeOK == Init => TypeOK
  <1> SUFFICES ASSUME Init PROVE TypeOK
    OBVIOUS
  <1>1. \A t \in Tx : Len(block[t].actions) \in Nat
    BY BlockAssumption DEF Init, Tx, TransactionRecord
  <1>2. << >> \in Seq([senderBalance : Balance, receiverBalance : Balance])
    OBVIOUS
  <1>3. QED
    BY <1>1, <1>2 DEF Init, TypeOK, GenesisDatabase

LEMMA NextTypeOK == TypeOK /\ [Next]_vars => TypeOK'
  <1> SUFFICES ASSUME TypeOK, [Next]_vars PROVE TypeOK'
    OBVIOUS
  <1> USE DEF TypeOK
  <1>1. ASSUME NEW t \in Tx, Reject(t) PROVE TypeOK'
    <2>1. FeeCheck(t, db) \in {"nil", "ErrInvalidKeyOrPermission", "ErrInvalidBalance"}
      BY DEF FeeCheck, CanDeduct
    <2>2. QED
      BY <1>1, <2>1 DEF Reject
  <1>2. ASSUME NEW t \in Tx, Abort(t) PROVE TypeOK'
    BY <1>2, FeeChargeType DEF Abort
  <1>3. ASSUME NEW t \in Tx, Begin(t) PROVE TypeOK'
    BY <1>3, FeeChargeType DEF Begin
  <1>4. ASSUME NEW t \in Tx, RunAction(t) PROVE TypeOK'
    <2>1. /\ NextAction(t).db \in Database
          /\ [senderBalance |-> NextAction(t).senderBalance,
              receiverBalance |-> NextAction(t).receiverBalance]
                \in [senderBalance : Balance, receiverBalance : Balance]
      BY <1>4, NextActionType DEF RunAction
    <2>2. outputs' \in [Tx -> Seq([senderBalance : Balance, receiverBalance : Balance])]
      <3> DEFINE Result == [senderBalance : Balance, receiverBalance : Balance]
                 result == [senderBalance   |-> NextAction(t).senderBalance,
                            receiverBalance |-> NextAction(t).receiverBalance]
      <3>1. outputs \in [Tx -> Seq(Result)] /\ result \in Result
        BY <2>1
      <3>2. outputs' = [outputs EXCEPT ![t] = Append(outputs[t], result)]
        BY <1>4 DEF RunAction
      <3> HIDE DEF Result, result
      <3>3. Append(outputs[t], result) \in Seq(Result)
        BY <3>1
      <3>4. outputs' \in [Tx -> Seq(Result)]
        BY <3>1, <3>2, <3>3
      <3>5. QED
        BY <3>4 DEF Result
    <2>3. /\ next' \in [Tx -> Nat \ {0}]
          /\ \A s \in Tx : next'[s] <= Len(block[s].actions) + 1
      BY <1>4 DEF RunAction
    <2>4. QED
      BY <1>4, <2>1, <2>2, <2>3 DEF RunAction
  <1>5. ASSUME NEW t \in Tx, FailAction(t) PROVE TypeOK'
    BY <1>5, NextActionType DEF FailAction
  <1>6. ASSUME NEW t \in Tx, Finish(t) PROVE TypeOK'
    BY <1>6 DEF Finish
  <1>7. ASSUME NEW t \in Tx, Commit(t) PROVE TypeOK'
    <2>1. burned' \in Nat
      <3>1. block[t].fee \in Nat
        BY BlockTypes, BalanceNat
      <3>2. QED
        BY <1>7, <3>1 DEF Commit
    <2>2. db' \in Database
      BY <1>7 DEF Commit, Database
    <2>3. QED
      BY <1>7, <2>1, <2>2 DEF Commit
  <1>8. CASE UNCHANGED vars
    BY <1>8 DEF vars
  <1>9. QED
    BY <1>1, <1>2, <1>3, <1>4, <1>5, <1>6, <1>7, <1>8 DEF Next, Step, Terminating

(* The state of the executor is always well formed: every balance, in the  *)
(* database and in every view, stays within 64 bits.                       *)
THEOREM TypeCorrect == Spec => []TypeOK
  BY InitTypeOK, NextTypeOK, PTL DEF Spec
-----------------------------------------------------------------------------
(* Every declared key is declared for writing, so two transactions that    *)
(* declare the same key conflict.                                          *)
LEMMA KeysWritten ==
  ASSUME NEW t \in Tx, NEW a \in Keys(t)
  PROVE  a \in Address /\ "Write" \in DeclaredScope(block[t])[a]
  BY DEF Keys, DeclaredScope, SponsorStateKeys, StateKeys, Permission

LEMMA SharersConflict ==
  ASSUME NEW s \in Tx, NEW t \in Tx, Keys(s) \cap Keys(t) # {}
  PROVE  Conflict(s, t)
  BY KeysWritten DEF Conflict

(* The signer and the recipients are among the declared accounts. *)
LEMMA ActorInKeys ==
  ASSUME TypeOK, NEW t \in Tx
  PROVE  block[t].actor \in Keys(t) /\ Keys(t) \in SUBSET Address
  BY BlockTypes DEF Keys, DeclaredScope, SponsorStateKeys

LEMMA RecipientInKeys ==
  ASSUME TypeOK, NEW t \in Tx, NEW i \in 1 .. Len(block[t].actions)
  PROVE  block[t].actions[i].to \in Keys(t)
  <1> DEFINE to == block[t].actions[i].to
  <1>1. to \in Address /\ i \in DOMAIN block[t].actions
    BY BlockTypes DEF TransactionRecord, TransferAction
  <1>2. "Write" \in StateKeys(block[t].actor, block[t].actions[i])[to]
    BY <1>1 DEF StateKeys, Permission
  <1>3. "Write" \in DeclaredScope(block[t])[to]
    BY <1>1, <1>2 DEF DeclaredScope
  <1>4. QED
    BY <1>1, <1>3 DEF Keys
-----------------------------------------------------------------------------
(* Of two transactions that declared a common key the later one starts     *)
(* after the earlier one is done.                                          *)
DeclarersInOrder ==
  \A s, t \in Tx :
    s < t /\ phase[t] # "queued" /\ Keys(s) \cap Keys(t) # {} => Finished(s)

(* The inductive invariant.  Conservation alone is not inductive: it needs *)
(* that the coins a commit writes are those it replaces, less the fee      *)
(* (ViewsBalanced), and that until then no other commit touches them       *)
(* (DeclarersInOrder).                                                     *)
SupplyInv == /\ TypeOK
             /\ DeclarersInOrder
             /\ ViewsBalanced
             /\ SupplyConserved
             /\ Supply(genesis) <= MaxUint64

LEMMA InitSupplyInv == Init => SupplyInv
  <1> SUFFICES ASSUME Init PROVE SupplyInv
    OBVIOUS
  <1>1. TypeOK
    BY InitTypeOK
  <1>2. DeclarersInOrder /\ ViewsBalanced
    BY DEF Init, DeclarersInOrder, ViewsBalanced, Active
  <1>3. SupplyConserved
    <2>1. Supply(db) \in Nat
      BY CoinsFinite DEF Supply
    <2>2. QED
      BY <2>1 DEF Init, SupplyConserved
  <1>4. Supply(genesis) <= MaxUint64
    BY DEF Init, GenesisDatabase
  <1>5. QED
    BY <1>1, <1>2, <1>3, <1>4 DEF SupplyInv

(* Two transactions under way share no account. *)
LEMMA ActiveApart ==
  ASSUME DeclarersInOrder, NEW s \in Tx, NEW t \in Tx, s # t,
         Active(s), Active(t)
  PROVE  Keys(s) \cap Keys(t) = {}
  <1>1. s < t \/ t < s
    BY BlockAssumption DEF Tx
  <1>2. QED
    BY <1>1 DEF DeclarersInOrder, Active, Finished

(* No step lets a transaction start before an earlier one it shares an     *)
(* account with is done: the guard of Ready, and done is for good.         *)
LEMMA NextDeclarersInOrder ==
  ASSUME TypeOK, DeclarersInOrder, [Next]_vars
  PROVE  DeclarersInOrder'
  <1>1. \A t \in Tx : Keys(t)' = Keys(t)
    BY DEF Next, Step, Reject, Abort, Begin, RunAction, FailAction, Finish,
           Commit, Terminating, vars, Keys
  <1>2. \A s \in Tx : Finished(s) => Finished(s)'
    BY DEF Next, Step, Reject, Abort, Begin, RunAction, FailAction, Finish,
           Commit, Terminating, vars, Finished, Ready, TypeOK
  <1>3. ASSUME NEW s \in Tx, NEW t \in Tx, s < t,
               phase[t] = "queued", phase'[t] # "queued",
               Keys(s) \cap Keys(t) # {}
        PROVE  Finished(s)
    <2>1. Ready(t)
      BY <1>3 DEF Next, Step, Reject, Abort, Begin, RunAction, FailAction,
                  Finish, Commit, Terminating, vars, TypeOK
    <2>2. QED
      BY <1>3, <2>1, SharersConflict DEF Ready
  <1>4. QED
    BY <1>1, <1>2, <1>3 DEF DeclarersInOrder

(* What a step on the view and checkpoint of transaction t must establish. *)
Balanced(t) ==
  Active(t) =>
    /\ SupplyOf(view[t], Keys(t)) + block[t].fee = SupplyOf(db, Keys(t))
    /\ SupplyOf(paid[t], Keys(t)) + block[t].fee = SupplyOf(db, Keys(t))

(* A commit leaves the supply of accounts it does not touch, and makes     *)
(* that of the accounts it declares what it is in the view.                *)
LEMMA CommitLocal ==
  ASSUME TypeOK, NEW t \in Tx, Commit(t), NEW S \in SUBSET Address
  PROVE  /\ S \cap Keys(t) = {} => SupplyOf(db', S) = SupplyOf(db, S)
         /\ S \subseteq Keys(t) => SupplyOf(db', S) = SupplyOf(view[t], S)
  <1>1. \A a \in S : db'[a] = IF a \in Keys(t) THEN view[t][a] ELSE db[a]
    BY DEF Commit
  <1>2. ASSUME S \cap Keys(t) = {} PROVE SupplyOf(db', S) = SupplyOf(db, S)
    <2>1. \A a \in S : GetBalance(db', a) = GetBalance(db, a)
      BY <1>1, <1>2 DEF GetBalance
    <2>2. QED
      BY <2>1, SupplyLocal
  <1>3. ASSUME S \subseteq Keys(t) PROVE SupplyOf(db', S) = SupplyOf(view[t], S)
    <2>1. \A a \in S : GetBalance(db', a) = GetBalance(view[t], a)
      BY <1>1, <1>3 DEF GetBalance
    <2>2. QED
      BY <2>1, SupplyLocal
  <1>4. QED
    BY <1>2, <1>3

LEMMA NextViewsBalanced ==
  ASSUME TypeOK, DeclarersInOrder, ViewsBalanced, [Next]_vars
  PROVE  ViewsBalanced'
  <1>1. \A t \in Tx : Balanced(t)
    BY DEF ViewsBalanced, Balanced
  <1>2. \A t \in Tx : block'[t] = block[t] /\ Keys(t)' = Keys(t)
    BY DEF Next, Step, Reject, Abort, Begin, RunAction, FailAction, Finish,
           Commit, Terminating, vars, Keys
  <1>3. SUFFICES \A s \in Tx : Balanced(s)'
    BY DEF ViewsBalanced, Balanced
  <1>4. TAKE s \in Tx
  <1>5. ASSUME NEW t \in Tx, Reject(t) PROVE Balanced(s)'
    BY <1>1, <1>2, <1>5 DEF Reject, Balanced, Active, TypeOK
  <1>6. ASSUME NEW t \in Tx, Abort(t) PROVE Balanced(s)'
    BY <1>1, <1>2, <1>6 DEF Abort, Balanced, Active, TypeOK
  <1>7. ASSUME NEW t \in Tx, Begin(t) PROVE Balanced(s)'
    <2>1. CASE s = t
      <3>1. SupplyOf(FeeCharge(t, db).db, Keys(t)) + block[t].fee = SupplyOf(db, Keys(t))
        BY <1>7, ActorInKeys, BlockTypes, SubBalanceSupply
        DEF Begin, FeeCharge, Deduct, TypeOK
      <3>2. view'[t] = FeeCharge(t, db).db /\ paid'[t] = FeeCharge(t, db).db /\ db' = db
        BY <1>7 DEF Begin, TypeOK
      <3>3. QED
        BY <1>2, <2>1, <3>1, <3>2 DEF Balanced
    <2>2. CASE s # t
      BY <1>1, <1>2, <1>7, <2>2 DEF Begin, Balanced, Active, TypeOK
    <2>3. QED
      BY <2>1, <2>2
  <1>8. ASSUME NEW t \in Tx, RunAction(t) PROVE Balanced(s)'
    <2>1. CASE s = t
      <3>1. SupplyOf(NextAction(t).db, Keys(t)) = SupplyOf(view[t], Keys(t))
        <4>1. next[t] \in 1 .. Len(block[t].actions)
          BY <1>8, BlockTypes DEF RunAction, TypeOK
        <4>2. /\ Keys(t) \in SUBSET Address
              /\ block[t].actor \in Keys(t)
              /\ block[t].actions[next[t]] \in TransferAction
              /\ block[t].actions[next[t]].to \in Keys(t)
          BY <4>1, ActorInKeys, RecipientInKeys, BlockTypes
        <4>3. NextAction(t).err = "nil" /\ view[t] \in Database
          BY <1>8 DEF RunAction, TypeOK
        <4>4. QED
          BY <4>2, <4>3, ExecuteSupply DEF NextAction
      <3>2. /\ view'[t] = NextAction(t).db
            /\ paid' = paid /\ db' = db /\ phase[t] = "running"
        BY <1>8 DEF RunAction, TypeOK
      <3>3. QED
        BY <1>1, <1>2, <2>1, <3>1, <3>2 DEF Balanced, Active
    <2>2. CASE s # t
      BY <1>1, <1>2, <1>8, <2>2 DEF RunAction, Balanced, Active, TypeOK
    <2>3. QED
      BY <2>1, <2>2
  <1>9. ASSUME NEW t \in Tx, FailAction(t) PROVE Balanced(s)'
    BY <1>1, <1>2, <1>9 DEF FailAction, Balanced, Active, TypeOK
  <1>10. ASSUME NEW t \in Tx, Finish(t) PROVE Balanced(s)'
    BY <1>1, <1>2, <1>10 DEF Finish, Balanced, Active, TypeOK
  <1>11. ASSUME NEW t \in Tx, Commit(t) PROVE Balanced(s)'
    <2>1. CASE s = t
      BY <1>11, <2>1 DEF Commit, Balanced, Active, TypeOK
    <2>2. CASE s # t
      <3>1. SUFFICES ASSUME Active(s)' PROVE Balanced(s)'
        BY DEF Balanced
      <3>2. Active(s) /\ Active(t)
        BY <1>11, <2>2, <3>1 DEF Commit, Active, TypeOK
      <3>3. SupplyOf(db', Keys(s)) = SupplyOf(db, Keys(s))
        BY <1>11, <2>2, <3>2, ActiveApart, ActorInKeys, CommitLocal
      <3>4. QED
        BY <1>1, <1>2, <1>11, <3>2, <3>3 DEF Commit, Balanced
    <2>3. QED
      BY <2>1, <2>2
  <1>12. CASE UNCHANGED vars
    BY <1>1, <1>12 DEF vars, Balanced, Active, Keys
  <1>13. QED
    BY <1>5, <1>6, <1>7, <1>8, <1>9, <1>10, <1>11, <1>12 DEF Next, Step, Terminating

(* Only a commit changes the supply and the burned fees, and by the fee.   *)
LEMMA NextSupplyConserved ==
  ASSUME TypeOK, ViewsBalanced, SupplyConserved, [Next]_vars
  PROVE  SupplyConserved'
  <1>1. CASE UNCHANGED <<db, burned, genesis>>
    BY <1>1 DEF SupplyConserved, Supply
  <1>2. ASSUME NEW t \in Tx, Commit(t) PROVE SupplyConserved'
    <2> DEFINE K == Keys(t)
               R == Address \ Keys(t)
    <2>1. K \in SUBSET Address /\ R \in SUBSET Address /\ K \cap R = {} /\ K \cup R = Address
      BY DEF Keys
    <2>2. /\ Supply(db) = SupplyOf(db, K) + SupplyOf(db, R)
          /\ Supply(db') = SupplyOf(db', K) + SupplyOf(db', R)
      BY <2>1, SupplyDisjoint DEF Supply
    <2>3. SupplyOf(db', K) = SupplyOf(view[t], K) /\ SupplyOf(db', R) = SupplyOf(db, R)
      BY <1>2, <2>1, CommitLocal
    <2>4. SupplyOf(view[t], K) + block[t].fee = SupplyOf(db, K)
      BY <1>2 DEF ViewsBalanced, Commit, Active
    <2>5. /\ SupplyOf(view[t], K) \in Nat /\ SupplyOf(db, K) \in Nat
          /\ SupplyOf(db, R) \in Nat /\ block[t].fee \in Nat /\ burned \in Nat
      BY <2>1, CoinsFinite, BlockTypes, BalanceNat DEF TypeOK
    <2>6. burned' = burned + block[t].fee /\ genesis' = genesis
      BY <1>2 DEF Commit
    <2>7. Supply(db') + burned' = Supply(db) + burned
      BY <2>2, <2>3, <2>4, <2>5, <2>6
    <2>8. QED
      BY <2>6, <2>7 DEF SupplyConserved, Supply
  <1>3. QED
    BY <1>1, <1>2 DEF Next, Step, Reject, Abort, Begin, RunAction, FailAction,
                      Finish, Terminating, vars

LEMMA NextSupplyInv == SupplyInv /\ [Next]_vars => SupplyInv'
  <1> SUFFICES ASSUME SupplyInv, [Next]_vars PROVE SupplyInv'
    OBVIOUS
  <1>1. TypeOK' /\ DeclarersInOrder' /\ ViewsBalanced' /\ SupplyConserved'
    BY NextTypeOK, NextDeclarersInOrder, NextViewsBalanced, NextSupplyConserved
    DEF SupplyInv
  <1>2. genesis' = genesis
    BY DEF Next, Step, Reject, Abort, Begin, RunAction, FailAction, Finish,
           Commit, Terminating, vars
  <1>3. QED
    BY <1>1, <1>2 DEF SupplyInv, Supply

(* SupplyInv holds in every state of every execution. *)
THEOREM SupplyInvariant == Spec => []SupplyInv
  BY InitSupplyInv, NextSupplyInv, PTL DEF Spec

(* Whatever the block, transactions that share an account run one after    *)
(* the other: what the two StateKeys declare holds every party.            *)
THEOREM SharersRunInOrder == Spec => []SharersInOrder
  <1>1. ASSUME TypeOK, DeclarersInOrder PROVE SharersInOrder
    <2>1. ASSUME NEW t \in Tx PROVE Parties(t) \subseteq Keys(t)
      BY <1>1, <2>1, ActorInKeys, RecipientInKeys, BlockTypes DEF Parties
    <2>2. ASSUME NEW s \in Tx, NEW t \in Tx, Parties(s) \cap Parties(t) # {}
          PROVE  Keys(s) \cap Keys(t) # {}
      BY <2>1, <2>2
    <2>3. QED
      BY <1>1, <2>2 DEF DeclarersInOrder, SharersInOrder
  <1>2. SupplyInv => SharersInOrder
    BY <1>1 DEF SupplyInv
  <1>3. QED
    BY <1>2, SupplyInvariant, PTL

(* No transfer, fee or rollback, in whatever interleaving, makes or loses  *)
(* a coin: what the accounts hold and what was burned is the genesis.      *)
THEOREM SupplyIsConserved == Spec => []SupplyConserved
  <1>1. SupplyInv => SupplyConserved
    BY DEF SupplyInv
  <1>2. QED
    BY <1>1, SupplyInvariant, PTL
-----------------------------------------------------------------------------
(* The supply of some accounts is at most that of all. *)
LEMMA SupplyMonotone ==
  ASSUME NEW d, NEW S \in SUBSET Address
  PROVE  SupplyOf(d, S) <= Supply(d)
  <1>1. /\ Address \ S \in SUBSET Address
        /\ S \cap (Address \ S) = {}
        /\ S \cup (Address \ S) = Address
    OBVIOUS
  <1>2. Supply(d) = SupplyOf(d, S) + SupplyOf(d, Address \ S)
    BY <1>1, SupplyDisjoint DEF Supply
  <1>3. SupplyOf(d, S) \in Nat /\ SupplyOf(d, Address \ S) \in Nat
    BY <1>1, CoinsFinite
  <1>4. QED
    BY <1>2, <1>3

(* A transfer whose accounts together hold no more than MaxUint64 fails    *)
(* with ErrInvalidBalance only when the sender holds too little.           *)
LEMMA ExecuteNoOverflow ==
  ASSUME NEW d \in Database, NEW scope, NEW S \in SUBSET Address,
         NEW actor \in S, NEW transfer \in TransferAction, transfer.to \in S,
         SupplyOf(d, S) <= MaxUint64,
         Execute(d, scope, actor, transfer).err = "ErrInvalidBalance"
  PROVE  GetBalance(d, actor) < transfer.value
  <1> DEFINE sub == SubBalance(d, scope, actor, transfer.value)
             add == Credit(sub.db, scope, transfer.to, transfer.value)
  <1>1. transfer.value \in Balance /\ transfer.value \in Nat
    BY BalanceNat DEF TransferAction
  <1>2. CASE sub.err # "nil"
    <2>1. sub.err = "ErrInvalidBalance"
      BY <1>2 DEF Execute, Validate
    <2>2. Exists(d, scope, actor) /\ d[actor] \in Balance
      BY <2>1 DEF SubBalance, Outcome, Exists, Database, Record
    <2>3. d[actor] < transfer.value
      <3>1. SUFFICES ASSUME ~ (d[actor] < transfer.value) PROVE FALSE
        OBVIOUS
      <3>2. d[actor] = transfer.value \/ d[actor] > transfer.value
        BY <1>1, <2>2, <3>1, BalanceNat
      <3>3. sub.err \in {"nil", "ErrInvalidKeyOrPermission"}
        BY <1>1, <2>2, <3>1, <3>2, BalanceNat DEF SubBalance, Remove, Insert, Outcome
      <3>4. QED
        BY <2>1, <3>3
    <2>4. QED
      BY <2>2, <2>3 DEF GetBalance, Exists
  <1>3. CASE sub.err = "nil"
    <2>1. sub.db \in Database
      BY <1>1, SubBalanceType
    <2>2. add.err = "ErrInvalidBalance"
      BY <1>3 DEF Execute, Validate
    <2>3. GetBalance(sub.db, transfer.to) + transfer.value > MaxUint64
      BY <2>2 DEF Credit, AddBalance, Insert, Outcome
    <2>4. SupplyOf(sub.db, S) + transfer.value = SupplyOf(d, S)
      BY <1>1, <1>3, SubBalanceSupply
    <2>5. SupplyOf(sub.db, S)
            = GetBalance(sub.db, transfer.to) + SupplyOf(sub.db, S \ {transfer.to})
      BY <2>1, SupplySplit
    <2>6. /\ SupplyOf(sub.db, S \ {transfer.to}) \in Nat
          /\ GetBalance(sub.db, transfer.to) \in Nat
          /\ MaxUint64 \in Nat
      BY <2>1, CoinsFinite, GetBalanceType, BalanceNat, StorageAssumption,
         S \ {transfer.to} \in SUBSET Address
    <2>7. QED
      BY <1>1, <2>3, <2>4, <2>5, <2>6
  <1>4. QED
    BY <1>2, <1>3

(* The coins of the accounts a transaction under way declared fit in 64    *)
(* bits, in its view too.                                                  *)
LEMMA ViewFits ==
  ASSUME SupplyInv, NEW t \in Tx, Active(t)
  PROVE  SupplyOf(view[t], Keys(t)) <= MaxUint64
  <1>1. TypeOK /\ Keys(t) \in SUBSET Address
    BY ActorInKeys DEF SupplyInv
  <1>2. SupplyOf(view[t], Keys(t)) + block[t].fee = SupplyOf(db, Keys(t))
    BY DEF SupplyInv, ViewsBalanced
  <1>3. SupplyOf(db, Keys(t)) <= Supply(db)
    BY <1>1, SupplyMonotone
  <1>4. Supply(db) + burned <= MaxUint64
    BY DEF SupplyInv, SupplyConserved
  <1>5. /\ SupplyOf(view[t], Keys(t)) \in Nat
        /\ SupplyOf(db, Keys(t)) \in Nat
        /\ Supply(db) \in Nat
    BY <1>1, CoinsFinite DEF Supply
  <1>6. block[t].fee \in Nat /\ burned \in Nat /\ MaxUint64 \in Nat
    BY <1>1, BlockTypes, BalanceNat, StorageAssumption DEF TypeOK
  <1>7. QED
    BY <1>2, <1>3, <1>4, <1>5, <1>6

(* No credit overflows, in whatever interleaving: the 64 bits that hold    *)
(* the genesis supply hold every balance that transfers can build up.      *)
THEOREM CreditsNeverOverflow == Spec => []AddNeverOverflows
  <1>1. ASSUME SupplyInv PROVE AddNeverOverflows
    <2>1. SUFFICES ASSUME NEW t \in Tx, phase[t] = "running",
                          next[t] <= Len(block[t].actions),
                          NextAction(t).err = "ErrInvalidBalance"
                   PROVE  GetBalance(view[t], block[t].actor)
                            < block[t].actions[next[t]].value
      BY DEF AddNeverOverflows
    <2>2. TypeOK
      BY <1>1 DEF SupplyInv
    <2>3. next[t] \in 1 .. Len(block[t].actions)
      BY <2>1, <2>2, BlockTypes DEF TypeOK
    <2>4. /\ Keys(t) \in SUBSET Address
          /\ block[t].actor \in Keys(t)
          /\ block[t].actions[next[t]] \in TransferAction
          /\ block[t].actions[next[t]].to \in Keys(t)
          /\ view[t] \in Database
      BY <2>2, <2>3, BlockTypes, ActorInKeys, RecipientInKeys DEF TypeOK
    <2>5. SupplyOf(view[t], Keys(t)) <= MaxUint64
      BY <1>1, <2>1, ViewFits DEF Active
    <2>6. QED
      BY <2>1, <2>4, <2>5, ExecuteNoOverflow DEF NextAction
  <1>2. QED
    BY <1>1, SupplyInvariant, PTL
-----------------------------------------------------------------------------
(* A scope that lets the actor read and write, and the recipient be        *)
(* created as well, is as good as every permission on every key.           *)
LEMMA SubBalanceScope ==
  ASSUME NEW d \in Database, NEW scope, NEW a \in Address, NEW amount \in Balance,
         {"Read", "Write"} \subseteq scope[a]
  PROVE  SubBalance(d, scope, a, amount) = SubBalance(d, FullScope, a, amount)
  <1>1. {"Read", "Write"} \subseteq FullScope[a]
    BY DEF FullScope, Permission
  <1>2. Exists(d, scope, a) <=> Exists(d, FullScope, a)
    BY <1>1 DEF Exists, CanRead
  <1>3. CASE d[a] = Absent
    BY <1>3, <1>2 DEF SubBalance, Exists
  <1>4. CASE d[a] # Absent
    <2>1. \A bal : Insert(d, scope, a, bal) = Insert(d, FullScope, a, bal)
      BY <1>1, <1>4 DEF Insert
    <2>2. Remove(d, scope, a) = Remove(d, FullScope, a)
      BY <1>1 DEF Remove
    <2>3. d[a] \in Nat /\ amount \in Nat
      BY <1>4, BalanceNat DEF Database, Record
    <2>4. Insert(d, scope, a, d[a] - amount) = Insert(d, FullScope, a, d[a] - amount)
      BY <2>1
    <2>5. Exists(d, scope, a) /\ Exists(d, FullScope, a)
      BY <1>1, <1>4 DEF Exists, CanRead
    <2>6. d[a] < amount \/ d[a] = amount \/ d[a] > amount
      BY <2>3
    <2>7. CASE d[a] < amount
      BY <2>3, <2>5, <2>7 DEF SubBalance
    <2>8. CASE d[a] = amount
      BY <2>2, <2>3, <2>5, <2>8 DEF SubBalance
    <2>9. CASE d[a] > amount
      BY <2>3, <2>4, <2>5, <2>9 DEF SubBalance
    <2>10. QED
      BY <2>6, <2>7, <2>8, <2>9
  <1>5. QED
    BY <1>3, <1>4

LEMMA CreditScope ==
  ASSUME NEW d, NEW scope, NEW a \in Address, NEW amount, Permission \subseteq scope[a]
  PROVE  Credit(d, scope, a, amount) = Credit(d, FullScope, a, amount)
  <1>1. \A bal : Insert(d, scope, a, bal) = Insert(d, FullScope, a, bal)
    BY DEF Insert, FullScope, Permission
  <1>2. CanRead(scope, a) /\ CanRead(FullScope, a)
    BY DEF CanRead, FullScope, Permission
  <1>3. QED
    BY <1>1, <1>2 DEF Credit, AddBalance

LEMMA ExecuteScope ==
  ASSUME NEW d \in Database, NEW scope, NEW actor \in Address,
         NEW transfer \in TransferAction,
         {"Read", "Write"} \subseteq scope[actor],
         Permission \subseteq scope[transfer.to]
  PROVE  Execute(d, scope, actor, transfer) = Execute(d, FullScope, actor, transfer)
  <1>1. transfer.value \in Balance /\ transfer.to \in Address
    BY DEF TransferAction
  <1>2. SubBalance(d, scope, actor, transfer.value)
          = SubBalance(d, FullScope, actor, transfer.value)
    BY <1>1, SubBalanceScope
  <1>3. \A e : Credit(e, scope, transfer.to, transfer.value)
                 = Credit(e, FullScope, transfer.to, transfer.value)
    BY <1>1, CreditScope
  <1>4. QED
    BY <1>2, <1>3 DEF Execute

(* What a transaction declares for its actor and for a recipient. *)
LEMMA DeclaredForActor ==
  ASSUME TypeOK, NEW t \in Tx
  PROVE  {"Read", "Write"} \subseteq DeclaredScope(block[t])[block[t].actor]
  BY BlockTypes DEF DeclaredScope, SponsorStateKeys

LEMMA DeclaredForRecipient ==
  ASSUME TypeOK, NEW t \in Tx, NEW i \in 1 .. Len(block[t].actions)
  PROVE  Permission \subseteq DeclaredScope(block[t])[block[t].actions[i].to]
  <1> DEFINE to == block[t].actions[i].to
  <1>1. to \in Address /\ i \in DOMAIN block[t].actions
    BY BlockTypes DEF TransactionRecord, TransferAction
  <1>2. StateKeys(block[t].actor, block[t].actions[i])[to] = Permission
    BY <1>1 DEF StateKeys
  <1>3. QED
    BY <1>1, <1>2 DEF DeclaredScope

(* Whatever the block, an action or a fee does on its view what it would   *)
(* do with every permission: what the two StateKeys declare is enough,     *)
(* also for an account that sends to itself.                               *)
THEOREM DeclaredScopeSuffices == Spec => []ScopeSuffices
  <1>1. ASSUME TypeOK PROVE ScopeSuffices
    <2>1. ASSUME NEW t \in Tx, next[t] <= Len(block[t].actions)
          PROVE  NextAction(t) = Execute(view[t], FullScope, block[t].actor,
                                         block[t].actions[next[t]])
      <3>1. next[t] \in 1 .. Len(block[t].actions)
        BY <1>1, <2>1, BlockTypes DEF TypeOK
      <3>2. /\ view[t] \in Database
            /\ block[t].actor \in Address
            /\ block[t].actions[next[t]] \in TransferAction
        BY <1>1, <3>1, BlockTypes DEF TypeOK
      <3>3. QED
        BY <1>1, <3>1, <3>2, DeclaredForActor, DeclaredForRecipient, ExecuteScope
        DEF NextAction
    <2>2. ASSUME NEW t \in Tx
          PROVE  FeeCheck(t, db) = CanDeduct(db, FullScope, block[t].actor, block[t].fee)
      <3>1. /\ CanRead(DeclaredScope(block[t]), block[t].actor)
            /\ CanRead(FullScope, block[t].actor)
        BY <1>1, DeclaredForActor, BlockTypes DEF CanRead, FullScope, Permission
      <3>2. QED
        BY <3>1 DEF FeeCheck, CanDeduct
    <2>3. ASSUME NEW t \in Tx
          PROVE  FeeCharge(t, db) = Deduct(db, FullScope, block[t].actor, block[t].fee)
      BY <1>1, BlockTypes, DeclaredForActor, SubBalanceScope
      DEF TypeOK, FeeCharge, Deduct
    <2>4. QED
      BY <2>1, <2>2, <2>3 DEF ScopeSuffices
  <1>2. QED
    BY <1>1, TypeCorrect, PTL
-----------------------------------------------------------------------------
(* A deduction that fails although its check passed is one of zero from an *)
(* account without a record.                                               *)
LEMMA AbortOfZero ==
  ASSUME TypeOK, NEW t \in Tx, Abort(t)
  PROVE  /\ block[t].fee = 0
         /\ db[block[t].actor] = Absent
         /\ err'[t] = "ErrInvalidAddress"
  <1> DEFINE actor == block[t].actor
             scope == DeclaredScope(block[t])
             fee   == block[t].fee
  <1>1. actor \in Address /\ fee \in Nat /\ db[actor] \in Record
    BY BlockTypes, BalanceNat DEF TypeOK, Database
  <1>2. "Read" \in scope[actor] /\ "Write" \in scope[actor]
    BY DeclaredForActor
  <1>3. GetBalance(db, actor) \in Nat
    BY <1>1, GetBalanceType, BalanceNat DEF TypeOK
  <1>4. ~ (GetBalance(db, actor) < fee)
    BY <1>2 DEF Abort, FeeCheck, CanDeduct, CanRead
  <1>5. db[actor] = Absent
    <2>1. SUFFICES ASSUME db[actor] # Absent
                   PROVE  FeeCharge(t, db).err = "nil"
      BY DEF Abort
    <2>2. Exists(db, scope, actor) /\ GetBalance(db, actor) = db[actor]
      BY <1>2, <2>1 DEF Exists, CanRead, GetBalance
    <2>3. db[actor] = fee \/ db[actor] > fee
      BY <1>1, <1>3, <1>4, <2>2
    <2>4. CASE db[actor] = fee
      BY <1>1, <1>2, <2>2, <2>4 DEF FeeCharge, Deduct, SubBalance, Remove, Outcome
    <2>5. CASE db[actor] > fee
      BY <1>1, <1>2, <1>3, <2>1, <2>2, <2>5
      DEF FeeCharge, Deduct, SubBalance, Insert, Outcome
    <2>6. QED
      BY <2>3, <2>4, <2>5
  <1>6. fee = 0
    BY <1>1, <1>4, <1>5 DEF GetBalance
  <1>7. FeeCharge(t, db).err = "ErrInvalidAddress"
    BY <1>5 DEF FeeCharge, Deduct, SubBalance, Exists, Outcome
  <1>8. QED
    BY <1>5, <1>6, <1>7 DEF Abort, TypeOK

(* CanDeduct and Deduct disagree in that one case only, in whatever block  *)
(* and interleaving.                                                       *)
THEOREM DeductionFollowsCheck == Spec => []DeductFollowsCheck
  <1>1. Init => DeductFollowsCheck
    BY DEF Init, DeductFollowsCheck
  <1>2. ASSUME TypeOK, DeductFollowsCheck, [Next]_vars PROVE DeductFollowsCheck'
    <2>1. ASSUME NEW t \in Tx, Abort(t) PROVE DeductFollowsCheck'
      <3>1. block' = block /\ \A s \in Tx \ {t} : phase'[s] = phase[s] /\ err'[s] = err[s]
        BY <1>2, <2>1 DEF Abort, TypeOK
      <3>2. QED
        BY <1>2, <2>1, <3>1, AbortOfZero DEF DeductFollowsCheck
    <2>2. ASSUME NEW t \in Tx,
                 Reject(t) \/ Begin(t) \/ RunAction(t) \/ FailAction(t) \/ Finish(t) \/ Commit(t)
          PROVE  DeductFollowsCheck'
      <3>1. /\ block' = block
            /\ phase'[t] # "aborted"
            /\ \A s \in Tx \ {t} : phase'[s] = phase[s] /\ err'[s] = err[s]
        BY <1>2, <2>2
        DEF Reject, Begin, RunAction, FailAction, Finish, Commit, TypeOK
      <3>2. QED
        BY <1>2, <3>1 DEF DeductFollowsCheck
    <2>3. CASE UNCHANGED vars
      BY <1>2, <2>3 DEF vars, DeductFollowsCheck
    <2>4. QED
      BY <1>2, <2>1, <2>2, <2>3 DEF Next, Step, Terminating
  <1>3. QED
    BY <1>1, <1>2, TypeCorrect, PTL DEF Spec

(* A view under way holds the database's coins of its accounts, less the   *)
(* fee, between any two of its actions: part of the inductive invariant.   *)
THEOREM ViewsStayBalanced == Spec => []ViewsBalanced
  <1>1. SupplyInv => ViewsBalanced
    BY DEF SupplyInv
  <1>2. QED
    BY <1>1, SupplyInvariant, PTL
-----------------------------------------------------------------------------
(* The balances a database holds, as plain numbers. *)
Balances(d) == [a \in Address |-> GetBalance(d, a)]
Plain       == [Address -> Int]

(* Balances are integers, as the bank's are.                               *)
LEMMA BalanceInt == \A n \in Balance : n \in Int
  BY StorageAssumption DEF Balance

LEMMA BalancesPlain ==
  ASSUME NEW d \in Database
  PROVE  Balances(d) \in Plain
  <1>1. \A a \in Address : GetBalance(d, a) \in Int
    BY GetBalanceType, BalanceInt
  <1>2. QED
    BY <1>1 DEF Balances, Plain

(* Payments and fees lead from balances to balances.                       *)
LEMMA PayType ==
  ASSUME NEW bal \in Plain, NEW from \in Address, NEW p \in TransferAction
  PROVE  Bank!Pay(bal, from, p) \in Plain
  <1>1. p.value \in Int /\ p.to \in Address
    <2>1. p.value \in Balance /\ p.to \in Address
      BY DEF TransferAction
    <2>2. QED
      BY <2>1, BalanceInt
  <1> DEFINE debited == [bal EXCEPT ![from] = @ - p.value]
  <1>2. debited \in Plain
    BY <1>1 DEF Plain
  <1>3. [debited EXCEPT ![p.to] = @ + p.value] \in Plain
    BY <1>1, <1>2 DEF Plain
  <1>4. QED
    BY <1>3 DEF Bank!Pay

LEMMA ChargeType ==
  ASSUME NEW bal \in Plain, NEW tx \in TransactionRecord
  PROVE  Bank!Charge(bal, tx) \in Plain
  <1>1. tx.fee \in Int /\ tx.actor \in Address
    <2>1. tx.fee \in Balance /\ tx.actor \in Address
      BY DEF TransactionRecord
    <2>2. QED
      BY <2>1, BalanceInt
  <1>2. QED
    BY <1>1 DEF Plain, Bank!Charge

(* What a transaction is made of. *)
LEMMA RecordTypes ==
  ASSUME NEW tx \in TransactionRecord
  PROVE  /\ tx.actor \in Address
         /\ tx.fee \in Int
         /\ Len(tx.actions) \in Nat
         /\ DOMAIN tx.actions = 1 .. Len(tx.actions)
         /\ \A k \in 1 .. Len(tx.actions) : /\ tx.actions[k] \in TransferAction
                                            /\ tx.actions[k].to \in Address
                                            /\ tx.actions[k].value \in Int
  <1>1. tx.actor \in Address /\ tx.fee \in Balance /\ tx.actions \in Seq(TransferAction)
    BY DEF TransactionRecord
  <1>2. \A k \in 1 .. Len(tx.actions) : tx.actions[k] \in TransferAction
    BY <1>1
  <1>3. \A p \in TransferAction : p.to \in Address /\ p.value \in Balance
    BY DEF TransferAction
  <1>4. Len(tx.actions) \in Nat /\ DOMAIN tx.actions = 1 .. Len(tx.actions)
    BY <1>1
  <1>5. QED
    BY <1>1, <1>2, <1>3, <1>4, BalanceInt

(* The recursion over the payments of a transaction defines balances:      *)
(* after the fee first, and then after each payment.                       *)
LEMMA PaymentsDef ==
  ASSUME NEW bal \in Plain, NEW tx \in TransactionRecord
  PROVE  LET after == Bank!AfterPayments(bal, tx)
         IN  /\ after \in [0 .. Len(tx.actions) -> Plain]
             /\ after[0] = Bank!Charge(bal, tx)
             /\ \A k \in 1 .. Len(tx.actions) :
                  after[k] = Bank!Pay(after[k - 1], tx.actor, tx.actions[k])
  <1> DEFINE n == Len(tx.actions)
             start == Bank!Charge(bal, tx)
             Made(b, k) == Bank!Pay(b, tx.actor, tx.actions[k])
             step == [v \in Plain \X (1 .. n) |-> Made(v[1], v[2])]
             after == Bank!AfterPayments(bal, tx)
             Body(f) == [k \in 0 .. n |-> IF k = 0 THEN start ELSE Made(f[k - 1], k)]
  <1>1. n \in Nat /\ start \in Plain /\ \A b \in Plain, k \in 1 .. n : Made(b, k) \in Plain
    BY RecordTypes, PayType, ChargeType
  <1>2. after = CHOOSE f : f = Body(f)
    BY DEF Bank!AfterPayments
  <1> HIDE DEF start, Made, after, n
  <1>3. step \in [Plain \X (1 .. n) -> Plain]
    BY <1>1
  <1>4. \A b \in Plain, k \in 1 .. n : step[<<b, k>>] = Made(b, k)
    OBVIOUS
  <1> HIDE DEF step
  <1>5. PICK g : Iterates(g, n, Plain, start, step)
    <2>1. n \in Nat /\ start \in Plain
      BY <1>1
    <2>2. QED
      BY <2>1, <1>3, PrimitiveRecursion
  <1>6. \A k \in 1 .. n : k - 1 \in 0 .. n /\ k \in 0 .. n /\ k # 0
    BY <1>1
  <1>7. \A k \in 1 .. n : g[k] = Made(g[k - 1], k)
    BY <1>4, <1>5, <1>6 DEF Iterates
  <1>8. \A k \in 0 .. n : k = 0 \/ k \in 1 .. n
    BY <1>1
  <1>9. g = Body(g)
    BY <1>5, <1>7, <1>8 DEF Iterates
  <1>10. after = Body(after)
    BY <1>2, <1>9
  <1>11. /\ after[0] = start
         /\ \A k \in 1 .. n : after[k] = Made(after[k - 1], k)
         /\ after = [k \in 0 .. n |-> after[k]]
    <2>1. 0 \in 0 .. n
      BY <1>1
    <2>2. \A k \in 0 .. n : after[k] = IF k = 0 THEN start ELSE Made(after[k - 1], k)
      BY <1>10
    <2>3. after = [k \in 0 .. n |-> after[k]]
      BY <1>10
    <2>4. after[0] = start
      BY <2>1, <2>2
    <2>5. \A k \in 1 .. n : after[k] = Made(after[k - 1], k)
      BY <1>6, <2>2
    <2>6. QED
      BY <2>3, <2>4, <2>5
  <1>12. after \in [0 .. n -> Plain]
    <2>1. n \in Nat /\ after[0] \in Plain
      BY <1>1, <1>11
    <2>2. \A k \in 1 .. n : after[k - 1] \in Plain => after[k] \in Plain
      BY <1>1, <1>11
    <2>3. QED
      BY <1>11, <2>1, <2>2, RangeByInduction
  <1>13. QED
    BY <1>11, <1>12 DEF start, Made, after, n

(* What a payment does to each account. *)
LEMMA PayEffect ==
  ASSUME NEW bal \in Plain, NEW from \in Address, NEW p \in TransferAction,
         NEW a \in Address
  PROVE  Bank!Pay(bal, from, p)[a]
           = (IF a = from THEN bal[a] - p.value ELSE bal[a])
               + (IF a = p.to THEN p.value ELSE 0)
  <1> DEFINE debited == [bal EXCEPT ![from] = @ - p.value]
  <1>1. p.value \in Int /\ p.to \in Address
    <2>1. p.value \in Balance /\ p.to \in Address
      BY DEF TransferAction
    <2>2. QED
      BY <2>1, BalanceInt
  <1>2. debited \in Plain /\ debited[a] = IF a = from THEN bal[a] - p.value ELSE bal[a]
    BY <1>1 DEF Plain
  <1>3. [debited EXCEPT ![p.to] = @ + p.value][a]
          = IF a = p.to THEN debited[a] + p.value ELSE debited[a]
    BY <1>1, <1>2 DEF Plain
  <1>4. Bank!Pay(bal, from, p)[a] = IF a = p.to THEN debited[a] + p.value ELSE debited[a]
    BY <1>3 DEF Bank!Pay
  <1>5. debited[a] \in Int
    BY <1>2 DEF Plain
  <1> HIDE DEF debited
  <1>6. QED
    BY <1>1, <1>2, <1>4, <1>5

(* What the fee does to each account.                                      *)
LEMMA ChargeEffect ==
  ASSUME NEW bal \in Plain, NEW tx \in TransactionRecord, NEW a \in Address
  PROVE  Bank!Charge(bal, tx)[a] = IF a = tx.actor THEN bal[a] - tx.fee ELSE bal[a]
  BY RecordTypes DEF Plain, Bank!Charge

(* A payment is about its two parties: it leaves every other account, and  *)
(* what it makes of some accounts depends on what these hold.              *)
LEMMA PayLocal ==
  ASSUME NEW b \in Plain, NEW c \in Plain, NEW from \in Address,
         NEW p \in TransferAction, NEW a \in Address
  PROVE  /\ b[a] = c[a] => Bank!Pay(b, from, p)[a] = Bank!Pay(c, from, p)[a]
         /\ a # from /\ a # p.to => Bank!Pay(b, from, p)[a] = b[a]
  <1>1. b[a] = c[a] => Bank!Pay(b, from, p)[a] = Bank!Pay(c, from, p)[a]
    BY PayEffect
  <1>2. ASSUME a # from, a # p.to PROVE Bank!Pay(b, from, p)[a] = b[a]
    <2>1. Bank!Pay(b, from, p)[a] = b[a] + 0 /\ b[a] \in Int
      BY <1>2, PayEffect DEF Plain
    <2>2. QED
      BY <2>1
  <1>3. QED
    BY <1>1, <1>2

(* The bank's parties of a transaction.                                    *)
LEMMA PartiesIn ==
  ASSUME NEW tx \in TransactionRecord
  PROVE  /\ tx.actor \in Bank!Parties(tx)
         /\ \A k \in 1 .. Len(tx.actions) : tx.actions[k].to \in Bank!Parties(tx)
         /\ Bank!Parties(tx) \subseteq Address
  BY RecordTypes DEF Bank!Parties

(* The same of the payments of a transaction one after the other. *)
LEMMA PaymentsLocal ==
  ASSUME NEW b \in Plain, NEW c \in Plain, NEW tx \in TransactionRecord,
         NEW a \in Address
  PROVE  \A k \in 0 .. Len(tx.actions) :
           /\ b[a] = c[a] => Bank!AfterPayments(b, tx)[k][a]
                               = Bank!AfterPayments(c, tx)[k][a]
           /\ a \notin Bank!Parties(tx) => Bank!AfterPayments(b, tx)[k][a] = b[a]
  <1> DEFINE n == Len(tx.actions)
             f == Bank!AfterPayments(b, tx)
             g == Bank!AfterPayments(c, tx)
             S == {k \in 0 .. n : /\ b[a] = c[a] => f[k][a] = g[k][a]
                                  /\ a \notin Bank!Parties(tx) => f[k][a] = b[a]}
  <1>1. /\ n \in Nat
        /\ f \in [0 .. n -> Plain] /\ f[0] = Bank!Charge(b, tx)
        /\ g \in [0 .. n -> Plain] /\ g[0] = Bank!Charge(c, tx)
        /\ \A k \in 1 .. n : /\ f[k] = Bank!Pay(f[k - 1], tx.actor, tx.actions[k])
                             /\ g[k] = Bank!Pay(g[k - 1], tx.actor, tx.actions[k])
    BY RecordTypes, PaymentsDef
  <1> HIDE DEF f, g
  <1>2. 0 \in S
    <2>1. 0 \in 0 .. n
      BY <1>1
    <2>2. b[a] = c[a] => f[0][a] = g[0][a]
      BY <1>1, ChargeEffect
    <2>3. a \notin Bank!Parties(tx) => f[0][a] = b[a]
      BY <1>1, ChargeEffect, PartiesIn
    <2>4. QED
      BY <2>1, <2>2, <2>3
  <1>3. ASSUME NEW k \in 1 .. n, k - 1 \in S PROVE k \in S
    <2>1. k \in 0 .. n /\ k - 1 \in 0 .. n
      BY <1>1
    <2>2. /\ f[k - 1] \in Plain /\ g[k - 1] \in Plain
          /\ tx.actor \in Address /\ tx.actions[k] \in TransferAction
      BY <1>1, <2>1, RecordTypes
    <2>3. b[a] = c[a] => f[k][a] = g[k][a]
      <3>1. b[a] = c[a] => f[k - 1][a] = g[k - 1][a]
        BY <1>3
      <3>2. QED
        BY <1>1, <2>2, <3>1, PayLocal
    <2>4. a \notin Bank!Parties(tx) => f[k][a] = b[a]
      <3>1. a \notin Bank!Parties(tx) => a # tx.actor /\ a # tx.actions[k].to
        BY PartiesIn
      <3>2. a \notin Bank!Parties(tx) => f[k - 1][a] = b[a]
        BY <1>3
      <3>3. QED
        BY <1>1, <2>2, <3>1, <3>2, PayLocal
    <2>5. QED
      BY <2>1, <2>3, <2>4
  <1>4. 0 .. n \subseteq S
    <2> HIDE DEF S, n
    <2>1. QED
      BY <1>1, <1>2, <1>3, FiniteInduction
  <1>5. QED
    BY <1>4 DEF f, g

(* Transaction tx, settled on the balances bal, can make its k-th payment. *)
CanMake(bal, tx, k) ==
  Bank!CanPay(Bank!AfterPayments(bal, tx)[k - 1], tx.actor, tx.actions[k])

(* Refused if the fee is not covered, done if all payments can be made.    *)
LEMMA VerdictIs ==
  ASSUME NEW bal \in Plain, NEW tx \in TransactionRecord
  PROVE  Bank!Verdict(bal, tx) =
           IF bal[tx.actor] < tx.fee THEN "refused"
           ELSE IF \A k \in 1 .. Len(tx.actions) : CanMake(bal, tx, k) THEN "done"
           ELSE "failed"
  BY RecordTypes DEF Bank!Verdict, CanMake

(* What becomes of a transaction depends on its sender's balance only. *)
LEMMA VerdictLocal ==
  ASSUME NEW b \in Plain, NEW c \in Plain, NEW tx \in TransactionRecord,
         b[tx.actor] = c[tx.actor]
  PROVE  /\ \A k \in 1 .. Len(tx.actions) : CanMake(b, tx, k) <=> CanMake(c, tx, k)
         /\ Bank!Verdict(b, tx) = Bank!Verdict(c, tx)
  <1>1. ASSUME NEW k \in 1 .. Len(tx.actions)
        PROVE  CanMake(b, tx, k) <=> CanMake(c, tx, k)
    <2>1. k - 1 \in 0 .. Len(tx.actions) /\ tx.actor \in Address
      BY RecordTypes
    <2>2. Bank!AfterPayments(b, tx)[k - 1][tx.actor]
            = Bank!AfterPayments(c, tx)[k - 1][tx.actor]
      BY <2>1, PaymentsLocal
    <2>3. QED
      BY <2>2 DEF CanMake, Bank!CanPay
  <1>2. QED
    BY <1>1, VerdictIs

(* A transaction settled touches the accounts it is about, and what it     *)
(* makes of an account does not depend on the accounts it is not about.    *)
LEMMA SettledLocal ==
  ASSUME NEW b \in Plain, NEW c \in Plain, NEW tx \in TransactionRecord,
         b[tx.actor] = c[tx.actor], NEW a \in Address
  PROVE  /\ b[a] = c[a] => Bank!Settled(b, tx)[a] = Bank!Settled(c, tx)[a]
         /\ a \notin Bank!Parties(tx) => Bank!Settled(b, tx)[a] = b[a]
  <1> DEFINE n == Len(tx.actions)
  <1>1. 0 \in 0 .. n /\ n \in 0 .. n
    BY RecordTypes
  <1>2. /\ Bank!AfterPayments(b, tx)[0] = Bank!Charge(b, tx)
        /\ Bank!AfterPayments(c, tx)[0] = Bank!Charge(c, tx)
    BY PaymentsDef
  <1>3. /\ b[a] = c[a] =>
             /\ Bank!Charge(b, tx)[a] = Bank!Charge(c, tx)[a]
             /\ Bank!AfterPayments(b, tx)[n][a] = Bank!AfterPayments(c, tx)[n][a]
        /\ a \notin Bank!Parties(tx) =>
             /\ Bank!Charge(b, tx)[a] = b[a]
             /\ Bank!AfterPayments(b, tx)[n][a] = b[a]
    BY <1>1, <1>2, PaymentsLocal
  <1>4. Bank!Verdict(b, tx) = Bank!Verdict(c, tx)
    BY VerdictLocal
  <1>5. Bank!Verdict(b, tx) \in {"refused", "done", "failed"}
    BY VerdictIs
  <1>6. QED
    BY <1>3, <1>4, <1>5 DEF Bank!Settled

LEMMA SettledType ==
  ASSUME NEW bal \in Plain, NEW tx \in TransactionRecord
  PROVE  Bank!Settled(bal, tx) \in Plain
  <1>1. Bank!Verdict(bal, tx) \in {"refused", "done", "failed"}
    BY VerdictIs
  <1>2. Bank!AfterPayments(bal, tx)[Len(tx.actions)] \in Plain
    BY PaymentsDef, RecordTypes
  <1>3. Bank!Charge(bal, tx) \in Plain
    BY ChargeType
  <1>4. QED
    BY <1>1, <1>2, <1>3 DEF Bank!Settled
-----------------------------------------------------------------------------
(* A block settled in order: after each transaction. *)
LEMMA InOrderDef ==
  ASSUME NEW bal \in Plain, NEW txs \in [1 .. N -> TransactionRecord]
  PROVE  LET after == Bank!InOrder(txs, bal)
         IN  /\ after \in [0 .. N -> Plain]
             /\ after[0] = bal
             /\ \A k \in 1 .. N : after[k] = Bank!Settled(after[k - 1], txs[k])
  <1> DEFINE Next1(b, k) == Bank!Settled(b, txs[k])
             step == [v \in Plain \X (1 .. N) |-> Next1(v[1], v[2])]
             after == Bank!InOrder(txs, bal)
             Body(f) == [k \in 0 .. N |-> IF k = 0 THEN bal ELSE Next1(f[k - 1], k)]
  <1>1. N \in Nat /\ \A b \in Plain, k \in 1 .. N : Next1(b, k) \in Plain
    BY BlockAssumption, SettledType
  <1>2. after = CHOOSE f : f = Body(f)
    BY DEF Bank!InOrder
  <1> HIDE DEF Next1, after
  <1>3. step \in [Plain \X (1 .. N) -> Plain]
    BY <1>1
  <1>4. \A b \in Plain, k \in 1 .. N : step[<<b, k>>] = Next1(b, k)
    OBVIOUS
  <1> HIDE DEF step
  <1>5. PICK g : Iterates(g, N, Plain, bal, step)
    <2>1. N \in Nat
      BY <1>1
    <2>2. QED
      BY <2>1, <1>3, PrimitiveRecursion
  <1>6. \A k \in 1 .. N : k - 1 \in 0 .. N /\ k \in 0 .. N /\ k # 0
    BY <1>1
  <1>7. \A k \in 1 .. N : g[k] = Next1(g[k - 1], k)
    BY <1>4, <1>5, <1>6 DEF Iterates
  <1>8. \A k \in 0 .. N : k = 0 \/ k \in 1 .. N
    BY <1>1
  <1>9. g = Body(g)
    BY <1>5, <1>7, <1>8 DEF Iterates
  <1>10. after = Body(after)
    BY <1>2, <1>9
  <1>11. /\ after[0] = bal
         /\ \A k \in 1 .. N : after[k] = Next1(after[k - 1], k)
         /\ after = [k \in 0 .. N |-> after[k]]
    <2>1. 0 \in 0 .. N
      BY <1>1
    <2>2. \A k \in 0 .. N : after[k] = IF k = 0 THEN bal ELSE Next1(after[k - 1], k)
      BY <1>10
    <2>3. after = [k \in 0 .. N |-> after[k]]
      BY <1>10
    <2>4. after[0] = bal
      BY <2>1, <2>2
    <2>5. \A k \in 1 .. N : after[k] = Next1(after[k - 1], k)
      BY <1>6, <2>2
    <2>6. QED
      BY <2>3, <2>4, <2>5
  <1>12. after \in [0 .. N -> Plain]
    <2>1. N \in Nat /\ after[0] \in Plain
      BY <1>1, <1>11
    <2>2. \A k \in 1 .. N : after[k - 1] \in Plain => after[k] \in Plain
      BY <1>1, <1>11
    <2>3. QED
      BY <1>11, <2>1, <2>2, RangeByInduction
  <1>13. QED
    BY <1>11, <1>12 DEF Next1, after
-----------------------------------------------------------------------------
(* A transfer on a view is the payment on its balances, and fails when the *)
(* payment cannot be made.                                                 *)
LEMMA ExecuteIsPayment ==
  ASSUME NEW d \in Database, NEW S \in SUBSET Address, SupplyOf(d, S) <= MaxUint64,
         NEW from \in S, NEW transfer \in TransferAction, transfer.to \in S
  PROVE  LET done == Execute(d, FullScope, from, transfer)
         IN  /\ done.err = "nil" <=> Bank!CanPay(Balances(d), from, transfer)
             /\ done.err = "nil" => Balances(done.db) = Bank!Pay(Balances(d), from, transfer)
  <1> DEFINE done == Execute(d, FullScope, from, transfer)
             to == transfer.to
             value == transfer.value
             sub == SubBalance(d, FullScope, from, value)
             add == Credit(sub.db, FullScope, to, value)
  <1>1. /\ from \in Address /\ to \in Address /\ value \in Balance
        /\ value \in Nat /\ transfer.memo \in Nat /\ MaxMemoSize \in Nat
    <2>1. from \in Address /\ to \in Address /\ value \in Balance /\ transfer.memo \in Nat
      BY DEF TransferAction
    <2>2. QED
      BY <2>1, BalanceNat, MemoAssumption
  <1>2. GetBalance(d, from) \in Nat /\ Balances(d)[from] = GetBalance(d, from)
    BY <1>1, GetBalanceType, BalanceNat DEF Balances
  <1>3. Validate(transfer) = "nil" <=> value # 0 /\ ~ (transfer.memo > MaxMemoSize)
    BY DEF Validate
  <1>4. ASSUME Bank!CanPay(Balances(d), from, transfer) PROVE done.err = "nil"
    <2>1. value > 0 /\ transfer.memo <= MaxMemoSize /\ Balances(d)[from] >= value
      BY <1>4 DEF Bank!CanPay
    <2>2. value # 0 /\ ~ (transfer.memo > MaxMemoSize) /\ value <= GetBalance(d, from)
      BY <1>1, <1>2, <2>1
    <2>3. QED
      BY <1>3, <2>2, ExecuteSucceeds
  <1>5. ASSUME done.err = "nil"
        PROVE  /\ Bank!CanPay(Balances(d), from, transfer)
               /\ Balances(done.db) = Bank!Pay(Balances(d), from, transfer)
    <2>1. /\ Validate(transfer) = "nil" /\ sub.err = "nil" /\ add.err = "nil"
          /\ done.db = add.db
      BY <1>5 DEF Execute
    <2>2. /\ GetBalance(d, from) >= value
          /\ GetBalance(sub.db, from) = GetBalance(d, from) - value
          /\ \A x \in Address \ {from} : sub.db[x] = d[x]
      BY <1>1, <2>1, SubBalanceEffect
    <2>3. sub.db \in Database
      BY <1>1, SubBalanceType
    <2>4. /\ GetBalance(add.db, to) = GetBalance(sub.db, to) + value
          /\ \A x \in Address \ {to} : add.db[x] = sub.db[x]
      BY <1>1, <2>1, <2>3, CreditEffect
    <2>5. add.db \in Database
      BY <1>1, <2>3, CreditType
    <2>6. Bank!CanPay(Balances(d), from, transfer)
      <3>1. value > 0 /\ transfer.memo <= MaxMemoSize /\ Balances(d)[from] >= value
        BY <1>1, <1>2, <1>3, <2>1, <2>2
      <3>2. QED
        BY <3>1 DEF Bank!CanPay
    <2> HIDE DEF sub, add, done
    <2>7. ASSUME NEW a \in Address
          PROVE  Balances(add.db)[a] = Bank!Pay(Balances(d), from, transfer)[a]
      <3>1. /\ GetBalance(d, a) \in Int /\ GetBalance(sub.db, a) \in Int
            /\ GetBalance(add.db, a) \in Int
        BY <2>3, <2>5, GetBalanceType, BalanceInt
      <3>2. GetBalance(sub.db, a) = IF a = from THEN GetBalance(d, a) - value
                                                ELSE GetBalance(d, a)
        BY <2>2 DEF GetBalance
      <3>3. GetBalance(add.db, a) = IF a = to THEN GetBalance(sub.db, a) + value
                                              ELSE GetBalance(sub.db, a)
        BY <2>4 DEF GetBalance
      <3>4. Bank!Pay(Balances(d), from, transfer)[a]
              = (IF a = from THEN Balances(d)[a] - value ELSE Balances(d)[a])
                  + (IF a = to THEN value ELSE 0)
        BY <1>1, BalancesPlain, PayEffect
      <3>5. Balances(d)[a] = GetBalance(d, a) /\ Balances(add.db)[a] = GetBalance(add.db, a)
        BY DEF Balances
      <3> HIDE DEF to, value
      <3>6. QED
        BY <1>1, <3>1, <3>2, <3>3, <3>4, <3>5
    <2>8. Balances(add.db) = Bank!Pay(Balances(d), from, transfer)
      <3>1. Balances(add.db) \in Plain /\ Bank!Pay(Balances(d), from, transfer) \in Plain
        BY <1>1, <2>5, BalancesPlain, PayType
      <3>2. QED
        BY <2>7, <3>1 DEF Plain
    <2>9. QED
      BY <2>1, <2>6, <2>8
  <1>6. QED
    BY <1>4, <1>5
-----------------------------------------------------------------------------
(* The next action of a transaction is a payment on its view's balances.   *)
LEMMA NextActionIsPayment ==
  ASSUME SupplyInv, NEW t \in Tx, phase[t] = "running",
         next[t] <= Len(block[t].actions)
  PROVE  LET p == block[t].actions[next[t]]
             bal == Balances(view[t])
         IN  /\ NextAction(t).err = "nil" <=> Bank!CanPay(bal, block[t].actor, p)
             /\ NextAction(t).err = "nil" =>
                  Balances(NextAction(t).db) = Bank!Pay(bal, block[t].actor, p)
  <1>1. TypeOK /\ Active(t)
    BY DEF SupplyInv, Active
  <1>2. next[t] \in 1 .. Len(block[t].actions)
    BY <1>1, BlockTypes DEF TypeOK
  <1>3. /\ Keys(t) \in SUBSET Address
        /\ block[t].actor \in Keys(t)
        /\ block[t].actions[next[t]] \in TransferAction
        /\ block[t].actions[next[t]].to \in Keys(t)
        /\ view[t] \in Database
        /\ block[t].actor \in Address
    BY <1>1, <1>2, BlockTypes, ActorInKeys, RecipientInKeys DEF TypeOK
  <1>4. NextAction(t) = Execute(view[t], FullScope, block[t].actor,
                                block[t].actions[next[t]])
    BY <1>1, <1>2, <1>3, DeclaredForActor, DeclaredForRecipient, ExecuteScope
    DEF NextAction
  <1>5. QED
    BY <1>1, <1>3, <1>4, ViewFits, ExecuteIsPayment

(* The fee check compares the sender's balance with the fee; the charge,   *)
(* when it succeeds, is the bank's.                                        *)
LEMMA FeeIsCharge ==
  ASSUME TypeOK, NEW t \in Tx
  PROVE  /\ FeeCheck(t, db) = "nil" <=> ~ (Balances(db)[block[t].actor] < block[t].fee)
         /\ FeeCharge(t, db).err = "nil" =>
              Balances(FeeCharge(t, db).db) = Bank!Charge(Balances(db), block[t])
  <1> DEFINE actor == block[t].actor
             fee == block[t].fee
             done == FeeCharge(t, db).db
  <1>1. actor \in Address /\ fee \in Balance /\ db \in Database /\ fee \in Int
        /\ block[t] \in TransactionRecord
    BY BlockTypes, BalanceInt, BlockAssumption DEF TypeOK, Tx
  <1>2. Balances(db)[actor] = GetBalance(db, actor)
    BY <1>1 DEF Balances
  <1>3. FeeCheck(t, db) = "nil" <=> ~ (Balances(db)[actor] < fee)
    BY <1>1, <1>2, DeclaredForActor DEF FeeCheck, CanDeduct, CanRead
  <1>4. ASSUME FeeCharge(t, db).err = "nil"
        PROVE  Balances(done) = Bank!Charge(Balances(db), block[t])
    <2>1. /\ GetBalance(done, actor) = GetBalance(db, actor) - fee
          /\ \A x \in Address \ {actor} : done[x] = db[x]
          /\ done \in Database
      <3>1. FeeCharge(t, db) = SubBalance(db, DeclaredScope(block[t]), actor, fee)
        BY DEF FeeCharge, Deduct
      <3> HIDE DEF actor, fee
      <3>2. QED
        BY <1>1, <1>4, <3>1, SubBalanceEffect, SubBalanceType
    <2> HIDE DEF done
    <2>2. ASSUME NEW a \in Address
          PROVE  Balances(done)[a] = Bank!Charge(Balances(db), block[t])[a]
      <3>1. Bank!Charge(Balances(db), block[t])[a]
              = IF a = actor THEN Balances(db)[a] - fee ELSE Balances(db)[a]
        BY <1>1, BalancesPlain, ChargeEffect
      <3>2. GetBalance(done, a) = IF a = actor THEN GetBalance(db, a) - fee
                                               ELSE GetBalance(db, a)
        BY <2>1 DEF GetBalance
      <3>3. Balances(db)[a] = GetBalance(db, a) /\ Balances(done)[a] = GetBalance(done, a)
        BY DEF Balances
      <3>4. QED
        BY <3>1, <3>2, <3>3
    <2>3. Balances(done) \in Plain /\ Bank!Charge(Balances(db), block[t]) \in Plain
      BY <1>1, <2>1, BalancesPlain, ChargeType
    <2>4. QED
      BY <2>2, <2>3 DEF Plain
  <1>5. QED
    BY <1>3, <1>4
-----------------------------------------------------------------------------
(* Two sets of balances that are the same for the accounts S. *)
Agree(b, c, S) == \A a \in S : b[a] = c[a]

(* The balances after each payment of t, settled on the database as it is. *)
After(t) == Bank!AfterPayments(Balances(db), block[t])

(* Of the accounts it declared, the view of a transaction under way shows  *)
(* what the bank makes of them: after the payments made so far or, when    *)
(* one cannot be made, after the fee.                                      *)
Settling(t) ==
  /\ ~ (Balances(db)[block[t].actor] < block[t].fee)
  /\ Agree(Balances(paid[t]), After(t)[0], Keys(t))
  /\ \/ /\ err[t] = "nil"
        /\ phase[t] = "executed" => next[t] = Len(block[t].actions) + 1
        /\ \A k \in 1 .. next[t] - 1 : CanMake(Balances(db), block[t], k)
        /\ Agree(Balances(view[t]), After(t)[next[t] - 1], Keys(t))
     \/ /\ err[t] # "nil"
        /\ phase[t] = "executed"
        /\ \E k \in 1 .. Len(block[t].actions) : ~ CanMake(Balances(db), block[t], k)
        /\ view[t] = paid[t]

(* The inductive invariant of the refinement.                              *)
SettleInv ==
  /\ \A t \in Tx : phase[t] = "queued" => next[t] = 1 /\ err[t] = "nil"
  /\ \A t \in Tx : Active(t) => Settling(t)

LEMMA InitSettleInv == Init => SettleInv
  BY DEF Init, SettleInv, Active

LEMMA BlockRecord ==
  ASSUME TypeOK, NEW t \in Tx
  PROVE  block[t] \in TransactionRecord
  BY BlockAssumption DEF TypeOK, Tx

(* Every party of a transaction has its key declared.                      *)
LEMMA PartiesInKeys ==
  ASSUME TypeOK, NEW t \in Tx
  PROVE  /\ Parties(t) \subseteq Keys(t)
         /\ Parties(t) = Bank!Parties(block[t])
  <1>1. Parties(t) \subseteq Keys(t)
    BY ActorInKeys, RecipientInKeys, BlockTypes DEF Parties
  <1>2. Parties(t) = Bank!Parties(block[t])
    BY DEF Parties, Bank!Parties
  <1>3. QED
    BY <1>1, <1>2

(* A change of the database away from the accounts of a transaction under  *)
(* way changes nothing for it.                                             *)
LEMMA SettlingElsewhere ==
  ASSUME TypeOK, TypeOK', NEW t \in Tx, Settling(t), block' = block,
         view'[t] = view[t], paid'[t] = paid[t], phase'[t] = phase[t],
         next'[t] = next[t], err'[t] = err[t],
         \A a \in Keys(t) : db'[a] = db[a]
  PROVE  Settling(t)'
  <1> DEFINE b == Balances(db)
             c == Balances(db')
             tx == block[t]
             n == Len(tx.actions)
  <1>1. b \in Plain /\ c \in Plain /\ tx \in TransactionRecord
    BY BalancesPlain, BlockRecord DEF TypeOK
  <1>2. tx.actor \in Keys(t) /\ Keys(t) \in SUBSET Address
    BY ActorInKeys
  <1>3. \A a \in Keys(t) : b[a] = c[a]
    BY <1>2 DEF Balances, GetBalance
  <1>4. \A k \in 0 .. n, a \in Keys(t) :
          Bank!AfterPayments(b, tx)[k][a] = Bank!AfterPayments(c, tx)[k][a]
    BY <1>1, <1>2, <1>3, PaymentsLocal
  <1>5. \A k \in 1 .. n : CanMake(b, tx, k) <=> CanMake(c, tx, k)
    BY <1>1, <1>2, <1>3, VerdictLocal
  <1>6. /\ n \in Nat /\ next[t] \in Nat \ {0} /\ next[t] <= n + 1
        /\ 0 \in 0 .. n /\ next[t] - 1 \in 0 .. n
        /\ \A k \in 1 .. next[t] - 1 : k \in 1 .. n
    BY <1>1, RecordTypes DEF TypeOK
  <1>7. /\ Balances(db)' = c /\ After(t) = Bank!AfterPayments(b, tx)
        /\ After(t)' = Bank!AfterPayments(c, tx)
        /\ Keys(t)' = Keys(t) /\ Balances(view[t])' = Balances(view[t])
        /\ Balances(paid[t])' = Balances(paid[t])
    BY DEF After, Keys
  <1>8. QED
    BY <1>2, <1>3, <1>4, <1>5, <1>6, <1>7 DEF Settling, Agree

(* The fee is charged: no payment is made yet. *)
LEMMA BeginSettles ==
  ASSUME SupplyInv, SettleInv, NEW t \in Tx, Begin(t)
  PROVE  Settling(t)'
  <1>1. TypeOK /\ block[t] \in TransactionRecord /\ t \in Tx
    BY BlockRecord DEF SupplyInv
  <1>2. /\ phase[t] = "queued" /\ phase'[t] = "running"
        /\ view'[t] = FeeCharge(t, db).db /\ paid'[t] = FeeCharge(t, db).db
        /\ next'[t] = 1 /\ err'[t] = "nil"
        /\ block' = block /\ db' = db
        /\ FeeCheck(t, db) = "nil" /\ FeeCharge(t, db).err = "nil"
    BY <1>1 DEF Begin, Ready, SettleInv, TypeOK
  <1>3. /\ ~ (Balances(db)[block[t].actor] < block[t].fee)
        /\ Balances(FeeCharge(t, db).db) = Bank!Charge(Balances(db), block[t])
    BY <1>1, <1>2, FeeIsCharge
  <1>4. After(t)[0] = Bank!Charge(Balances(db), block[t]) /\ After(t)' = After(t)
    BY <1>1, <1>2, BalancesPlain, PaymentsDef DEF After, TypeOK
  <1>5. /\ Balances(db)' = Balances(db)
        /\ Balances(view[t])' = After(t)[0] /\ Balances(paid[t])' = After(t)[0]
    BY <1>2, <1>3, <1>4 DEF Balances
  <1>6. QED
    BY <1>2, <1>3, <1>4, <1>5 DEF Settling, Agree

(* An action of t that succeeds is its next payment, and one that fails is *)
(* a payment that cannot be made.                                          *)
LEMMA ActionSettles ==
  ASSUME SupplyInv, SettleInv, NEW t \in Tx, phase[t] = "running",
         next[t] <= Len(block[t].actions)
  PROVE  /\ next[t] \in 1 .. Len(block[t].actions)
         /\ NextAction(t).err = "nil" <=> CanMake(Balances(db), block[t], next[t])
         /\ NextAction(t).err = "nil" =>
              Agree(Balances(NextAction(t).db), After(t)[next[t]], Keys(t))
  <1> DEFINE b == Balances(view[t])
             tx == block[t]
             k == next[t]
             p == tx.actions[k]
             before == After(t)[k - 1]
  <1>1. TypeOK /\ Settling(t) /\ err[t] = "nil"
    BY DEF SupplyInv, SettleInv, Active, Settling
  <1>2. tx \in TransactionRecord /\ b \in Plain /\ Balances(db) \in Plain
    BY <1>1, BlockRecord, BalancesPlain DEF TypeOK
  <1>3. k \in 1 .. Len(tx.actions) /\ k - 1 \in 0 .. Len(tx.actions)
    BY <1>1, <1>2, RecordTypes DEF TypeOK
  <1>4. /\ before \in Plain
        /\ After(t)[k] = Bank!Pay(before, tx.actor, p)
    BY <1>2, <1>3, PaymentsDef DEF After
  <1>5. \A a \in Keys(t) : b[a] = before[a]
    BY <1>1 DEF Settling, Agree
  <1>6. tx.actor \in Keys(t) /\ Keys(t) \in SUBSET Address /\ p \in TransferAction
    BY <1>1, <1>2, <1>3, ActorInKeys, RecordTypes
  <1>7. Bank!CanPay(b, tx.actor, p) <=> CanMake(Balances(db), tx, k)
    BY <1>5, <1>6 DEF CanMake, Bank!CanPay, After
  <1>8. /\ NextAction(t).err = "nil" <=> Bank!CanPay(b, tx.actor, p)
        /\ NextAction(t).err = "nil" =>
             Balances(NextAction(t).db) = Bank!Pay(b, tx.actor, p)
    BY NextActionIsPayment
  <1>9. \A a \in Keys(t) : Bank!Pay(b, tx.actor, p)[a] = After(t)[k][a]
    BY <1>2, <1>4, <1>5, <1>6, PayLocal
  <1>10. QED
    BY <1>3, <1>7, <1>8, <1>9 DEF Agree

(* An action that succeeds makes one more payment.                         *)
LEMMA RunSettles ==
  ASSUME SupplyInv, SettleInv, NEW t \in Tx, RunAction(t)
  PROVE  Settling(t)'
  <1>1. TypeOK /\ Settling(t) /\ err[t] = "nil"
    BY DEF SupplyInv, SettleInv, Active, Settling, RunAction
  <1>2. /\ phase[t] = "running" /\ next[t] <= Len(block[t].actions)
        /\ NextAction(t).err = "nil" /\ phase'[t] = "running"
        /\ view'[t] = NextAction(t).db /\ paid' = paid /\ err' = err
        /\ next'[t] = next[t] + 1 /\ block' = block /\ db' = db
    BY <1>1 DEF RunAction, TypeOK
  <1>3. /\ next[t] \in 1 .. Len(block[t].actions)
        /\ CanMake(Balances(db), block[t], next[t])
        /\ Agree(Balances(NextAction(t).db), After(t)[next[t]], Keys(t))
    BY <1>2, ActionSettles
  <1>4. next'[t] - 1 = next[t] /\ \A k \in 1 .. next[t] : k = next[t] \/ k \in 1 .. next[t] - 1
    BY <1>2, <1>3
  <1>5. /\ Balances(db)' = Balances(db) /\ After(t)' = After(t) /\ Keys(t)' = Keys(t)
        /\ Balances(paid[t])' = Balances(paid[t])
        /\ Balances(view[t])' = Balances(NextAction(t).db)
    BY <1>2 DEF Balances, After, Keys
  <1>6. \A k \in 1 .. next'[t] - 1 : CanMake(Balances(db), block[t], k)
    BY <1>1, <1>3, <1>4 DEF Settling
  <1>7. QED
    BY <1>1, <1>2, <1>3, <1>4, <1>5, <1>6 DEF Settling

(* An action that fails is a payment that cannot be made, and the view     *)
(* goes back to the checkpoint.                                            *)
LEMMA FailSettles ==
  ASSUME SupplyInv, SettleInv, NEW t \in Tx, FailAction(t)
  PROVE  Settling(t)'
  <1>1. TypeOK /\ Settling(t)
    BY DEF SupplyInv, SettleInv, Active, FailAction
  <1>2. /\ phase[t] = "running" /\ next[t] <= Len(block[t].actions)
        /\ NextAction(t).err # "nil" /\ phase'[t] = "executed"
        /\ view'[t] = paid[t] /\ paid' = paid /\ err'[t] # "nil"
        /\ block' = block /\ db' = db
    BY <1>1 DEF FailAction, TypeOK
  <1>3. /\ next[t] \in 1 .. Len(block[t].actions)
        /\ ~ CanMake(Balances(db), block[t], next[t])
    BY <1>2, ActionSettles
  <1>4. /\ Balances(db)' = Balances(db) /\ After(t)' = After(t) /\ Keys(t)' = Keys(t)
        /\ Balances(paid[t])' = Balances(paid[t])
    BY <1>2 DEF Balances, After, Keys
  <1>5. QED
    BY <1>1, <1>2, <1>3, <1>4 DEF Settling

(* After the last action all payments were made.                           *)
LEMMA FinishSettles ==
  ASSUME SupplyInv, SettleInv, NEW t \in Tx, Finish(t)
  PROVE  Settling(t)'
  <1>1. TypeOK /\ Settling(t) /\ err[t] = "nil"
    BY DEF SupplyInv, SettleInv, Active, Settling, Finish
  <1>2. /\ next[t] > Len(block[t].actions)
        /\ phase'[t] = "executed" /\ UNCHANGED <<block, db, view, paid, next, err>>
    BY <1>1 DEF Finish, TypeOK
  <1>3. next[t] = Len(block[t].actions) + 1
    <2>1. next[t] \in Nat /\ next[t] <= Len(block[t].actions) + 1
      BY <1>1 DEF TypeOK
    <2>2. Len(block[t].actions) \in Nat
      BY <1>1, BlockRecord, RecordTypes
    <2>3. QED
      BY <1>2, <2>1, <2>2
  <1>4. /\ Balances(db)' = Balances(db) /\ After(t)' = After(t) /\ Keys(t)' = Keys(t)
        /\ Balances(paid[t])' = Balances(paid[t]) /\ Balances(view[t])' = Balances(view[t])
    BY <1>2 DEF Balances, After, Keys
  <1>5. QED
    BY <1>1, <1>2, <1>3, <1>4 DEF Settling

LEMMA NextSettleInv == SupplyInv /\ SettleInv /\ [Next]_vars => SettleInv'
  <1> SUFFICES ASSUME SupplyInv, SettleInv, [Next]_vars PROVE SettleInv'
    OBVIOUS
  <1>1. TypeOK /\ TypeOK' /\ DeclarersInOrder
    BY NextTypeOK DEF SupplyInv
  <1>2. /\ block' = block
        /\ \A t \in Tx : phase'[t] = "queued" =>
             phase[t] = "queued" /\ next'[t] = next[t] /\ err'[t] = err[t]
    BY <1>1 DEF Next, Step, Reject, Abort, Begin, RunAction, FailAction, Finish,
                Commit, Terminating, vars, TypeOK
  <1>3. SUFFICES ASSUME NEW s \in Tx, Active(s)' PROVE Settling(s)'
    BY <1>2 DEF SettleInv
  <1>4. ASSUME NEW t \in Tx, Reject(t) \/ Abort(t) \/ Begin(t) \/ RunAction(t)
                               \/ FailAction(t) \/ Finish(t)
        PROVE  Settling(s)'
    <2>1. CASE s = t
      <3>1. ~ Reject(t) /\ ~ Abort(t)
        BY <1>1, <1>3, <2>1 DEF Reject, Abort, Active, TypeOK
      <3>2. QED
        BY <1>4, <2>1, <3>1, BeginSettles, RunSettles, FailSettles, FinishSettles
    <2>2. CASE s # t
      <3>1. /\ view'[s] = view[s] /\ paid'[s] = paid[s] /\ phase'[s] = phase[s]
            /\ next'[s] = next[s] /\ err'[s] = err[s] /\ db' = db
        BY <1>1, <1>4, <2>2
        DEF Reject, Abort, Begin, RunAction, FailAction, Finish, TypeOK
      <3>2. Settling(s)
        BY <1>3, <3>1 DEF SettleInv, Active
      <3>3. QED
        BY <1>1, <1>2, <3>1, <3>2, SettlingElsewhere
    <2>3. QED
      BY <2>1, <2>2
  <1>5. ASSUME NEW t \in Tx, Commit(t) PROVE Settling(s)'
    <2>1. s # t
      BY <1>1, <1>3, <1>5 DEF Commit, Active, TypeOK
    <2>2. /\ view'[s] = view[s] /\ paid'[s] = paid[s] /\ phase'[s] = phase[s]
          /\ next'[s] = next[s] /\ err'[s] = err[s]
      BY <1>1, <1>5, <2>1 DEF Commit, TypeOK
    <2>3. Active(s) /\ Active(t)
      BY <1>3, <1>5, <2>2 DEF Commit, Active
    <2>4. \A a \in Keys(s) : db'[a] = db[a]
      <3>1. Keys(s) \cap Keys(t) = {} /\ Keys(s) \in SUBSET Address
        BY <1>1, <2>1, <2>3, ActiveApart, ActorInKeys
      <3>2. QED
        BY <1>5, <3>1 DEF Commit
    <2>5. Settling(s)
      BY <2>3 DEF SettleInv
    <2>6. QED
      BY <1>1, <1>2, <2>2, <2>4, <2>5, SettlingElsewhere
  <1>6. CASE UNCHANGED vars
    <2>1. Settling(s)
      BY <1>3, <1>6 DEF vars, SettleInv, Active
    <2>2. QED
      BY <1>1, <1>6, <2>1, SettlingElsewhere DEF vars
  <1>7. QED
    BY <1>4, <1>5, <1>6 DEF Next, Step, Terminating
-----------------------------------------------------------------------------
LEMMA ShownPending ==
  ASSUME TypeOK, NEW t \in Tx
  PROVE  Shown[t] = "pending" <=> ~ Finished(t)
  BY DEF Shown, Finished, TypeOK

(* The conditions of the bank's step, in terms of the executor's state.    *)
LEMMA BankSettle ==
  ASSUME NEW t \in Tx,
         Shown[t] = "pending",
         \A s \in Tx : s < t /\ Shown[s] = "pending"
                         => Bank!Parties(block[s]) \cap Bank!Parties(block[t]) = {},
         Balances(db)' = Bank!Settled(Balances(db), block[t]),
         Shown' = [Shown EXCEPT ![t] = Bank!Verdict(Balances(db), block[t])],
         burned' = burned + (IF Bank!Verdict(Balances(db), block[t]) = "refused"
                             THEN 0 ELSE block[t].fee),
         block' = block, genesis' = genesis
  PROVE  Bank!Settle(t)
  BY DEF Bank!Settle, Bank!Tx, Tx, Shown, Balances

LEMMA BankStutter ==
  ASSUME UNCHANGED <<block, genesis, db, burned, Shown>>
  PROVE  UNCHANGED Bank!vars
  BY DEF Bank!vars, Shown

(* A transaction settles after the earlier ones it shares an account with. *)
LEMMA SettlesInOrder ==
  ASSUME TypeOK, DeclarersInOrder, NEW t \in Tx, Ready(t) \/ phase[t] # "queued",
         NEW s \in Tx, s < t, Shown[s] = "pending"
  PROVE  Bank!Parties(block[s]) \cap Bank!Parties(block[t]) = {}
  <1>1. ~ Finished(s)
    BY ShownPending
  <1>2. Keys(s) \cap Keys(t) = {}
    BY <1>1, SharersConflict DEF Ready, DeclarersInOrder
  <1>3. QED
    BY <1>2, PartiesInKeys

(* A sponsor that cannot pay is refused, and nothing changes.              *)
LEMMA RejectIsBank ==
  ASSUME SupplyInv, NEW t \in Tx, Reject(t)
  PROVE  Bank!Settle(t)
  <1>1. TypeOK /\ DeclarersInOrder /\ block[t] \in TransactionRecord
    BY BlockRecord DEF SupplyInv
  <1>2. Balances(db)[block[t].actor] < block[t].fee
    BY <1>1, FeeIsCharge DEF Reject
  <1>3. Bank!Verdict(Balances(db), block[t]) = "refused"
    BY <1>1, <1>2, BalancesPlain, VerdictIs DEF TypeOK
  <1>4. Balances(db)' = Bank!Settled(Balances(db), block[t])
    BY <1>3 DEF Reject, Bank!Settled, Balances
  <1>5. Shown[t] = "pending" /\ Shown' = [Shown EXCEPT ![t] = "refused"]
    BY <1>1 DEF Reject, Ready, Shown, TypeOK
  <1>6. burned \in Int /\ burned' = burned /\ block' = block /\ genesis' = genesis
    BY <1>1 DEF Reject, TypeOK
  <1>7. burned' = burned + 0
    BY <1>6
  <1>8. Ready(t)
    BY DEF Reject
  <1>9. QED
    BY <1>1, <1>3, <1>4, <1>5, <1>6, <1>7, <1>8, SettlesInOrder, BankSettle

(* Only a fee of zero aborts, on an account that holds nothing: there is   *)
(* no fee to keep, and no first payment that could be made.                *)
LEMMA AbortIsBank ==
  ASSUME SupplyInv, NEW t \in Tx, Abort(t)
  PROVE  Bank!Settle(t)
  <1> DEFINE bal == Balances(db)
             tx == block[t]
  <1>1. TypeOK /\ DeclarersInOrder /\ tx \in TransactionRecord /\ bal \in Plain
    BY BlockRecord, BalancesPlain DEF SupplyInv, TypeOK
  <1>2. tx.fee = 0 /\ tx.actor \in Address /\ bal[tx.actor] = 0
    BY <1>1, AbortOfZero, BlockTypes DEF Balances, GetBalance
  <1>3. Bank!Charge(bal, tx) = bal
    <2>1. ASSUME NEW a \in Address PROVE Bank!Charge(bal, tx)[a] = bal[a]
      <3>1. bal[a] \in Int
        BY <1>1 DEF Plain
      <3>2. Bank!Charge(bal, tx)[a] = IF a = tx.actor THEN bal[a] - 0 ELSE bal[a]
        BY <1>1, <1>2, ChargeEffect
      <3>3. QED
        BY <3>1, <3>2
    <2>2. Bank!Charge(bal, tx) \in Plain
      BY <1>1, ChargeType
    <2>3. QED
      BY <1>1, <2>1, <2>2 DEF Plain
  <1>4. 1 \in 1 .. Len(tx.actions) /\ tx.actions[1] \in TransferAction
    <2>1. tx.actions \in Seq(TransferAction) /\ tx.actions # << >>
      BY <1>1 DEF TransactionRecord
    <2>2. QED
      BY <2>1
  <1>5. ~ CanMake(bal, tx, 1)
    <2>1. Bank!AfterPayments(bal, tx)[0][tx.actor] = 0
      BY <1>1, <1>2, <1>3, PaymentsDef
    <2>2. tx.actions[1].value \in Int
      BY <1>1, <1>4, RecordTypes
    <2>3. SUFFICES ASSUME CanMake(bal, tx, 1) PROVE FALSE
      OBVIOUS
    <2>4. tx.actions[1].value > 0 /\ Bank!AfterPayments(bal, tx)[1 - 1][tx.actor] >= tx.actions[1].value
      BY <2>3 DEF CanMake, Bank!CanPay
    <2>5. QED
      BY <2>1, <2>2, <2>4
  <1>6. ~ (bal[tx.actor] < tx.fee)
    BY <1>1, FeeIsCharge DEF Abort
  <1>7. Bank!Verdict(bal, tx) = "failed"
    BY <1>1, <1>4, <1>5, <1>6, VerdictIs
  <1>8. Balances(db)' = Bank!Settled(bal, tx)
    BY <1>3, <1>7 DEF Abort, Bank!Settled, Balances
  <1>9. Shown[t] = "pending" /\ Shown' = [Shown EXCEPT ![t] = "failed"]
    BY <1>1 DEF Abort, Ready, Shown, TypeOK
  <1>10. burned \in Int /\ burned' = burned /\ block' = block /\ genesis' = genesis
    BY <1>1 DEF Abort, TypeOK
  <1>11. burned' = burned + tx.fee
    BY <1>2, <1>10
  <1>12. Ready(t)
    BY DEF Abort
  <1>13. QED
    BY <1>1, <1>7, <1>8, <1>9, <1>10, <1>11, <1>12, SettlesInOrder, BankSettle

(* A commit shows all of the transaction at once: what its view has of its *)
(* accounts is what the bank makes of them, and the bank leaves the others.*)
LEMMA CommitIsBank ==
  ASSUME SupplyInv, SettleInv, NEW t \in Tx, Commit(t)
  PROVE  Bank!Settle(t)
  <1> DEFINE bal == Balances(db)
             tx == block[t]
             n == Len(tx.actions)
             result == IF err[t] = "nil" THEN "done" ELSE "failed"
             last == IF err[t] = "nil" THEN n ELSE 0
  <1>1. /\ TypeOK /\ DeclarersInOrder /\ tx \in TransactionRecord /\ bal \in Plain
        /\ phase[t] = "executed" /\ Settling(t)
    BY BlockRecord, BalancesPlain DEF SupplyInv, TypeOK, SettleInv, Active, Commit
  <1>2. n \in Nat /\ last \in 0 .. n
    BY <1>1, RecordTypes
  <1>3. /\ Bank!Verdict(bal, tx) = result
        /\ \A a \in Keys(t) : Balances(view[t])[a] = After(t)[last][a]
    <2>1. CASE err[t] = "nil"
      <3>1. next[t] = n + 1 /\ next[t] - 1 = n
        BY <1>1, <1>2, <2>1 DEF Settling
      <3>2. \A k \in 1 .. n : CanMake(bal, tx, k)
        BY <1>1, <2>1, <3>1 DEF Settling
      <3>3. Agree(Balances(view[t]), After(t)[n], Keys(t))
        BY <1>1, <2>1, <3>1 DEF Settling
      <3>4. Bank!Verdict(bal, tx) = "done"
        BY <1>1, <3>2, VerdictIs DEF Settling
      <3>5. QED
        BY <2>1, <3>3, <3>4 DEF Agree
    <2>2. CASE err[t] # "nil"
      <3>1. \E k \in 1 .. n : ~ CanMake(bal, tx, k)
        BY <1>1, <2>2 DEF Settling
      <3>2. Agree(Balances(view[t]), After(t)[0], Keys(t))
        BY <1>1, <2>2 DEF Settling
      <3>3. Bank!Verdict(bal, tx) = "failed"
        BY <1>1, <3>1, VerdictIs DEF Settling
      <3>4. QED
        BY <2>2, <3>2, <3>3 DEF Agree
    <2>3. QED
      BY <2>1, <2>2
  <1>4. Bank!Settled(bal, tx) = After(t)[last]
    <2>1. After(t)[0] = Bank!Charge(bal, tx)
      BY <1>1, PaymentsDef DEF After
    <2>2. QED
      BY <1>3, <2>1 DEF Bank!Settled, After
  <1>5. Balances(db') = Bank!Settled(bal, tx)
    <2>1. ASSUME NEW a \in Address PROVE Balances(db')[a] = After(t)[last][a]
      <3>1. CASE a \in Keys(t)
        <4>1. Balances(db')[a] = Balances(view[t])[a]
          BY <3>1 DEF Commit, Balances, GetBalance
        <4>2. QED
          BY <1>3, <3>1, <4>1
      <3>2. CASE a \notin Keys(t)
        <4>1. Balances(db')[a] = bal[a]
          BY <3>2 DEF Commit, Balances, GetBalance
        <4>2. a \notin Bank!Parties(tx)
          BY <1>1, <3>2, PartiesInKeys
        <4>3. QED
          BY <1>1, <1>2, <4>1, <4>2, PaymentsLocal DEF After
      <3>3. QED
        BY <3>1, <3>2
    <2>2. After(t)[last] \in Plain
      BY <1>1, <1>2, PaymentsDef DEF After
    <2>3. Balances(db') = [a \in Address |-> Balances(db')[a]]
      BY DEF Balances
    <2>4. QED
      BY <1>4, <2>1, <2>2, <2>3 DEF Plain
  <1>6. Shown[t] = "pending" /\ Shown' = [Shown EXCEPT ![t] = result]
    BY <1>1 DEF Commit, Shown, TypeOK
  <1>7. /\ burned' = burned + tx.fee /\ result # "refused"
        /\ block' = block /\ genesis' = genesis
    BY DEF Commit
  <1>8. Balances(db)' = Balances(db')
    BY DEF Balances
  <1>9. QED
    BY <1>1, <1>3, <1>5, <1>6, <1>7, <1>8, SettlesInOrder, BankSettle

(* Every other step shows nothing. *)
LEMMA OtherStepsStutter ==
  ASSUME TypeOK, NEW t \in Tx,
         Begin(t) \/ RunAction(t) \/ FailAction(t) \/ Finish(t)
  PROVE  UNCHANGED Bank!vars
  <1>1. UNCHANGED <<block, genesis, db, burned>>
    BY DEF Begin, RunAction, FailAction, Finish
  <1>2. Shown' = Shown
    BY DEF Begin, RunAction, FailAction, Finish, Ready, Shown, TypeOK
  <1>3. QED
    BY <1>1, <1>2, BankStutter

LEMMA InitIsBank == Init => Bank!Init
  BY DEF Init, Shown, Bank!Init, Bank!Tx, Tx

(* Every step of the executor is a step of the bank or shows nothing.      *)
LEMMA NextIsBank == SupplyInv /\ SettleInv /\ [Next]_vars => [Bank!Next]_(Bank!vars)
  <1> SUFFICES ASSUME SupplyInv, SettleInv, [Next]_vars PROVE [Bank!Next]_(Bank!vars)
    OBVIOUS
  <1>1. TypeOK
    BY DEF SupplyInv
  <1>2. ASSUME NEW t \in Tx, Reject(t) \/ Abort(t) \/ Commit(t) PROVE Bank!Next
    BY <1>2, RejectIsBank, AbortIsBank, CommitIsBank DEF Bank!Next, Bank!Tx, Tx
  <1>3. ASSUME NEW t \in Tx, Begin(t) \/ RunAction(t) \/ FailAction(t) \/ Finish(t)
        PROVE  UNCHANGED Bank!vars
    BY <1>1, <1>3, OtherStepsStutter
  <1>4. CASE UNCHANGED vars
    BY <1>4, BankStutter DEF vars, Shown
  <1>5. QED
    BY <1>2, <1>3, <1>4 DEF Next, Step, Terminating

(* In every state of every execution, a view under way shows of its own    *)
(* accounts what the bank makes of them, however others interleave.        *)
THEOREM SettleInvariant == Spec => [](SupplyInv /\ SettleInv)
  BY InitSupplyInv, NextSupplyInv, InitSettleInv, NextSettleInv, PTL DEF Spec

(* Executing a block in parallel, with records that come and go, declared  *)
(* keys, views, checkpoints and a limit of 64 bits, implements the bank,   *)
(* which settles transactions at once on plain numbers.                    *)
THEOREM ExecutorImplementsBank == Spec => ImplementsBank
  BY SettleInvariant, InitIsBank, NextIsBank, PTL DEF Spec, ImplementsBank, Bank!Spec
-----------------------------------------------------------------------------
(* Transactions that are not about an account do not move its balance.     *)
LEMMA InOrderSkip ==
  ASSUME NEW bal \in Plain, NEW txs \in [1 .. N -> TransactionRecord],
         NEW a \in Address, NEW j \in 0 .. N, NEW k \in 0 .. N, j <= k,
         \A s \in 1 .. N : j < s /\ s <= k => a \notin Bank!Parties(txs[s])
  PROVE  Bank!InOrder(txs, bal)[k][a] = Bank!InOrder(txs, bal)[j][a]
  <1> DEFINE after == Bank!InOrder(txs, bal)
             S == {i \in 0 .. N : j <= i /\ i <= k => after[i][a] = after[j][a]}
  <1>1. /\ N \in Nat /\ after \in [0 .. N -> Plain]
        /\ \A i \in 1 .. N : after[i] = Bank!Settled(after[i - 1], txs[i])
    BY BlockAssumption, InOrderDef
  <1> HIDE DEF after
  <1>2. 0 \in S
    BY <1>1
  <1>3. ASSUME NEW i \in 1 .. N, i - 1 \in S PROVE i \in S
    <2>1. i \in 0 .. N /\ i - 1 \in 0 .. N
      BY <1>1
    <2>2. SUFFICES ASSUME j <= i, i <= k PROVE after[i][a] = after[j][a]
      BY <2>1
    <2>3. CASE i = j
      BY <2>3
    <2>4. CASE i # j
      <3>1. j < i /\ j <= i - 1 /\ i - 1 <= k
        BY <1>1, <2>2, <2>4
      <3>2. after[i - 1][a] = after[j][a]
        BY <1>3, <3>1
      <3>3. a \notin Bank!Parties(txs[i])
        BY <2>2, <3>1
      <3>4. after[i - 1] \in Plain /\ txs[i] \in TransactionRecord
        BY <1>1, <2>1
      <3>5. Bank!Settled(after[i - 1], txs[i])[a] = after[i - 1][a]
        BY <3>3, <3>4, SettledLocal
      <3>6. QED
        BY <1>1, <3>2, <3>5
    <2>5. QED
      BY <2>3, <2>4
  <1>4. 0 .. N \subseteq S
    <2> HIDE DEF S
    <2>1. QED
      BY <1>1, <1>2, <1>3, FiniteInduction
  <1>5. QED
    BY <1>1, <1>4 DEF after

(* The transactions about account a that are done are those of the first k.*)
SettledUpTo(a, k) ==
  \A s \in Tx : a \in Parties(s) => (Finished(s) <=> s <= k)

(* While a block is under way no prefix of it need be done, but for each   *)
(* account by itself one is: the account has the balance that prefix, in   *)
(* order, gives it.                                                        *)
PrefixSettled ==
  \A a \in Address, k \in 0 .. N :
    SettledUpTo(a, k) =>
      Balances(db)[a] = Bank!InOrder(block, Balances(genesis))[k][a]

(* A transaction that is done ended as it would have, had the block been   *)
(* executed in order.                                                      *)
OutcomesSettled ==
  \A t \in Tx :
    Finished(t) =>
      Shown[t] = Bank!Verdict(Bank!InOrder(block, Balances(genesis))[t - 1], block[t])

LEMMA BlockFunction ==
  ASSUME TypeOK
  PROVE  /\ block \in [1 .. N -> TransactionRecord]
         /\ Balances(genesis) \in Plain /\ Balances(db) \in Plain
  BY BlockAssumption, BalancesPlain DEF TypeOK

(* Before the block no transaction is done, and none of a prefix in which  *)
(* none is about the account moves its balance.                            *)
LEMMA InitPrefixSettled == Init => PrefixSettled
  <1> SUFFICES ASSUME Init, NEW a \in Address, NEW k \in 0 .. N, SettledUpTo(a, k)
               PROVE  Balances(db)[a] = Bank!InOrder(block, Balances(genesis))[k][a]
    BY DEF PrefixSettled
  <1>1. TypeOK /\ block \in [1 .. N -> TransactionRecord] /\ Balances(genesis) \in Plain
    BY InitTypeOK, BlockFunction
  <1>2. N \in Nat /\ 0 \in 0 .. N /\ 0 <= k
    BY BlockAssumption
  <1>3. \A s \in Tx : ~ Finished(s)
    BY DEF Init, Finished
  <1>4. \A s \in 1 .. N : s <= k => a \notin Bank!Parties(block[s])
    BY <1>1, <1>3, PartiesInKeys DEF SettledUpTo, Tx
  <1>5. Bank!InOrder(block, Balances(genesis))[k][a]
          = Bank!InOrder(block, Balances(genesis))[0][a]
    BY <1>1, <1>2, <1>4, InOrderSkip
  <1>6. Bank!InOrder(block, Balances(genesis))[0] = Balances(genesis)
    BY <1>1, InOrderDef
  <1>7. db = genesis
    BY DEF Init
  <1>8. QED
    BY <1>5, <1>6, <1>7

(* One transaction settles: for each account it is about, the prefix grows *)
(* to it.                                                                  *)
LEMMA SettlePrefix ==
  ASSUME TypeOK, TypeOK', DeclarersInOrder, PrefixSettled, NEW t \in Tx,
         Ready(t) \/ phase[t] = "executed", Bank!Settle(t)
  PROVE  /\ PrefixSettled'
         /\ OutcomesSettled => OutcomesSettled'
  <1> DEFINE order == Bank!InOrder(block, Balances(genesis))
             bal == Balances(db)
  <1>1. /\ block' = block /\ Balances(genesis)' = Balances(genesis)
        /\ Balances(db)' = Bank!Settled(bal, block[t])
        /\ ~ Finished(t) /\ Finished(t)'
        /\ \A s \in Tx : s # t => (Finished(s)' <=> Finished(s))
        /\ Shown'[t] = Bank!Verdict(bal, block[t])
        /\ \A s \in Tx : s # t => Shown'[s] = Shown[s]
    <2>1. /\ block' = block /\ Balances(genesis)' = Balances(genesis)
          /\ Balances(db)' = Bank!Settled(bal, block[t])
          /\ Shown[t] = "pending"
          /\ Shown' = [Shown EXCEPT ![t] = Bank!Verdict(bal, block[t])]
      BY DEF Bank!Settle, Bank!Tx, Tx, Shown, Balances
    <2>2. Bank!Verdict(bal, block[t]) # "pending"
      BY BlockFunction, BlockRecord, VerdictIs
    <2>3. \A s \in Tx : /\ Shown[s] = "pending" <=> ~ Finished(s)
                        /\ Shown'[s] = "pending" <=> ~ Finished(s)'
      BY DEF Shown, Finished, TypeOK
    <2>4. /\ Shown'[t] = Bank!Verdict(bal, block[t])
          /\ \A s \in Tx : s # t => Shown'[s] = Shown[s]
      BY <2>1 DEF Shown
    <2>5. QED
      BY <2>1, <2>2, <2>3, <2>4
  <1>2. /\ block \in [1 .. N -> TransactionRecord] /\ block[t] \in TransactionRecord
        /\ Balances(genesis) \in Plain /\ bal \in Plain
        /\ N \in Nat /\ t \in 1 .. N /\ t - 1 \in 0 .. N /\ t \in 0 .. N
    BY BlockFunction, BlockRecord, BlockAssumption DEF Tx
  <1>3. /\ order \in [0 .. N -> Plain]
        /\ order[t] = Bank!Settled(order[t - 1], block[t])
    BY <1>2, InOrderDef
  <1>4. \A a \in Parties(t) : SettledUpTo(a, t - 1)
    <2>1. SUFFICES ASSUME NEW a \in Parties(t), NEW s \in Tx, a \in Parties(s)
                   PROVE  Finished(s) <=> s <= t - 1
      BY DEF SettledUpTo
    <2>2. Keys(s) \cap Keys(t) # {}
      BY <2>1, PartiesInKeys
    <2>3. s < t => Finished(s)
      BY <2>2, SharersConflict DEF Ready, DeclarersInOrder
    <2>4. s > t => ~ Finished(s)
      <3>1. SUFFICES ASSUME s > t, Finished(s) PROVE FALSE
        OBVIOUS
      <3>2. phase[s] # "queued" /\ t < s /\ Keys(t) \cap Keys(s) # {}
        BY <1>2, <2>2, <3>1 DEF Finished, Tx
      <3>3. Finished(t)
        BY <3>2 DEF DeclarersInOrder
      <3>4. QED
        BY <1>1, <3>3
    <2>5. s \in Int /\ t \in Int
      BY DEF Tx
    <2>6. s < t \/ s = t \/ s > t
      BY <2>5
    <2>7. CASE s < t
      BY <2>3, <2>5, <2>7
    <2>8. CASE s >= t
      <3>1. ~ (s <= t - 1)
        BY <2>5, <2>8
      <3>2. ~ Finished(s)
        BY <1>1, <2>4, <2>5, <2>8
      <3>3. QED
        BY <3>1, <3>2
    <2>9. QED
      BY <2>6, <2>5, <2>7, <2>8
  <1>5. \A a \in Parties(t) : a \in Address /\ bal[a] = order[t - 1][a]
    <2>1. Parties(t) \subseteq Address
      BY PartiesInKeys, ActorInKeys
    <2>2. QED
      BY <1>2, <1>4, <2>1 DEF PrefixSettled
  <1>6. /\ block[t].actor \in Parties(t)
        /\ order[t - 1] \in Plain
        /\ bal[block[t].actor] = order[t - 1][block[t].actor]
    BY <1>2, <1>3, <1>5 DEF Parties
  <1> HIDE DEF order, bal
  <1>7. OutcomesSettled => OutcomesSettled'
    <2>1. Bank!Verdict(bal, block[t]) = Bank!Verdict(order[t - 1], block[t])
      BY <1>2, <1>6, VerdictLocal
    <2>2. SUFFICES ASSUME OutcomesSettled, NEW s \in Tx, Finished(s)'
                   PROVE  Shown'[s] = Bank!Verdict(order[s - 1], block[s])
      BY <1>1 DEF OutcomesSettled, order
    <2>3. CASE s = t
      BY <1>1, <2>1, <2>3
    <2>4. CASE s # t
      BY <1>1, <2>2, <2>4 DEF OutcomesSettled, order
    <2>5. QED
      BY <2>3, <2>4
  <1>8. SUFFICES ASSUME NEW a \in Address, NEW k \in 0 .. N, SettledUpTo(a, k)'
                 PROVE  Bank!Settled(bal, block[t])[a] = order[k][a]
    BY <1>1, <1>7 DEF PrefixSettled, order, bal
  <1>9. \A s \in Tx : a \in Parties(s) => (Finished(s)' <=> s <= k)
    BY <1>1, <1>8 DEF SettledUpTo, Parties
  <1>10. CASE a \in Parties(t)
    <2>1. t <= k /\ k \in Int
      BY <1>1, <1>9, <1>10
    <2>2. Bank!Settled(bal, block[t])[a] = Bank!Settled(order[t - 1], block[t])[a]
      BY <1>2, <1>5, <1>6, <1>10, SettledLocal
    <2>3. \A s \in 1 .. N : t < s /\ s <= k => a \notin Bank!Parties(block[s])
      <3>1. SUFFICES ASSUME NEW s \in Tx, t < s, s <= k, a \in Parties(s)
                     PROVE  FALSE
        BY PartiesInKeys DEF Tx
      <3>2. s # t /\ ~ (s <= t - 1)
        BY <1>2, <3>1 DEF Tx
      <3>3. ~ Finished(s)
        BY <1>4, <1>10, <3>1, <3>2 DEF SettledUpTo
      <3>4. QED
        BY <1>1, <1>9, <3>1, <3>2, <3>3
    <2>4. order[k][a] = order[t][a]
      BY <1>2, <2>1, <2>3, InOrderSkip DEF order
    <2>5. QED
      BY <1>3, <2>2, <2>4
  <1>11. CASE a \notin Parties(t)
    <2>1. Bank!Settled(bal, block[t])[a] = bal[a]
      BY <1>2, <1>6, <1>11, PartiesInKeys, SettledLocal
    <2>2. SettledUpTo(a, k)
      BY <1>1, <1>9, <1>11 DEF SettledUpTo
    <2>3. bal[a] = order[k][a]
      BY <2>2 DEF PrefixSettled, bal, order
    <2>4. QED
      BY <2>1, <2>3
  <1>12. QED
    BY <1>10, <1>11

(* Every step of the executor keeps both: those that end a transaction are *)
(* the bank's, the others touch neither balances nor outcomes.             *)
LEMMA NextInOrder ==
  ASSUME SupplyInv, SettleInv, PrefixSettled, OutcomesSettled, [Next]_vars
  PROVE  PrefixSettled' /\ OutcomesSettled'
  <1> DEFINE InOrder == PrefixSettled /\ OutcomesSettled
  <1>1. TypeOK /\ TypeOK' /\ DeclarersInOrder
    BY NextTypeOK DEF SupplyInv
  <1>2. ASSUME NEW t \in Tx, Reject(t) \/ Abort(t) \/ Commit(t) PROVE InOrder'
    <2>1. Ready(t) \/ phase[t] = "executed"
      BY <1>2 DEF Reject, Abort, Commit
    <2>2. Bank!Settle(t)
      BY <1>2, RejectIsBank, AbortIsBank, CommitIsBank
    <2>3. QED
      BY <1>1, <2>1, <2>2, SettlePrefix
  <1>3. ASSUME UNCHANGED <<block, genesis, db, Shown>>,
               \A s \in Tx : Finished(s)' <=> Finished(s)
        PROVE  InOrder'
    <2>1. \A a, k : SettledUpTo(a, k)' <=> SettledUpTo(a, k)
      BY <1>3 DEF SettledUpTo, Parties
    <2>2. Balances(db)' = Balances(db) /\ Balances(genesis)' = Balances(genesis)
      BY <1>3 DEF Balances
    <2>3. PrefixSettled'
      BY <1>3, <2>1, <2>2 DEF PrefixSettled
    <2>4. OutcomesSettled'
      BY <1>3, <2>2 DEF OutcomesSettled
    <2>5. QED
      BY <2>3, <2>4
  <1>4. ASSUME NEW t \in Tx, Begin(t) \/ RunAction(t) \/ FailAction(t) \/ Finish(t)
        PROVE  InOrder'
    <2>1. UNCHANGED <<block, genesis, db>>
      BY <1>4 DEF Begin, RunAction, FailAction, Finish
    <2>2. \A s \in Tx : Finished(s)' <=> Finished(s)
      BY <1>1, <1>4 DEF Begin, RunAction, FailAction, Finish, Ready, Finished, TypeOK
    <2>3. Shown' = Shown
      BY <1>1, <1>4 DEF Begin, RunAction, FailAction, Finish, Ready, Shown, TypeOK
    <2>4. QED
      BY <1>3, <2>1, <2>2, <2>3
  <1>5. CASE UNCHANGED vars
    <2>1. \A s \in Tx : Finished(s)' <=> Finished(s)
      BY <1>5 DEF vars, Finished
    <2>2. Shown' = Shown
      BY <1>5 DEF vars, Shown
    <2>3. QED
      BY <1>3, <1>5, <2>1, <2>2 DEF vars
  <1>6. QED
    BY <1>2, <1>4, <1>5 DEF Next, Step, Terminating

(* Whatever the block and the interleaving, the balances after a block are *)
(* those its transactions give one after the other, and each transaction   *)
(* ends as it would then: what one account holds was built up by its own   *)
(* transactions, in the order of the block.                                *)
THEOREM ExecutionIsDeterministic == Spec => []Deterministic
  <1>1. Init => PrefixSettled /\ OutcomesSettled
    BY InitPrefixSettled DEF Init, OutcomesSettled, Finished
  <1>2. SupplyInv /\ SettleInv /\ PrefixSettled /\ OutcomesSettled /\ [Next]_vars
          => PrefixSettled' /\ OutcomesSettled'
    BY NextInOrder
  <1>3. PrefixSettled /\ OutcomesSettled => Deterministic
    <2> SUFFICES ASSUME PrefixSettled, OutcomesSettled, \A t \in Tx : Finished(t)
                 PROVE  LET after == Bank!InOrder(block, Balances(genesis))
                        IN  /\ \A a \in Address : GetBalance(db, a) = after[N][a]
                            /\ \A t \in Tx : Shown[t] = Bank!Verdict(after[t - 1], block[t])
      BY DEF Deterministic, Balances
    <2>1. N \in 0 .. N /\ \A s \in Tx : s <= N
      BY BlockAssumption DEF Tx
    <2>2. \A a \in Address : SettledUpTo(a, N)
      BY <2>1 DEF SettledUpTo
    <2>3. \A a \in Address : Balances(db)[a] = GetBalance(db, a)
      BY DEF Balances
    <2>4. \A a \in Address :
            GetBalance(db, a) = Bank!InOrder(block, Balances(genesis))[N][a]
      BY <2>1, <2>2, <2>3 DEF PrefixSettled
    <2>5. QED
      BY <2>4 DEF OutcomesSettled
  <1>4. QED
    BY <1>1, <1>2, <1>3, SettleInvariant, PTL DEF Spec
-----------------------------------------------------------------------------
(* What the two halves return is the balance they leave.                   *)
LEMMA SubBalanceReturns ==
  ASSUME NEW d \in Database, NEW scope, NEW a \in Address, NEW amount \in Balance,
         SubBalance(d, scope, a, amount).err = "nil"
  PROVE  SubBalance(d, scope, a, amount).bal
           = GetBalance(SubBalance(d, scope, a, amount).db, a)
  <1>1. Exists(d, scope, a)
    BY DEF SubBalance, Outcome
  <1>2. d[a] \in Balance /\ d[a] # Absent
    BY <1>1 DEF Exists, Database, Record
  <1>3. ~ (d[a] < amount)
    BY <1>1, <1>2, StorageAssumption DEF SubBalance, Outcome, Balance
  <1>4. CASE d[a] = amount
    <2>1. SubBalance(d, scope, a, amount) = Remove(d, scope, a)
      BY <1>1, <1>2, <1>4, StorageAssumption DEF SubBalance, Balance
    <2>2. QED
      BY <2>1 DEF Remove, Outcome, Database, GetBalance
  <1>5. CASE d[a] > amount
    <2>1. d[a] - amount \in Balance /\ d[a] - amount # Absent
      BY <1>2, <1>5, StorageAssumption DEF Balance
    <2>2. SubBalance(d, scope, a, amount) = Insert(d, scope, a, d[a] - amount)
      BY <1>1, <1>2, <1>5, StorageAssumption DEF SubBalance, Balance
    <2>3. /\ SubBalance(d, scope, a, amount).db = [d EXCEPT ![a] = d[a] - amount]
          /\ SubBalance(d, scope, a, amount).bal = d[a] - amount
      BY <2>2 DEF Insert, Outcome
    <2>4. QED
      BY <2>1, <2>3 DEF Database, GetBalance
  <1>6. QED
    BY <1>2, <1>3, <1>4, <1>5, StorageAssumption DEF Balance

LEMMA CreditReturns ==
  ASSUME NEW d \in Database, NEW scope, NEW a \in Address, NEW amount \in Balance,
         Credit(d, scope, a, amount).err = "nil"
  PROVE  Credit(d, scope, a, amount).bal
           = GetBalance(Credit(d, scope, a, amount).db, a)
  <1>1. Credit(d, scope, a, amount) = Insert(d, scope, a, GetBalance(d, a) + amount)
    BY DEF Credit, AddBalance, Outcome
  <1>2. Credit(d, scope, a, amount).bal = GetBalance(d, a) + amount
    BY <1>1 DEF Insert, Outcome
  <1>3. QED
    BY <1>2, CreditEffect

(* The results of a transfer: what it leaves the recipient, and what it    *)
(* leaves the sender, less the value where the sender is the recipient.    *)
LEMMA ExecuteReturns ==
  ASSUME NEW d \in Database, NEW scope, NEW actor \in Address,
         NEW transfer \in TransferAction,
         Execute(d, scope, actor, transfer).err = "nil"
  PROVE  LET done == Execute(d, scope, actor, transfer)
         IN  /\ done.receiverBalance = GetBalance(done.db, transfer.to)
             /\ done.senderBalance
                  = GetBalance(done.db, actor)
                      - (IF transfer.to = actor THEN transfer.value ELSE 0)
  <1> DEFINE to    == transfer.to
             value == transfer.value
             sub == SubBalance(d, scope, actor, value)
             add == Credit(sub.db, scope, to, value)
             done == Execute(d, scope, actor, transfer)
  <1>1. to \in Address /\ value \in Balance /\ value \in Int
    <2>1. to \in Address /\ value \in Balance
      BY DEF TransferAction
    <2>2. QED
      BY <2>1, BalanceInt
  <1>2. /\ sub.err = "nil" /\ add.err = "nil" /\ done.db = add.db
        /\ done.senderBalance = sub.bal /\ done.receiverBalance = add.bal
    BY DEF Execute
  <1>3. sub.db \in Database /\ sub.bal = GetBalance(sub.db, actor)
    BY <1>1, <1>2, SubBalanceType, SubBalanceReturns
  <1>4. /\ add.db \in Database
        /\ add.bal = GetBalance(add.db, to)
        /\ GetBalance(add.db, to) = GetBalance(sub.db, to) + value
        /\ \A x \in Address \ {to} : add.db[x] = sub.db[x]
    <2> DEFINE left == sub.db
    <2>1. left \in Database /\ Credit(left, scope, to, value).err = "nil"
      BY <1>2, <1>3
    <2> HIDE DEF left
    <2>2. Credit(left, scope, to, value).db \in Database
      BY <1>1, <2>1, CreditType
    <2>3. Credit(left, scope, to, value).bal
            = GetBalance(Credit(left, scope, to, value).db, to)
      BY <1>1, <2>1, CreditReturns
    <2>4. /\ GetBalance(Credit(left, scope, to, value).db, to)
               = GetBalance(left, to) + value
          /\ \A x \in Address \ {to} : Credit(left, scope, to, value).db[x] = left[x]
      BY <1>1, <2>1, CreditEffect
    <2>5. QED
      BY <2>2, <2>3, <2>4 DEF left
  <1>5. GetBalance(sub.db, actor) \in Int /\ GetBalance(add.db, actor) \in Int
    BY <1>3, <1>4, GetBalanceType, BalanceInt
  <1> HIDE DEF sub, add, done
  <1>6. CASE to = actor
    <2>1. GetBalance(sub.db, actor) = GetBalance(add.db, actor) - value
      <3>1. GetBalance(add.db, actor) = GetBalance(sub.db, actor) + value
        BY <1>4, <1>6
      <3> HIDE DEF to, value
      <3>2. QED
        BY <1>1, <1>5, <3>1
    <2>2. QED
      BY <1>2, <1>3, <1>4, <1>6, <2>1 DEF done
  <1>7. CASE to # actor
    <2>1. GetBalance(add.db, actor) = GetBalance(sub.db, actor)
      BY <1>4, <1>7 DEF GetBalance
    <2>2. GetBalance(sub.db, actor) = GetBalance(add.db, actor) - 0
      BY <1>5, <2>1
    <2>3. QED
      BY <1>2, <1>3, <1>4, <1>7, <2>2 DEF done
  <1>8. QED
    BY <1>6, <1>7

(* A transaction has a result for each action it has run.                  *)
OnePerAction == \A t \in Tx : Len(outputs[t]) = next[t] - 1

(* The result of the last action of t: the recipient's balance as the view *)
(* has it, and the sender's, which lacks the value if they are the same.   *)
ResultOf(t) ==
  Active(t) /\ err[t] = "nil" /\ next[t] > 1 =>
    LET result   == outputs[t][next[t] - 1]
        transfer == block[t].actions[next[t] - 1]
        actor    == block[t].actor
        missing  == IF transfer.to = actor THEN transfer.value ELSE 0
    IN  /\ result.receiverBalance = GetBalance(view[t], transfer.to)
        /\ result.senderBalance = GetBalance(view[t], actor) - missing

ResultsAreBalances == \A t \in Tx : ResultOf(t)

LEMMA RunActionResult ==
  ASSUME TypeOK, OnePerAction, NEW t \in Tx, RunAction(t)
  PROVE  ResultOf(t)' /\ Len(outputs'[t]) = next'[t] - 1
  <1> DEFINE result == [senderBalance   |-> NextAction(t).senderBalance,
                        receiverBalance |-> NextAction(t).receiverBalance]
             run == block[t].actions[next[t]]
  <1>1. /\ view'[t] = NextAction(t).db
        /\ next'[t] = next[t] + 1
        /\ outputs'[t] = Append(outputs[t], result)
        /\ block' = block
        /\ NextAction(t).err = "nil"
    BY DEF RunAction, TypeOK
  <1>2. next[t] \in Nat /\ Len(outputs[t]) = next[t] - 1
        /\ outputs[t] \in Seq([senderBalance : Balance, receiverBalance : Balance])
    BY DEF TypeOK, OnePerAction
  <1>3. result \in [senderBalance : Balance, receiverBalance : Balance]
    BY NextActionType DEF RunAction
  <1> HIDE DEF result
  <1>4. Len(outputs'[t]) = next'[t] - 1 /\ outputs'[t][next'[t] - 1] = result
    BY <1>1, <1>2, <1>3
  <1>5. block'[t].actions[next'[t] - 1] = run
    BY <1>1, <1>2
  <1>6. /\ block[t].actor \in Address
        /\ run \in TransferAction
        /\ view[t] \in Database
        /\ NextAction(t) = Execute(view[t], DeclaredScope(block[t]), block[t].actor, run)
    BY BlockTypes, NextActionType DEF RunAction, TypeOK, NextAction
  <1>7. /\ NextAction(t).receiverBalance = GetBalance(NextAction(t).db, run.to)
        /\ NextAction(t).senderBalance
             = GetBalance(NextAction(t).db, block[t].actor)
                 - (IF run.to = block[t].actor THEN run.value ELSE 0)
    BY <1>1, <1>6, ExecuteReturns
  <1> HIDE DEF run
  <1>8. QED
    BY <1>1, <1>4, <1>5, <1>7 DEF ResultOf, result

(* What transfer.go:67-79 reports of an action are balances of the view it *)
(* leaves, whatever came before, but for the sender's of a transfer to     *)
(* oneself: ResultShowsBalances, which is false, is false in no other way. *)
THEOREM ResultsShowBalances == Spec => []ResultsAreBalances
  <1> DEFINE Inv == OnePerAction /\ ResultsAreBalances
  <1>1. Init => Inv
    BY DEF Init, OnePerAction, ResultsAreBalances, ResultOf, Active
  <1>2. ASSUME TypeOK, SettleInv, Inv, [Next]_vars PROVE Inv'
    <2>1. ASSUME NEW t \in Tx, Step(t) PROVE Inv'
      <3>1. \A s \in Tx \ {t} : /\ phase'[s] = phase[s] /\ err'[s] = err[s]
                                /\ next'[s] = next[s] /\ view'[s] = view[s]
                                /\ outputs'[s] = outputs[s] /\ block' = block
        BY <1>2, <2>1
        DEF Step, Reject, Abort, Begin, RunAction, FailAction, Finish, Commit, TypeOK
      <3>2. \A s \in Tx \ {t} : ResultOf(s)' /\ Len(outputs'[s]) = next'[s] - 1
        BY <1>2, <3>1 DEF ResultsAreBalances, ResultOf, OnePerAction, Active
      <3>3. ResultOf(t)' /\ Len(outputs'[t]) = next'[t] - 1
        <4>1. CASE RunAction(t)
          BY <1>2, <4>1, RunActionResult
        <4>2. CASE Reject(t) \/ Abort(t) \/ FailAction(t) \/ Commit(t)
          <5>1. /\ ~ (Active(t)' /\ err'[t] = "nil")
                /\ next' = next /\ outputs' = outputs
            BY <1>2, <4>2 DEF Reject, Abort, FailAction, Commit, TypeOK, Active
          <5>2. QED
            BY <1>2, <5>1 DEF ResultsAreBalances, ResultOf, OnePerAction
        <4>3. CASE Begin(t)
          <5>1. next'[t] = 1 /\ next' = next /\ outputs' = outputs
            BY <1>2, <4>3 DEF Begin, Ready, SettleInv
          <5>2. QED
            BY <1>2, <5>1 DEF ResultsAreBalances, ResultOf, OnePerAction
        <4>4. CASE Finish(t)
          <5>1. /\ Active(t) /\ err' = err /\ next' = next /\ view' = view
                /\ outputs' = outputs /\ block' = block
            BY <4>4 DEF Finish, Active
          <5>2. QED
            BY <1>2, <5>1 DEF ResultsAreBalances, ResultOf, OnePerAction
        <4>5. QED
          BY <2>1, <4>1, <4>2, <4>3, <4>4 DEF Step
      <3>4. QED
        BY <3>2, <3>3 DEF ResultsAreBalances, OnePerAction
    <2>2. CASE UNCHANGED vars
      BY <1>2, <2>2 DEF vars, ResultsAreBalances, OnePerAction, ResultOf, Active
    <2>3. QED
      BY <1>2, <2>1, <2>2 DEF Next, Terminating
  <1>3. QED
    BY <1>1, <1>2, TypeCorrect, SettleInvariant, PTL DEF Spec
=============================================================================

--------------------------- MODULE StorageProofs ---------------------------
(***************************************************************************)
(* Lemmas about the balance store: what its operations return, and how     *)
(* they and a change of one account move the supply.  At the end, what the *)
(* proofs about references defined by recursion need: induction over the   *)
(* natural numbers, and that such a definition defines something.          *)
(***************************************************************************)
EXTENDS Transfer, FiniteSetTheorems, WellFoundedInduction, TLAPS

(* Balances are numbers up to MaxUint64. *)
LEMMA BalanceNat ==
  /\ Balance \subseteq Nat
  /\ \A n \in Balance : n <= MaxUint64
  BY StorageAssumption DEF Balance

(* A missing record counts as zero, so a balance is always a number of 64  *)
(* bits (storage.go, innerGetBalance).                                     *)
LEMMA GetBalanceType ==
  ASSUME NEW d \in Database, NEW a \in Address
  PROVE  GetBalance(d, a) \in Balance
  BY StorageAssumption DEF GetBalance, Database, Record, Balance

(* The coins of any accounts are finitely many. *)
LEMMA CoinsFinite ==
  ASSUME NEW d, NEW S \in SUBSET Address
  PROVE  /\ IsFiniteSet(Coins(d, S))
         /\ SupplyOf(d, S) \in Nat
  <1>1. IsFiniteSet(S)
    BY StorageAssumption, FS_Subset
  <1>2. IsFiniteSet(1 .. MaxUint64)
    BY StorageAssumption, FS_Interval
  <1>3. IsFiniteSet(S \X (1 .. MaxUint64))
    BY <1>1, <1>2, FS_Product
  <1>4. Coins(d, S) \in SUBSET (S \X (1 .. MaxUint64))
    BY DEF Coins
  <1>5. IsFiniteSet(Coins(d, S))
    BY <1>3, <1>4, FS_Subset
  <1>6. QED
    BY <1>5, FS_CardinalityType DEF SupplyOf

(* The supply of some accounts depends on the balances of those only. *)
LEMMA SupplyLocal ==
  ASSUME NEW d, NEW e, NEW S \in SUBSET Address,
         \A a \in S : GetBalance(d, a) = GetBalance(e, a)
  PROVE  SupplyOf(d, S) = SupplyOf(e, S)
  <1>1. Coins(d, S) = Coins(e, S)
    BY DEF Coins
  <1>2. QED
    BY <1>1 DEF SupplyOf

(* The supply of disjoint accounts adds up. *)
LEMMA SupplyDisjoint ==
  ASSUME NEW d, NEW S \in SUBSET Address, NEW T \in SUBSET Address,
         S \cap T = {}
  PROVE  SupplyOf(d, S \cup T) = SupplyOf(d, S) + SupplyOf(d, T)
  <1>1. Coins(d, S \cup T) = Coins(d, S) \cup Coins(d, T)
    BY DEF Coins
  <1>2. Coins(d, S) \cap Coins(d, T) = {}
    BY DEF Coins
  <1>3. /\ IsFiniteSet(Coins(d, S)) /\ SupplyOf(d, S) \in Nat
        /\ IsFiniteSet(Coins(d, T)) /\ SupplyOf(d, T) \in Nat
    BY CoinsFinite
  <1>4. Cardinality(Coins(d, S) \cup Coins(d, T))
          = SupplyOf(d, S) + SupplyOf(d, T) - Cardinality(Coins(d, S) \cap Coins(d, T))
    BY <1>3, FS_Union DEF SupplyOf
  <1>5. Cardinality(Coins(d, S) \cap Coins(d, T)) = 0
    BY <1>2, FS_EmptySet, Zenon
  <1>6. SupplyOf(d, S \cup T) = Cardinality(Coins(d, S) \cup Coins(d, T))
    BY <1>1, Zenon DEF SupplyOf
  <1>7. QED
    BY <1>3, <1>4, <1>5, <1>6

(* The supply of one account is its balance. *)
LEMMA SupplyOne ==
  ASSUME NEW d \in Database, NEW a \in Address
  PROVE  SupplyOf(d, {a}) = GetBalance(d, a)
  <1> DEFINE n == GetBalance(d, a)
             coin == [i \in 1 .. n |-> <<a, i>>]
  <1>1. /\ n \in Nat
        /\ n <= MaxUint64
    BY GetBalanceType, StorageAssumption DEF Balance
  <1>2. Coins(d, {a}) = {<<a, i>> : i \in 1 .. n}
    <2>1. ASSUME NEW c \in Coins(d, {a})
          PROVE  c \in {<<a, i>> : i \in 1 .. n}
      BY <2>1, <1>1, StorageAssumption DEF Coins
    <2>2. ASSUME NEW i \in 1 .. n
          PROVE  <<a, i>> \in Coins(d, {a})
      BY <2>2, <1>1, StorageAssumption DEF Coins
    <2>3. QED
      BY <2>1, <2>2
  <1>3. coin \in Bijection(1 .. n, Coins(d, {a}))
    BY <1>2 DEF Bijection, Injection, Surjection, IsInjective
  <1>4. ExistsBijection(1 .. n, Coins(d, {a}))
    BY <1>3 DEF ExistsBijection
  <1>5. IsFiniteSet(1 .. n) /\ Cardinality(1 .. n) = n
    BY <1>1, FS_Interval
  <1>6. QED
    BY <1>4, <1>5, FS_Bijection DEF SupplyOf

(* The supply of some accounts is the balance of one of them and the       *)
(* supply of the others.                                                   *)
LEMMA SupplySplit ==
  ASSUME NEW d \in Database, NEW S \in SUBSET Address, NEW a \in S
  PROVE  SupplyOf(d, S) = GetBalance(d, a) + SupplyOf(d, S \ {a})
  <1>1. SupplyOf(d, {a} \cup (S \ {a})) = SupplyOf(d, {a}) + SupplyOf(d, S \ {a})
    BY SupplyDisjoint, {a} \in SUBSET Address, S \ {a} \in SUBSET Address,
       {a} \cap (S \ {a}) = {}
  <1>2. {a} \cup (S \ {a}) = S
    OBVIOUS
  <1>3. QED
    BY <1>1, <1>2, SupplyOne

(* When one account changes, the supply changes by as much. *)
LEMMA SupplyChange ==
  ASSUME NEW d \in Database, NEW e \in Database, NEW S \in SUBSET Address,
         NEW a \in S, \A x \in S \ {a} : GetBalance(e, x) = GetBalance(d, x)
  PROVE  SupplyOf(e, S) - GetBalance(e, a) = SupplyOf(d, S) - GetBalance(d, a)
  <1>1. SupplyOf(e, S \ {a}) = SupplyOf(d, S \ {a})
    BY SupplyLocal, S \ {a} \in SUBSET Address
  <1>2. SupplyOf(d, S \ {a}) \in Nat
    BY CoinsFinite, S \ {a} \in SUBSET Address
  <1>3. GetBalance(d, a) \in Int /\ GetBalance(e, a) \in Int
    BY GetBalanceType DEF Balance
  <1>4. QED
    BY <1>1, <1>2, <1>3, SupplySplit
-----------------------------------------------------------------------------
(* What SubBalance returns: a database and a balance, and, when it         *)
(* succeeds, the account with that much less and the others as they were.  *)
LEMMA SubBalanceType ==
  ASSUME NEW d \in Database, NEW scope, NEW a \in Address, NEW amount \in Balance
  PROVE  LET sub == SubBalance(d, scope, a, amount)
         IN  /\ sub.db \in Database
             /\ sub.bal \in Balance
             /\ sub.err \in {"nil", "ErrInvalidKeyOrPermission",
                             "ErrInvalidAddress", "ErrInvalidBalance"}
  <1>1. CASE ~ Exists(d, scope, a)
    BY <1>1, StorageAssumption DEF SubBalance, Outcome, Balance
  <1>2. CASE Exists(d, scope, a)
    <2>1. d[a] \in Balance
      BY <1>2 DEF Exists, Database, Record
    <2>2. CASE d[a] < amount
      BY <1>2, <2>1, <2>2, StorageAssumption DEF SubBalance, Outcome, Balance
    <2>3. CASE d[a] = amount
      BY <1>2, <2>1, <2>3, StorageAssumption
      DEF SubBalance, Remove, Outcome, Balance, Database, Record
    <2>4. CASE d[a] > amount
      <3>1. d[a] - amount \in Balance
        BY <2>1, <2>4, StorageAssumption DEF Balance
      <3>2. SubBalance(d, scope, a, amount) = Insert(d, scope, a, d[a] - amount)
        BY <1>2, <2>1, <2>4, StorageAssumption DEF SubBalance, Balance
      <3>3. QED
        BY <3>1, <3>2 DEF Insert, Outcome, Database, Record
    <2>5. QED
      BY <2>1, <2>2, <2>3, <2>4, StorageAssumption DEF Balance
  <1>3. QED
    BY <1>1, <1>2

LEMMA SubBalanceEffect ==
  ASSUME NEW d \in Database, NEW scope, NEW a \in Address, NEW amount \in Balance,
         SubBalance(d, scope, a, amount).err = "nil"
  PROVE  LET sub == SubBalance(d, scope, a, amount)
         IN  /\ GetBalance(d, a) >= amount
             /\ GetBalance(sub.db, a) = GetBalance(d, a) - amount
             /\ \A x \in Address \ {a} : sub.db[x] = d[x]
  <1>1. Exists(d, scope, a)
    BY DEF SubBalance, Outcome
  <1>2. d[a] \in Balance /\ d[a] # Absent
    BY <1>1 DEF Exists, Database, Record
  <1>3. ~ (d[a] < amount)
    BY <1>1, <1>2, StorageAssumption DEF SubBalance, Outcome, Balance
  <1>4. CASE d[a] = amount
    BY <1>1, <1>2, <1>4, StorageAssumption
    DEF SubBalance, Remove, Outcome, Balance, Database, Record, GetBalance
  <1>5. CASE d[a] > amount
    <2>1. d[a] - amount \in Balance /\ d[a] - amount # Absent
      BY <1>2, <1>5, StorageAssumption DEF Balance
    <2>2. SubBalance(d, scope, a, amount) = Insert(d, scope, a, d[a] - amount)
      BY <1>1, <1>2, <1>5, StorageAssumption DEF SubBalance, Balance
    <2>3. SubBalance(d, scope, a, amount).db = [d EXCEPT ![a] = d[a] - amount]
      BY <2>2 DEF Insert, Outcome
    <2>4. QED
      BY <1>2, <1>5, <2>1, <2>3, StorageAssumption DEF Database, GetBalance, Balance
  <1>6. QED
    BY <1>2, <1>3, <1>4, <1>5, StorageAssumption DEF Balance

(* What AddBalance returns to a transfer: a missing record is created.     *)
LEMMA CreditType ==
  ASSUME NEW d \in Database, NEW scope, NEW a \in Address, NEW amount \in Balance
  PROVE  LET add == Credit(d, scope, a, amount)
         IN  /\ add.db \in Database
             /\ add.bal \in Balance
             /\ add.err \in {"nil", "ErrInvalidKeyOrPermission", "ErrInvalidBalance"}
  <1>1. GetBalance(d, a) \in Balance /\ 0 \in Balance
    BY GetBalanceType, StorageAssumption DEF Balance
  <1>2. CASE ~ CanRead(scope, a) \/ GetBalance(d, a) + amount > MaxUint64
    BY <1>1, <1>2 DEF Credit, AddBalance, Outcome
  <1>3. CASE CanRead(scope, a) /\ ~ (GetBalance(d, a) + amount > MaxUint64)
    <2>1. GetBalance(d, a) + amount \in Balance
      BY <1>1, <1>3, StorageAssumption DEF Balance
    <2>2. Credit(d, scope, a, amount)
            = Insert(d, scope, a, GetBalance(d, a) + amount)
      BY <1>3 DEF Credit, AddBalance
    <2>3. QED
      BY <2>1, <2>2 DEF Insert, Outcome, Database, Record
  <1>4. QED
    BY <1>2, <1>3

LEMMA CreditEffect ==
  ASSUME NEW d \in Database, NEW scope, NEW a \in Address, NEW amount \in Balance,
         Credit(d, scope, a, amount).err = "nil"
  PROVE  LET add == Credit(d, scope, a, amount)
         IN  /\ GetBalance(add.db, a) = GetBalance(d, a) + amount
             /\ \A x \in Address \ {a} : add.db[x] = d[x]
  <1>1. GetBalance(d, a) \in Balance
    BY GetBalanceType
  <1>2. /\ ~ (GetBalance(d, a) + amount > MaxUint64)
        /\ Credit(d, scope, a, amount)
             = Insert(d, scope, a, GetBalance(d, a) + amount)
    BY DEF Credit, AddBalance, Outcome
  <1>3. Credit(d, scope, a, amount).db
          = [d EXCEPT ![a] = GetBalance(d, a) + amount]
    BY <1>2 DEF Insert, Outcome
  <1>4. GetBalance(d, a) + amount # Absent
    BY <1>1, StorageAssumption DEF Balance
  <1>5. [d EXCEPT ![a] = GetBalance(d, a) + amount][a] = GetBalance(d, a) + amount
    BY DEF Database
  <1>6. GetBalance(Credit(d, scope, a, amount).db, a)
          = GetBalance(d, a) + amount
    BY <1>3, <1>4, <1>5 DEF GetBalance
  <1>7. QED
    BY <1>3, <1>6 DEF Database
-----------------------------------------------------------------------------
(* A fee or the first half of a transfer takes its amount from the supply  *)
(* of any accounts that include the payer.                                 *)
LEMMA SubBalanceSupply ==
  ASSUME NEW d \in Database, NEW scope, NEW S \in SUBSET Address, NEW a \in S,
         NEW amount \in Balance, SubBalance(d, scope, a, amount).err = "nil"
  PROVE  SupplyOf(SubBalance(d, scope, a, amount).db, S) + amount = SupplyOf(d, S)
  <1> DEFINE e == SubBalance(d, scope, a, amount).db
  <1>1. e \in Database
    BY SubBalanceType
  <1>2. /\ GetBalance(e, a) = GetBalance(d, a) - amount
        /\ \A x \in S \ {a} : GetBalance(e, x) = GetBalance(d, x)
    BY SubBalanceEffect DEF GetBalance
  <1>3. GetBalance(d, a) \in Int /\ SupplyOf(d, S) \in Int /\ SupplyOf(e, S) \in Int
    BY GetBalanceType, CoinsFinite DEF Balance
  <1>4. SupplyOf(e, S) - GetBalance(e, a) = SupplyOf(d, S) - GetBalance(d, a)
    BY <1>1, <1>2, SupplyChange
  <1>5. QED
    BY <1>2, <1>3, <1>4 DEF Balance

LEMMA CreditSupply ==
  ASSUME NEW d \in Database, NEW scope, NEW S \in SUBSET Address, NEW a \in S,
         NEW amount \in Balance, Credit(d, scope, a, amount).err = "nil"
  PROVE  SupplyOf(Credit(d, scope, a, amount).db, S) = SupplyOf(d, S) + amount
  <1> DEFINE e == Credit(d, scope, a, amount).db
  <1>1. e \in Database
    BY CreditType
  <1>2. /\ GetBalance(e, a) = GetBalance(d, a) + amount
        /\ \A x \in S \ {a} : GetBalance(e, x) = GetBalance(d, x)
    BY CreditEffect DEF GetBalance
  <1>3. GetBalance(d, a) \in Int /\ SupplyOf(d, S) \in Int /\ SupplyOf(e, S) \in Int
    BY GetBalanceType, CoinsFinite DEF Balance
  <1>4. SupplyOf(e, S) - GetBalance(e, a) = SupplyOf(d, S) - GetBalance(d, a)
    BY <1>1, <1>2, SupplyChange
  <1>5. QED
    BY <1>2, <1>3, <1>4 DEF Balance
-----------------------------------------------------------------------------
(* A transfer returns a database of the right type whatever becomes of it. *)
LEMMA ExecuteType ==
  ASSUME NEW d \in Database, NEW scope, NEW actor \in Address,
         NEW transfer \in TransferAction
  PROVE  LET done == Execute(d, scope, actor, transfer)
         IN  /\ done.db \in Database
             /\ done.senderBalance \in Balance
             /\ done.receiverBalance \in Balance
             /\ done.err \in {"nil", "ErrInvalidKeyOrPermission",
                              "ErrInvalidAddress", "ErrInvalidBalance",
                              "ErrOutputValueZero", "ErrOutputMemoTooLarge"}
  <1> DEFINE sub == SubBalance(d, scope, actor, transfer.value)
             add == Credit(sub.db, scope, transfer.to, transfer.value)
  <1>1. transfer.to \in Address /\ transfer.value \in Balance
    BY DEF TransferAction
  <1>2. /\ sub.db \in Database
        /\ sub.bal \in Balance
        /\ sub.err \in {"nil", "ErrInvalidKeyOrPermission",
                        "ErrInvalidAddress", "ErrInvalidBalance"}
    BY <1>1, SubBalanceType
  <1>3. /\ add.db \in Database
        /\ add.bal \in Balance
        /\ add.err \in {"nil", "ErrInvalidKeyOrPermission", "ErrInvalidBalance"}
    BY <1>1, <1>2, CreditType
  <1>4. Validate(transfer) \in {"nil", "ErrOutputValueZero", "ErrOutputMemoTooLarge"}
    BY DEF Validate
  <1>5. 0 \in Balance
    BY StorageAssumption DEF Balance
  <1> HIDE DEF sub, add
  <1>6. QED
    BY <1>2, <1>3, <1>4, <1>5 DEF Execute, sub, add

(* A transfer that succeeds leaves the supply of any accounts that include *)
(* both parties as it was, also when the two parties are one.              *)
LEMMA ExecuteSupply ==
  ASSUME NEW d \in Database, NEW scope, NEW S \in SUBSET Address,
         NEW actor \in S, NEW transfer \in TransferAction, transfer.to \in S,
         Execute(d, scope, actor, transfer).err = "nil"
  PROVE  SupplyOf(Execute(d, scope, actor, transfer).db, S) = SupplyOf(d, S)
  <1> DEFINE sub == SubBalance(d, scope, actor, transfer.value)
             add == Credit(sub.db, scope, transfer.to, transfer.value)
  <1>1. transfer.value \in Balance
    BY DEF TransferAction
  <1>2. /\ sub.err = "nil"
        /\ add.err = "nil"
        /\ Execute(d, scope, actor, transfer).db = add.db
    BY DEF Execute
  <1>3. sub.db \in Database
    BY <1>1, SubBalanceType
  <1>4. SupplyOf(sub.db, S) + transfer.value = SupplyOf(d, S)
    BY <1>1, <1>2, SubBalanceSupply
  <1>5. SupplyOf(add.db, S) = SupplyOf(sub.db, S) + transfer.value
    BY <1>1, <1>2, <1>3, CreditSupply
  <1>6. QED
    BY <1>2, <1>4, <1>5

(* A valid transfer whose value the sender has does not fail: the coins of *)
(* its parties together fit in 64 bits, so the recipient's record can take *)
(* the value.                                                              *)
LEMMA ExecuteSucceeds ==
  ASSUME NEW d \in Database, NEW S \in SUBSET Address, SupplyOf(d, S) <= MaxUint64,
         NEW from \in S, NEW transfer \in TransferAction, transfer.to \in S,
         Validate(transfer) = "nil", transfer.value <= GetBalance(d, from)
  PROVE  Execute(d, FullScope, from, transfer).err = "nil"
  <1> DEFINE to    == transfer.to
             value == transfer.value
             sub == SubBalance(d, FullScope, from, value)
             add == Credit(sub.db, FullScope, to, value)
  <1>1. value \in Balance /\ value \in Nat /\ value > 0 /\ MaxUint64 \in Nat
    <2>1. value \in Balance
      BY DEF TransferAction
    <2>2. value # 0
      BY DEF Validate
    <2>3. value \in Nat /\ MaxUint64 \in Nat
      BY <2>1, BalanceNat, StorageAssumption
    <2> HIDE DEF value
    <2>4. value > 0
      BY <2>2, <2>3
    <2>5. QED
      BY <2>1, <2>3, <2>4
  <1>2. \A a \in Address : /\ CanRead(FullScope, a)
                           /\ "Write" \in FullScope[a]
                           /\ "Allocate" \in FullScope[a]
    BY DEF CanRead, FullScope, Permission
  <1>3. sub.err = "nil"
    <2>1. d[from] # Absent
      BY <1>1 DEF GetBalance
    <2>2. d[from] \in Balance /\ d[from] = GetBalance(d, from)
      BY <2>1 DEF GetBalance, Database, Record
    <2>3. Exists(d, FullScope, from)
      BY <1>2, <2>1 DEF Exists
    <2>4. ~ (d[from] < value) /\ (d[from] = value \/ d[from] > value)
      <3> DEFINE held == d[from]
      <3>1. held \in Nat /\ value <= held
        BY <2>2, BalanceNat
      <3> HIDE DEF held
      <3>2. ~ (held < value) /\ (held = value \/ held > value)
        BY <1>1, <3>1
      <3>3. QED
        BY <3>2 DEF held
    <2>5. CASE d[from] = value
      BY <1>1, <1>2, <2>3, <2>4, <2>5 DEF SubBalance, Remove, Outcome
    <2>6. CASE d[from] > value
      BY <1>1, <1>2, <2>1, <2>2, <2>3, <2>4, <2>6, BalanceNat DEF SubBalance, Insert, Outcome
    <2>7. QED
      BY <2>4, <2>5, <2>6
  <1>4. sub.db \in Database /\ SupplyOf(sub.db, S) + value = SupplyOf(d, S)
    BY <1>1, <1>3, SubBalanceType, SubBalanceSupply
  <1>5. GetBalance(sub.db, to) \in Nat /\ ~ (GetBalance(sub.db, to) + value > MaxUint64)
    <2> DEFINE rest == SupplyOf(sub.db, S \ {to})
               kept == SupplyOf(sub.db, S)
               held == GetBalance(sub.db, to)
    <2>1. kept = held + rest
      BY <1>4, SupplySplit
    <2>2. rest \in Nat /\ kept \in Nat
      BY CoinsFinite, S \ {to} \in SUBSET Address
    <2>3. held \in Nat
      BY <1>4, GetBalanceType, BalanceNat
    <2>4. kept + value <= MaxUint64
      BY <1>4
    <2> HIDE DEF rest, kept, held
    <2>5. held + value <= MaxUint64
      BY <1>1, <2>1, <2>2, <2>3, <2>4
    <2>6. QED
      BY <1>1, <2>3, <2>5 DEF held
  <1>6. add.err = "nil"
    <2> HIDE DEF sub
    <2>1. QED
      BY <1>2, <1>5 DEF add, Credit, AddBalance, Insert, Outcome
  <1>7. QED
    BY <1>3, <1>6 DEF Execute
-----------------------------------------------------------------------------
(* Induction over the natural numbers, for a set instead of a predicate: a *)
(* set without a least number outside has all of them.                     *)
LEMMA NatSetInduction ==
  ASSUME NEW S, 0 \in S, \A n \in Nat : n \in S => n + 1 \in S
  PROVE  Nat \subseteq S
  <1>1. SUFFICES ASSUME Nat \ S # {} PROVE FALSE
    OBVIOUS
  <1>2. PICK n \in Nat \ S : \A m \in Nat \ S : ~ (<<m, n>> \in OpToRel(<, Nat))
    BY <1>1, NatLessThanWellFounded, WFMin, Nat \ S \subseteq Nat
  <1>3. n \in Nat /\ n \notin S /\ \A m \in Nat \ S : ~ (m < n)
    BY <1>2 DEF OpToRel
  <1>4. QED
    <2>1. n # 0
      BY <1>3
    <2>2. n - 1 \in Nat /\ n - 1 < n /\ (n - 1) + 1 = n
      BY <1>3, <2>1
    <2>3. n - 1 \in S
      BY <1>3, <2>2
    <2>4. QED
      BY <1>3, <2>2, <2>3

(* The same up to a bound. *)
LEMMA FiniteInduction ==
  ASSUME NEW n \in Nat, NEW S, 0 \in S, \A k \in 1 .. n : k - 1 \in S => k \in S
  PROVE  0 .. n \subseteq S
  <1> DEFINE T == {k \in Nat : k <= n => k \in S}
  <1>1. 0 \in T
    OBVIOUS
  <1>2. ASSUME NEW k \in Nat, k \in T PROVE k + 1 \in T
    <2>1. k + 1 <= n => k \in S /\ k + 1 \in 1 .. n /\ (k + 1) - 1 = k
      BY <1>2
    <2>2. QED
      BY <2>1
  <1> HIDE DEF T
  <1>3. Nat \subseteq T
    BY <1>1, <1>2, NatSetInduction
  <1>4. QED
    BY <1>3 DEF T

(* The values of a function on 0 .. n are in a set that has the first one, *)
(* and the next of each it has.                                            *)
LEMMA RangeByInduction ==
  ASSUME NEW n \in Nat, NEW T, NEW f, f = [k \in 0 .. n |-> f[k]], f[0] \in T,
         \A k \in 1 .. n : f[k - 1] \in T => f[k] \in T
  PROVE  f \in [0 .. n -> T]
  <1> DEFINE S == {k \in 0 .. n : f[k] \in T}
  <1>1. 0 \in S
    OBVIOUS
  <1>2. \A k \in 1 .. n : k - 1 \in S => k \in S
    OBVIOUS
  <1> HIDE DEF S
  <1>3. 0 .. n \subseteq S
    BY <1>1, <1>2, FiniteInduction
  <1>4. QED
    BY <1>3 DEF S

(* A function that is given by its first value and by a step from each     *)
(* value to the next exists: the recursive definitions of the abstract     *)
(* modules define something.                                               *)
Iterates(g, n, T, start, step) ==
  /\ g \in [0 .. n -> T]
  /\ g[0] = start
  /\ \A k \in 1 .. n : g[k] = step[<<g[k - 1], k>>]

LEMMA PrimitiveRecursion ==
  ASSUME NEW n \in Nat, NEW T, NEW start \in T, NEW step \in [T \X (1 .. n) -> T]
  PROVE  \E g : Iterates(g, n, T, start, step)
  <1> DEFINE Upto(m, g) == /\ g \in [0 .. m -> T]
                           /\ g[0] = start
                           /\ \A k \in 1 .. m : g[k] = step[<<g[k - 1], k>>]
             S == {m \in Nat : m <= n => \E g : Upto(m, g)}
  <1>1. 0 \in S
    <2>1. Upto(0, [k \in 0 .. 0 |-> start])
      OBVIOUS
    <2>2. QED
      BY <2>1
  <1>2. ASSUME NEW m \in Nat, m \in S PROVE m + 1 \in S
    <2>1. SUFFICES ASSUME m + 1 <= n PROVE \E g : Upto(m + 1, g)
      OBVIOUS
    <2>2. m <= n /\ m + 1 \in 1 .. n /\ m + 1 \in Nat
      BY <2>1
    <2>3. PICK g : Upto(m, g)
      BY <1>2, <2>2
    <2>4. g[m] \in T /\ step[<<g[m], m + 1>>] \in T
      BY <2>2, <2>3
    <2> DEFINE h == [k \in 0 .. m + 1 |-> IF k = m + 1 THEN step[<<g[m], m + 1>>] ELSE g[k]]
    <2>5. h \in [0 .. m + 1 -> T] /\ h[0] = start
      BY <2>3, <2>4
    <2>6. ASSUME NEW k \in 1 .. m + 1 PROVE h[k] = step[<<h[k - 1], k>>]
      <3>1. k \in Int /\ k - 1 \in 0 .. m + 1 /\ k \in 0 .. m + 1 /\ k - 1 # m + 1
            /\ (k = m + 1 => k - 1 = m) /\ (k # m + 1 => k \in 1 .. m)
        OBVIOUS
      <3>2. h[k - 1] = g[k - 1]
        BY <3>1
      <3>3. CASE k = m + 1
        BY <3>1, <3>2, <3>3
      <3>4. CASE k # m + 1
        <4>1. h[k] = g[k] /\ g[k] = step[<<g[k - 1], k>>]
          BY <2>3, <3>1, <3>4
        <4>2. QED
          BY <3>2, <4>1
      <3>5. QED
        BY <3>3, <3>4
    <2> HIDE DEF h
    <2>7. Upto(m + 1, h)
      BY <2>5, <2>6
    <2>8. QED
      BY <2>7
  <1> HIDE DEF S
  <1>3. Nat \subseteq S
    BY <1>1, <1>2, NatSetInduction
  <1>4. n \in S
    BY <1>3
  <1>5. QED
    BY <1>4 DEF S, Iterates
=============================================================================

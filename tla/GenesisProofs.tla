--------------------------- MODULE GenesisProofs ---------------------------
(***************************************************************************)
(* Theorems about loading any genesis file: the records add up to the      *)
(* supply that was checked, no credit fails by itself, what is left is a   *)
(* database that blocks can be executed on, and every account has the sum  *)
(* of its allocations in the list that the file was made from.             *)
(***************************************************************************)
EXTENDS Genesis, StorageProofs

(* An allocation that is due is one of the list. *)
LEMMA NextAllocationType ==
  ASSUME TypeOK, loaded < Len(allocations)
  PROVE  /\ NextAllocation.address \in Address
         /\ NextAllocation.balance \in Balance
  <1>1. allocations \in Seq(Allocation) /\ loaded + 1 \in 1 .. Len(allocations)
    BY DEF TypeOK
  <1>2. allocations[loaded + 1] \in Allocation
    BY <1>1
  <1>3. QED
    BY <1>2 DEF NextAllocation, Allocation

(* The hook is the transfer's credit, with every permission. *)
LEMMA CreditingIsCredit ==
  Crediting = Credit(db, FullScope, NextAllocation.address, NextAllocation.balance)
  BY DEF Crediting, Credit, AddBalanceHook

(* A credit that fits in the supply succeeds and adds to the records what  *)
(* the allocation says: no account has more than the supply.               *)
LEMMA CreditFits ==
  ASSUME TypeOK, SupplyIsSum, loaded < Len(allocations),
         supply + NextAllocation.balance <= MaxUint64
  PROVE  /\ Crediting.err = "nil"
         /\ Crediting.db \in Database
         /\ Supply(Crediting.db) = supply + NextAllocation.balance
  <1> DEFINE a == NextAllocation.address
             n == NextAllocation.balance
  <1>1. a \in Address /\ n \in Balance /\ db \in Database /\ supply \in Nat /\ n \in Nat
    BY NextAllocationType, BalanceNat DEF TypeOK
  <1>2. GetBalance(db, a) <= supply
    <2>1. Supply(db) = GetBalance(db, a) + SupplyOf(db, Address \ {a})
      BY <1>1, SupplySplit, Address \in SUBSET Address DEF Supply
    <2>2. SupplyOf(db, Address \ {a}) \in Nat /\ GetBalance(db, a) \in Nat
      BY <1>1, CoinsFinite, GetBalanceType, BalanceNat, Address \ {a} \in SUBSET Address
    <2>3. QED
      BY <1>1, <2>1, <2>2 DEF SupplyIsSum
  <1>3. GetBalance(db, a) \in Nat /\ ~ (GetBalance(db, a) + n > MaxUint64)
    <2>1. GetBalance(db, a) \in Nat /\ MaxUint64 \in Nat
      BY <1>1, GetBalanceType, BalanceNat, StorageAssumption
    <2>2. supply + n <= MaxUint64
      OBVIOUS
    <2> HIDE DEF a, n
    <2>3. QED
      BY <1>1, <1>2, <2>1, <2>2
  <1>4. CanRead(FullScope, a) /\ "Write" \in FullScope[a] /\ "Allocate" \in FullScope[a]
    BY <1>1 DEF CanRead, FullScope, Permission
  <1>5. Crediting.err = "nil"
    BY <1>3, <1>4, CreditingIsCredit DEF Credit, AddBalance, Insert, Outcome
  <1>6. Crediting.db \in Database
    BY <1>1, CreditingIsCredit, CreditType
  <1>7. SupplyOf(Crediting.db, Address) = SupplyOf(db, Address) + n
    BY <1>1, <1>5, CreditingIsCredit, CreditSupply, Address \in SUBSET Address
  <1>8. QED
    BY <1>5, <1>6, <1>7 DEF SupplyIsSum, Supply
-----------------------------------------------------------------------------
(* The inductive invariant.  A file is read from its start, so a list that *)
(* replaces another before that is as long as it has to be (FromTheStart); *)
(* that no credit fails rests on SupplyIsSum.  Only a whole file is        *)
(* loaded, and it holds the list the command was given (WholeList).        *)
FromTheStart == status = "down" => loaded = 0

WholeList == /\ file = "whole" => allocations = allocs
             /\ status \in {"loading", "done"} => file = "whole"

LoadInv == TypeOK /\ FromTheStart /\ WholeList /\ SupplyIsSum /\ CreditNeverFails

LEMMA EmptySupply ==
  ASSUME NEW d, \A a \in Address : d[a] = Absent
  PROVE  Supply(d) = 0
  <1>1. \A a \in Address : GetBalance(d, a) = 0
    BY DEF GetBalance
  <1>2. Coins(d, Address) = {}
    BY <1>1 DEF Coins
  <1>3. QED
    BY <1>2, FS_EmptySet DEF Supply, SupplyOf

LEMMA InitLoadInv == Init => LoadInv
  <1> SUFFICES ASSUME Init PROVE LoadInv
    OBVIOUS
  <1>0. allocs \in Seq(Allocation)
    <2>1. PICK n \in 0 .. MaxAllocations : allocs \in [1 .. n -> Allocation]
      BY DEF Init
    <2>2. n \in Nat
      BY GenesisAssumption
    <2>3. QED
      BY <2>1, <2>2
  <1>1. allocations \in Seq(Allocation) /\ loaded \in 0 .. Len(allocations)
    BY DEF Init
  <1>2. supply \in Balance
    BY StorageAssumption DEF Init, Balance
  <1>3. db \in Database
    BY DEF Init, Database, Record
  <1>4. TypeOK
    BY <1>0, <1>1, <1>2, <1>3 DEF Init, TypeOK
  <1>5. SupplyIsSum
    BY EmptySupply DEF Init, SupplyIsSum
  <1>6. QED
    BY <1>4, <1>5 DEF Init, LoadInv, FromTheStart, WholeList, CreditNeverFails

LEMMA NextLoadInv == LoadInv /\ [Next]_vars => LoadInv'
  <1> SUFFICES ASSUME LoadInv, [Next]_vars PROVE LoadInv'
    OBVIOUS
  <1> USE DEF LoadInv
  <1>1. CASE GenerateGenesis
    <2>1. allocations' \in Seq(Allocation)
      <3>1. allocs \in Seq(Allocation)
        BY DEF TypeOK
      <3>2. ASSUME NEW n \in 0 .. Len(allocs), allocations' = Beginning(n)
            PROVE  allocations' \in Seq(Allocation)
        BY <3>1, <3>2 DEF Beginning
      <3>3. QED
        BY <1>1, <3>1, <3>2 DEF GenerateGenesis
    <2>2. loaded' = 0 /\ loaded' \in 0 .. Len(allocations')
      BY <1>1, <2>1 DEF GenerateGenesis, FromTheStart
    <2>3. /\ file' \in {"torn", "whole"} /\ allocs' = allocs
          /\ file' = "whole" => allocations' = allocs
          /\ status = "down" /\ status' = status /\ supply' = supply /\ db' = db
      BY <1>1 DEF GenerateGenesis
    <2>4. TypeOK'
      BY <2>1, <2>2, <2>3 DEF TypeOK
    <2>5. QED
      BY <2>2, <2>3, <2>4 DEF FromTheStart, WholeList, SupplyIsSum, CreditNeverFails
  <1>2. CASE Start
    BY <1>2 DEF Start, TypeOK, FromTheStart, WholeList, SupplyIsSum, CreditNeverFails
  <1>3. CASE Allocate
    <2> DEFINE fits == supply + NextAllocation.balance <= MaxUint64
    <2>1. /\ status = "loading" /\ loaded < Len(allocations)
          /\ file' = file /\ allocations' = allocations /\ allocs' = allocs
      BY <1>3 DEF Allocate
    <2>2. CASE fits
      <3>1. /\ Crediting.err = "nil" /\ Crediting.db \in Database
            /\ Supply(Crediting.db) = supply + NextAllocation.balance
        BY <2>1, <2>2, CreditFits
      <3>2. status' = "loading"
        BY <1>3, <2>1, <2>2, <3>1 DEF Allocate
      <3>3. /\ db' = Crediting.db
            /\ supply' = supply + NextAllocation.balance
            /\ loaded' = loaded + 1
        BY <1>3, <2>2, <3>2 DEF Allocate
      <3>4. supply' \in Balance
        <4>1. supply \in Nat /\ NextAllocation.balance \in Nat /\ MaxUint64 \in Nat
          BY <2>1, NextAllocationType, BalanceNat, StorageAssumption DEF TypeOK
        <4>2. QED
          BY <2>2, <3>3, <4>1 DEF Balance
      <3>5. loaded' \in 0 .. Len(allocations')
        BY <2>1, <3>3 DEF TypeOK
      <3>6. TypeOK'
        BY <2>1, <3>1, <3>2, <3>3, <3>4, <3>5 DEF TypeOK
      <3>7. QED
        BY <2>1, <3>1, <3>2, <3>3, <3>6 DEF FromTheStart, WholeList, SupplyIsSum,
           CreditNeverFails
    <2>3. CASE ~ fits
      <3>1. status' = "ErrOverflow"
        BY <1>3, <2>3 DEF Allocate
      <3>2. db' = db /\ supply' = supply /\ loaded' = loaded
        BY <1>3, <2>3, <3>1 DEF Allocate
      <3>3. QED
        BY <2>1, <3>1, <3>2 DEF TypeOK, FromTheStart, WholeList, SupplyIsSum, CreditNeverFails
    <2>4. QED
      BY <2>2, <2>3
  <1>4. CASE Complete
    BY <1>4 DEF Complete, TypeOK, FromTheStart, WholeList, SupplyIsSum, CreditNeverFails
  <1>5. CASE UNCHANGED vars
    BY <1>5 DEF vars, TypeOK, FromTheStart, WholeList, SupplyIsSum, CreditNeverFails
  <1>6. QED
    BY <1>1, <1>2, <1>3, <1>4, <1>5 DEF Next, Stopped

(* LoadInv holds in every state of every load. *)
THEOREM LoadInvariant == Spec => []LoadInv
  BY InitLoadInv, NextLoadInv, PTL DEF Spec

(* The loader's state is well formed: every record it writes has 64 bits.  *)
THEOREM LoadTypeCorrect == Spec => []TypeOK
  <1>1. LoadInv => TypeOK
    BY DEF LoadInv
  <1>2. QED
    BY <1>1, LoadInvariant, PTL

(* While any list is loaded, in particular one that names an address more  *)
(* than once, the records add up to the supply the loader has checked.     *)
THEOREM RecordsAddUp == Spec => []SupplyIsSum
  <1>1. LoadInv => SupplyIsSum
    BY DEF LoadInv
  <1>2. QED
    BY <1>1, LoadInvariant, PTL

(* A genesis file that was written whole is refused for its supply or not  *)
(* at all: the check of the sum is enough for every single credit.         *)
THEOREM NoCreditFails == Spec => []CreditNeverFails
  <1>1. LoadInv => CreditNeverFails
    BY DEF LoadInv
  <1>2. QED
    BY <1>1, LoadInvariant, PTL

(* What the loader leaves is a database BlockExecutor starts from (its     *)
(* GenesisDatabase): well formed records whose sum has 64 bits.            *)
Executable == db \in {d \in Database : Supply(d) <= MaxUint64}

THEOREM LoadedIsExecutable == Spec => []Executable
  <1>1. LoadInv => Executable
    BY BalanceNat DEF LoadInv, TypeOK, SupplyIsSum, Executable
  <1>2. QED
    BY <1>1, LoadInvariant, PTL
-----------------------------------------------------------------------------
(* What an allocation gives the account a. *)
Part(alloc, a) == IF alloc.address = a THEN alloc.balance ELSE 0

(* The sums that the fold of EveryAllocationCounts runs through: over the  *)
(* positions s of the list, the last one added last.                       *)
SumStep(iter, list, a) ==
  [s \in SUBSET (DOMAIN list) |->
     IF s = {} THEN 0
     ELSE iter[s \ {Seqs!Max(s)}] + Part(list[Seqs!Max(s)], a)]

Sums(list, a) == CHOOSE iter : iter = SumStep(iter, list, a)

LEMMA FoldIsSum ==
  ASSUME NEW list, NEW a
  PROVE  Seqs!FoldLeft(LAMBDA sum, alloc :
                         sum + (IF alloc.address = a THEN alloc.balance ELSE 0),
                       0, list)
           = Sums(list, a)[DOMAIN list]
  BY DEF Sums, SumStep, Part, Seqs!FoldLeft, Seqs!MapThenFoldSet

(* Positions have a last one. *)
LEMMA LastPosition ==
  ASSUME NEW n \in Nat, NEW s \in SUBSET (1 .. n), s # {}
  PROVE  Seqs!Max(s) \in s /\ \A y \in s : Seqs!Max(s) >= y
  <1> DEFINE HasMax(r) == \E x \in r : \A y \in r : x >= y
             S == {m \in Nat : \A r \in SUBSET (1 .. m) : r # {} => HasMax(r)}
  <1>1. 0 \in S
    <2>1. 1 .. 0 = {}
      OBVIOUS
    <2>2. QED
      BY <2>1
  <1>2. ASSUME NEW m \in Nat, m \in S PROVE m + 1 \in S
    <2>1. SUFFICES ASSUME NEW r \in SUBSET (1 .. m + 1), r # {} PROVE HasMax(r)
      OBVIOUS
    <2>2. \A y \in r : y \in Nat /\ m + 1 >= y /\ (y # m + 1 => y \in 1 .. m)
      OBVIOUS
    <2>3. CASE m + 1 \in r
      BY <2>2, <2>3
    <2>4. CASE m + 1 \notin r
      <3>1. r \in SUBSET (1 .. m)
        BY <2>2, <2>4
      <3>2. QED
        BY <1>2, <2>1, <3>1
    <2>5. QED
      BY <2>3, <2>4
  <1> HIDE DEF S
  <1>3. n \in S
    BY <1>1, <1>2, NatSetInduction
  <1>4. HasMax(s)
    BY <1>3 DEF S
  <1>5. QED
    BY <1>4 DEF Seqs!Max

LEMMA PartType ==
  ASSUME NEW list \in Seq(Allocation), NEW a, NEW i \in DOMAIN list
  PROVE  Part(list[i], a) \in Nat /\ Part(list[i], a) <= MaxUint64
  <1>1. list[i] \in Allocation
    OBVIOUS
  <1>2. list[i].balance \in Balance
    BY <1>1 DEF Allocation
  <1>3. list[i].balance \in Nat /\ list[i].balance <= MaxUint64
    BY <1>2, BalanceNat
  <1>4. 0 \in Nat /\ 0 <= MaxUint64
    BY StorageAssumption
  <1>5. QED
    BY <1>3, <1>4 DEF Part

(* The units that the allocations at the positions s give the account a.   *)
Units(list, a, s) ==
  {unit \in s \X (1 .. MaxUint64) : unit[2] <= Part(list[unit[1]], a)}

LEMMA UnitsFinite ==
  ASSUME NEW list \in Seq(Allocation), NEW a, NEW s \in SUBSET (DOMAIN list)
  PROVE  IsFiniteSet(Units(list, a, s)) /\ Cardinality(Units(list, a, s)) \in Nat
  <1>1. IsFiniteSet(s)
    <2>1. DOMAIN list = 1 .. Len(list) /\ Len(list) \in Nat
      OBVIOUS
    <2>2. IsFiniteSet(1 .. Len(list))
      BY <2>1, FS_Interval, 1 \in Int, Len(list) \in Int
    <2>3. QED
      BY <2>1, <2>2, FS_Subset
  <1>2. IsFiniteSet(1 .. MaxUint64)
    BY StorageAssumption, FS_Interval
  <1>3. IsFiniteSet(s \X (1 .. MaxUint64))
    BY <1>1, <1>2, FS_Product
  <1>4. Units(list, a, s) \in SUBSET (s \X (1 .. MaxUint64))
    BY DEF Units
  <1>5. QED
    BY <1>3, <1>4, FS_Subset, FS_CardinalityType

LEMMA UnitsOfOne ==
  ASSUME NEW list \in Seq(Allocation), NEW a, NEW i \in DOMAIN list
  PROVE  Cardinality(Units(list, a, {i})) = Part(list[i], a)
  <1> DEFINE n == Part(list[i], a)
             unit == [j \in 1 .. n |-> <<i, j>>]
  <1>1. n \in Nat /\ n <= MaxUint64 /\ MaxUint64 \in Nat
    BY PartType, StorageAssumption
  <1>2. Units(list, a, {i}) = {<<i, j>> : j \in 1 .. n}
    BY <1>1 DEF Units
  <1> HIDE DEF n
  <1>3. unit \in Bijection(1 .. n, {<<i, j>> : j \in 1 .. n})
    BY DEF Bijection, Injection, Surjection, IsInjective
  <1>4. ExistsBijection(1 .. n, {<<i, j>> : j \in 1 .. n})
    BY <1>3 DEF ExistsBijection
  <1>5. Cardinality({<<i, j>> : j \in 1 .. n}) = Cardinality(1 .. n)
    BY <1>1, <1>4, FS_Interval, FS_Bijection
  <1>6. Cardinality(1 .. n) = n
    BY <1>1, FS_Interval
  <1>7. QED
    BY <1>2, <1>5, <1>6 DEF n

(* The sums exist: the units of some positions are those of the last one   *)
(* and those of the others.                                                *)
LEMMA SumsDef ==
  ASSUME NEW list \in Seq(Allocation), NEW a
  PROVE  Sums(list, a) = SumStep(Sums(list, a), list, a)
  <1> DEFINE D == DOMAIN list
             g == [s \in SUBSET D |-> Cardinality(Units(list, a, s))]
  <1>1. ASSUME NEW s \in SUBSET D
        PROVE  g[s] = IF s = {} THEN 0
                      ELSE g[s \ {Seqs!Max(s)}] + Part(list[Seqs!Max(s)], a)
    <2>1. g[s] = Cardinality(Units(list, a, s))
      OBVIOUS
    <2>2. CASE s = {}
      <3>1. Units(list, a, s) = {}
        BY <2>2 DEF Units
      <3>2. QED
        BY <2>1, <2>2, <3>1, FS_EmptySet
    <2>3. CASE s # {}
      <3> DEFINE x == Seqs!Max(s)
                 rest == s \ {x}
      <3>1. x \in s
        <4>1. D = 1 .. Len(list) /\ Len(list) \in Nat
          OBVIOUS
        <4>2. QED
          BY <4>1, <2>3, LastPosition
      <3> HIDE DEF x
      <3>2. /\ Units(list, a, s) = Units(list, a, rest) \cup Units(list, a, {x})
            /\ Units(list, a, rest) \cap Units(list, a, {x}) = {}
        BY <3>1 DEF Units
      <3>3. x \in D /\ rest \in SUBSET D /\ {x} \in SUBSET D
        BY <3>1
      <3>4. Cardinality(Units(list, a, s))
              = Cardinality(Units(list, a, rest)) + Cardinality(Units(list, a, {x}))
        <4>1. /\ IsFiniteSet(Units(list, a, rest)) /\ IsFiniteSet(Units(list, a, {x}))
              /\ Cardinality(Units(list, a, rest)) \in Nat
              /\ Cardinality(Units(list, a, {x})) \in Nat
          BY <3>3, UnitsFinite
        <4>2. Cardinality(Units(list, a, rest) \cap Units(list, a, {x})) = 0
          BY <3>2, FS_EmptySet
        <4>3. Cardinality(Units(list, a, rest) \cup Units(list, a, {x}))
                = Cardinality(Units(list, a, rest)) + Cardinality(Units(list, a, {x}))
                    - Cardinality(Units(list, a, rest) \cap Units(list, a, {x}))
          BY <4>1, FS_Union
        <4>4. Cardinality(Units(list, a, s))
                = Cardinality(Units(list, a, rest)) + Cardinality(Units(list, a, {x})) - 0
          BY <3>2, <4>2, <4>3
        <4>5. QED
          BY <4>1, <4>4
      <3>5. g[rest] = Cardinality(Units(list, a, rest))
        BY <3>3
      <3>6. g[s] = g[rest] + Part(list[x], a)
        BY <2>1, <3>3, <3>4, <3>5, UnitsOfOne
      <3>7. QED
        BY <2>3, <3>6 DEF x
    <2>4. QED
      BY <2>2, <2>3
  <1>2. g = [s \in SUBSET D |-> g[s]]
    OBVIOUS
  <1> HIDE DEF g
  <1>3. g = SumStep(g, list, a)
    BY <1>1, <1>2 DEF SumStep
  <1>4. QED
    BY <1>3 DEF Sums

(* What the first k allocations give the account a. *)
Given(list, a, k) == Sums(list, a)[1 .. k]

LEMMA GivenStep ==
  ASSUME NEW list \in Seq(Allocation), NEW a
  PROVE  /\ Given(list, a, 0) = 0
         /\ \A k \in 1 .. Len(list) :
              Given(list, a, k) = Given(list, a, k - 1) + Part(list[k], a)
  <1> DEFINE D == DOMAIN list
             sums == Sums(list, a)
  <1>1. D = 1 .. Len(list) /\ Len(list) \in Nat
    OBVIOUS
  <1>2. \A s \in SUBSET D :
          sums[s] = IF s = {} THEN 0
                    ELSE sums[s \ {Seqs!Max(s)}] + Part(list[Seqs!Max(s)], a)
    BY SumsDef DEF SumStep
  <1> HIDE DEF sums
  <1>3. Given(list, a, 0) = 0
    <2>1. 1 .. 0 = {} /\ {} \in SUBSET D
      OBVIOUS
    <2>2. QED
      BY <1>2, <2>1 DEF Given, sums
  <1>4. ASSUME NEW k \in 1 .. Len(list)
        PROVE  Given(list, a, k) = Given(list, a, k - 1) + Part(list[k], a)
    <2> DEFINE x == Seqs!Max(1 .. k)
    <2>1. k \in Nat /\ k \in 1 .. k /\ 1 .. k # {} /\ 1 .. k \in SUBSET D
      <3>1. k \in Nat /\ 1 <= k /\ k <= Len(list)
        BY <1>1
      <3>2. k \in 1 .. k
        BY <3>1
      <3>3. \A i \in 1 .. k : i \in 1 .. Len(list)
        BY <1>1, <3>1
      <3>4. QED
        BY <1>1, <3>1, <3>2, <3>3
    <2>2. x \in 1 .. k /\ x >= k
      BY <2>1, LastPosition
    <2> HIDE DEF x
    <2>3. x = k
      BY <2>1, <2>2
    <2>4. (1 .. k) \ {k} = 1 .. k - 1
      BY <2>1
    <2>5. sums[1 .. k] = sums[(1 .. k) \ {x}] + Part(list[x], a)
      BY <1>2, <2>1 DEF x
    <2>6. QED
      BY <2>3, <2>4, <2>5 DEF Given, sums
  <1>5. QED
    BY <1>3, <1>4
-----------------------------------------------------------------------------
(* Every account has what the allocations loaded so far give it; loading   *)
(* is done with the last of them.                                          *)
LoadedCount == \A a \in Address : GetBalance(db, a) = Given(allocations, a, loaded)

LoadedWhole == status = "done" => loaded = Len(allocations)

LEMMA NextLoadedWhole == LoadInv /\ LoadedWhole /\ [Next]_vars => LoadedWhole'
  <1> SUFFICES ASSUME LoadInv, LoadedWhole, [Next]_vars PROVE LoadedWhole'
    OBVIOUS
  <1>1. CASE Allocate
    <2>1. Crediting.err # "done"
      <3>1. NextAllocation.address \in Address /\ NextAllocation.balance \in Balance
            /\ db \in Database
        BY <1>1, NextAllocationType DEF Allocate, LoadInv, TypeOK
      <3>2. QED
        BY <3>1, CreditType, CreditingIsCredit
    <2>2. status' # "done"
      BY <1>1, <2>1 DEF Allocate
    <2>3. QED
      BY <2>2 DEF LoadedWhole
  <1>2. CASE GenerateGenesis
    BY <1>2 DEF GenerateGenesis, LoadedWhole
  <1>3. CASE Start
    BY <1>3 DEF Start, LoadedWhole
  <1>4. CASE Complete
    BY <1>4 DEF Complete, LoadedWhole
  <1>5. CASE UNCHANGED vars
    BY <1>5 DEF vars, LoadedWhole
  <1>6. QED
    BY <1>1, <1>2, <1>3, <1>4, <1>5 DEF Next, Stopped

LEMMA InitLoadedCount == Init => LoadedCount
  <1> SUFFICES ASSUME Init, NEW a \in Address
               PROVE  GetBalance(db, a) = Given(allocations, a, loaded)
    BY DEF LoadedCount
  <1>1. GetBalance(db, a) = 0 /\ loaded = 0
    BY DEF Init, GetBalance
  <1>2. allocations \in Seq(Allocation)
    BY DEF Init
  <1>3. QED
    BY <1>1, <1>2, GivenStep

LEMMA NextLoadedCount == LoadInv /\ LoadedCount /\ [Next]_vars => LoadedCount'
  <1> SUFFICES ASSUME LoadInv, LoadedCount, [Next]_vars PROVE LoadedCount'
    OBVIOUS
  <1>1. TypeOK /\ TypeOK' /\ SupplyIsSum /\ LoadInv'
    BY NextLoadInv DEF LoadInv
  <1>2. CASE GenerateGenesis
    <2>1. loaded = 0 /\ loaded' = 0 /\ db' = db
      BY <1>2 DEF GenerateGenesis, LoadInv, FromTheStart
    <2>2. allocations \in Seq(Allocation) /\ allocations' \in Seq(Allocation)
      BY <1>1 DEF TypeOK
    <2>3. \A a \in Address : Given(allocations, a, 0) = 0 /\ Given(allocations', a, 0) = 0
      BY <2>2, GivenStep
    <2>4. QED
      BY <2>1, <2>3 DEF LoadedCount
  <1>3. CASE Allocate /\ supply + NextAllocation.balance <= MaxUint64
    <2>1. /\ loaded < Len(allocations) /\ status = "loading"
          /\ Crediting.err = "nil"
      BY <1>1, <1>3, CreditFits DEF Allocate
    <2>2. /\ db' = Crediting.db /\ loaded' = loaded + 1
          /\ allocations' = allocations
      BY <1>3, <2>1 DEF Allocate
    <2>3. /\ loaded + 1 \in 1 .. Len(allocations) /\ (loaded + 1) - 1 = loaded
          /\ allocations \in Seq(Allocation) /\ db \in Database
      BY <1>1, <2>1 DEF TypeOK
    <2>4. NextAllocation.address \in Address /\ NextAllocation.balance \in Balance
      BY <1>1, <2>1, NextAllocationType
    <2>5. /\ GetBalance(Crediting.db, NextAllocation.address)
               = GetBalance(db, NextAllocation.address) + NextAllocation.balance
          /\ \A x \in Address \ {NextAllocation.address} : Crediting.db[x] = db[x]
      <3> DEFINE who == NextAllocation.address
                 much == NextAllocation.balance
      <3>1. Crediting = Credit(db, FullScope, who, much)
        BY CreditingIsCredit
      <3>2. who \in Address /\ much \in Balance
        BY <2>4
      <3> HIDE DEF who, much
      <3>3. /\ GetBalance(Crediting.db, who) = GetBalance(db, who) + much
            /\ \A x \in Address \ {who} : Crediting.db[x] = db[x]
        <4> DEFINE add == Credit(db, FullScope, who, much)
        <4>1. add.err = "nil" /\ db \in Database
          BY <2>1, <2>3, <3>1
        <4>2. /\ GetBalance(add.db, who) = GetBalance(db, who) + much
              /\ \A x \in Address \ {who} : add.db[x] = db[x]
          BY <3>2, <4>1, CreditEffect
        <4>3. QED
          BY <3>1, <4>2
      <3>4. QED
        BY <3>3 DEF who, much
    <2>6. ASSUME NEW a \in Address
          PROVE  GetBalance(Crediting.db, a) = Given(allocations, a, loaded + 1)
      <3>1. GetBalance(db, a) = Given(allocations, a, loaded)
        BY DEF LoadedCount
      <3>2. Given(allocations, a, loaded + 1)
              = Given(allocations, a, loaded) + Part(NextAllocation, a)
        BY <2>3, GivenStep DEF NextAllocation
      <3>3. GetBalance(db, a) \in Nat
        BY <2>3, GetBalanceType, BalanceNat
      <3>4. CASE a = NextAllocation.address
        BY <2>5, <3>1, <3>2, <3>4 DEF Part
      <3>5. CASE a # NextAllocation.address
        <4>1. GetBalance(Crediting.db, a) = GetBalance(db, a)
          BY <2>5, <3>5 DEF GetBalance
        <4>2. Part(NextAllocation, a) = 0
          BY <3>5 DEF Part
        <4>3. QED
          BY <3>1, <3>2, <3>3, <4>1, <4>2
      <3>6. QED
        BY <3>4, <3>5
    <2>7. QED
      BY <2>2, <2>6 DEF LoadedCount
  <1>4. CASE UNCHANGED <<allocations, loaded, db>>
    BY <1>4 DEF LoadedCount
  <1>5. CASE Allocate /\ ~ (supply + NextAllocation.balance <= MaxUint64)
    <2>1. status' = "ErrOverflow"
      BY <1>5 DEF Allocate
    <2>2. UNCHANGED <<allocations, loaded, db>>
      BY <1>5, <2>1 DEF Allocate
    <2>3. QED
      BY <1>4, <2>2
  <1>6. QED
    BY <1>2, <1>3, <1>4, <1>5 DEF Next, Start, Complete, Stopped, vars

(* Whatever list the command is given and however often its file is torn,  *)
(* each account has after the load the sum of all its allocations, in      *)
(* whatever order and with whatever others between them.                   *)
THEOREM AllAllocationsCount == Spec => []EveryAllocationCounts
  <1>1. LoadInv /\ LoadedCount /\ LoadedWhole => EveryAllocationCounts
    <2> SUFFICES ASSUME LoadInv, LoadedCount, loaded = Len(allocations),
                        allocations = allocs, NEW a \in Address
                 PROVE  GetBalance(db, a) =
                          Seqs!FoldLeft(LAMBDA sum, alloc :
                            sum + (IF alloc.address = a THEN alloc.balance ELSE 0),
                          0, allocs)
      BY DEF EveryAllocationCounts, LoadedWhole, LoadInv, WholeList
    <2>1. GetBalance(db, a) = Sums(allocations, a)[1 .. Len(allocations)]
      BY DEF LoadedCount, Given
    <2>2. DOMAIN allocations = 1 .. Len(allocations)
      BY DEF LoadInv, TypeOK
    <2>3. GetBalance(db, a) = Sums(allocations, a)[DOMAIN allocations]
      BY <2>1, <2>2
    <2>4. QED
      BY <2>3, FoldIsSum
  <1>2. Init => LoadedWhole
    BY DEF Init, LoadedWhole
  <1>3. LoadInv /\ LoadedCount /\ LoadedWhole /\ [Next]_vars
          => LoadedCount' /\ LoadedWhole'
    BY NextLoadedCount, NextLoadedWhole
  <1>4. Init => LoadedCount
    BY InitLoadedCount
  <1>5. QED
    BY <1>1, <1>2, <1>3, <1>4, LoadInvariant, PTL DEF Spec
=============================================================================

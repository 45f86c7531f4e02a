------------------------------ MODULE Storage ------------------------------
(***************************************************************************)
(* The balance store of MorpheusVM (storage/storage.go) and the hooks the  *)
(* chain calls on it (storage/state_manager.go).                           *)
(*                                                                         *)
(* The database maps the balance key of an address to its record; an       *)
(* address with no record has the value Absent.  BalanceKey is injective   *)
(* (prefix, the whole address, a fixed suffix), so an address stands for   *)
(* its key.  Every operation goes through a view of the database whose     *)
(* scope says which permissions the transaction declared for each key.     *)
(***************************************************************************)
EXTENDS Integers, FiniteSets

CONSTANTS Address,    \* the addresses in play
          MaxUint64,  \* the largest balance a record can hold
          Absent      \* the value of a key that has no record

ASSUME StorageAssumption == /\ MaxUint64 \in Nat \ {0}
                            /\ Absent \notin Int
                            /\ IsFiniteSet(Address)

Balance    == 0 .. MaxUint64
Record     == Balance \cup {Absent}
Database   == [Address -> Record]
Permission == {"Read", "Allocate", "Write"}
Scope      == [Address -> SUBSET Permission]

(* The outcome of an operation: its error, the balance it returns and the  *)
(* database it leaves.                                                     *)
Outcome(err, bal, db) == [err |-> err, bal |-> bal, db |-> db]
-----------------------------------------------------------------------------
(* state.Mutable as a view enforces it: a key outside the scope cannot be  *)
(* read or written, and a record is created only with Allocate.            *)
CanRead(scope, a) == "Read" \in scope[a]

Insert(db, scope, a, bal) ==
  IF /\ "Write" \in scope[a]
     /\ db[a] = Absent => "Allocate" \in scope[a]
  THEN Outcome("nil", bal, [db EXCEPT ![a] = bal])
  ELSE Outcome("ErrInvalidKeyOrPermission", bal, db)

Remove(db, scope, a) ==
  IF "Write" \in scope[a]
  THEN Outcome("nil", 0, [db EXCEPT ![a] = Absent])
  ELSE Outcome("ErrInvalidKeyOrPermission", 0, db)
-----------------------------------------------------------------------------
(* A missing record reads as a balance of zero. *)
GetBalance(db, a) == IF db[a] = Absent THEN 0 ELSE db[a]

Exists(db, scope, a) == CanRead(scope, a) /\ db[a] # Absent

(* Mutant: the sum is compared with >= instead of >. *)
AddBalance_OffByOne(db, scope, a, amount, create) ==
  IF db[a] = Absent /\ ~ create THEN Outcome("nil", 0, db)
  ELSE IF GetBalance(db, a) + amount >= MaxUint64
  THEN Outcome("ErrInvalidBalance", 0, db)
  ELSE Insert(db, scope, a, GetBalance(db, a) + amount)

AddBalance(db, scope, a, amount, create) ==
  IF ~ CanRead(scope, a)
  THEN Outcome("ErrInvalidKeyOrPermission", 0, db)
  ELSE IF db[a] = Absent /\ ~ create
  THEN Outcome("nil", 0, db)
  ELSE IF GetBalance(db, a) + amount > MaxUint64
  THEN Outcome("ErrInvalidBalance", 0, db)
  ELSE Insert(db, scope, a, GetBalance(db, a) + amount)

(* Mutants: an unchecked subtraction, in integers and in 64 bits.          *)
SubBalance_Unchecked(db, scope, a, amount) ==
  IF ~ Exists(db, scope, a) THEN Outcome("ErrInvalidAddress", 0, db)
  ELSE IF db[a] = amount THEN Remove(db, scope, a)
  ELSE Insert(db, scope, a, db[a] - amount)

SubBalance_Wraps(db, scope, a, amount) ==
  IF ~ Exists(db, scope, a) THEN Outcome("ErrInvalidAddress", 0, db)
  ELSE IF db[a] = amount THEN Remove(db, scope, a)
  ELSE Insert(db, scope, a, (db[a] - amount) % (MaxUint64 + 1))

(* The missing-record test comes before the error test, so a key that may  *)
(* not be read is reported as a missing account.                           *)
SubBalance(db, scope, a, amount) ==
  IF ~ Exists(db, scope, a) THEN Outcome("ErrInvalidAddress", 0, db)
  ELSE CASE db[a] < amount -> Outcome("ErrInvalidBalance", 0, db)
         [] db[a] = amount -> Remove(db, scope, a)
         [] db[a] > amount -> Insert(db, scope, a, db[a] - amount)
-----------------------------------------------------------------------------
(* The StateManager's hooks for the account that sponsors a transaction. *)
SponsorStateKeys(sponsor) ==
  [a \in Address |-> IF a = sponsor THEN {"Read", "Write"} ELSE {}]

(* Mutant: the balance is not compared with the fee. *)
CanDeduct_Unchecked(db, scope, sponsor, amount) ==
  IF ~ CanRead(scope, sponsor) THEN "ErrInvalidKeyOrPermission" ELSE "nil"

CanDeduct(db, scope, sponsor, amount) ==
  IF ~ CanRead(scope, sponsor) THEN "ErrInvalidKeyOrPermission"
  ELSE IF GetBalance(db, sponsor) < amount THEN "ErrInvalidBalance"
  ELSE "nil"

Deduct(db, scope, sponsor, amount) == SubBalance(db, scope, sponsor, amount)

(* Mutant: the balance is set, not added to. *)
AddBalanceHook_Sets(db, scope, addr, amount, createAccount) ==
  Insert(db, scope, addr, amount)

(* The hook that genesis loading and fee refunds call. *)
AddBalanceHook(db, scope, addr, amount, createAccount) ==
  AddBalance(db, scope, addr, amount, createAccount)
-----------------------------------------------------------------------------
(* The coins of the accounts S, for the properties: a pair <<account, i>>  *)
(* for every unit of its balance, so that the supply needs no recursion.   *)
Coins(d, S) == {coin \in S \X (1 .. MaxUint64) : coin[2] <= GetBalance(d, coin[1])}

SupplyOf(d, S) == Cardinality(Coins(d, S))

Supply(d) == SupplyOf(d, Address)

(* Every permission on every key: the scope of state that no transaction's *)
(* declaration restricts.                                                  *)
FullScope == [a \in Address |-> Permission]
=============================================================================

------------------------------ MODULE Genesis ------------------------------
(***************************************************************************)
(* The genesis file, which morpheus-cli's "genesis generate" writes from a *)
(* list it does not check, and how a node that starts with it turns its    *)
(* allocations into balance records.  The loop is hypersdk's; the record   *)
(* of each allocation is made by StateManager.AddBalance.  An address may  *)
(* be allocated more than once, and an allocation may be zero.  The node   *)
(* reads the file once; what commands do to it later is left out.          *)
(***************************************************************************)
EXTENDS Storage, Sequences

Seqs == INSTANCE SequencesExt

CONSTANT MaxAllocations   \* bound on the length of the file

ASSUME GenesisAssumption == MaxAllocations \in Nat

Allocation == [address : Address, balance : Balance]

VARIABLES allocs,       \* the list the command is given
          file,         \* the genesis file: "none", "torn" or "whole"
          allocations,  \* what is in it
          loaded,       \* how many of them the node has loaded
          supply,       \* the sum of those
          db,           \* the balance records made so far
          status        \* "down", "loading", "done" or the error that ended it

vars == <<allocs, file, allocations, loaded, supply, db, status>>

Init == /\ \E n \in 0 .. MaxAllocations : allocs \in [1 .. n -> Allocation]
        /\ file = "none"
        /\ allocations = << >>
        /\ loaded = 0
        /\ supply = 0
        /\ db = [a \in Address |-> Absent]
        /\ status = "down"

Beginning(n) == SubSeq(allocs, 1, n)

(* Mutant: the list is written entry by entry in a format of which every   *)
(* beginning reads like a whole file.                                      *)
GenerateGenesis_ByEntry ==
  /\ status = "down"
  /\ file' = "whole"
  /\ \E n \in 0 .. Len(allocs) : allocations' = Beginning(n)
  /\ UNCHANGED <<allocs, loaded, supply, db, status>>

(* "genesis generate": what stops it before the file is opened leaves the  *)
(* old one; a write that fails or is cut short leaves a torn one, with     *)
(* some beginning of the list.  The command may be repeated; one with      *)
(* another list is left out, as only the last list is ever read.           *)
GenerateGenesis ==
  /\ status = "down"
  /\ \/ file' = "whole" /\ allocations' = allocs
     \/ file' = "torn" /\ \E n \in 0 .. Len(allocs) : allocations' = Beginning(n)
  /\ UNCHANGED <<allocs, loaded, supply, db, status>>

(* The node starts; it refuses a file that does not parse. *)
Start ==
  /\ status = "down" /\ file # "none"
  /\ status' = IF file = "whole" THEN "loading" ELSE "ErrUnmarshal"
  /\ UNCHANGED <<allocs, file, allocations, loaded, supply, db>>

NextAllocation == allocations[loaded + 1]

Crediting == AddBalanceHook(db, FullScope, NextAllocation.address,
                            NextAllocation.balance, TRUE)

(* Mutant: the supply is not checked. *)
Allocate_Unchecked ==
  /\ status = "loading"
  /\ loaded < Len(allocations)
  /\ db' = Crediting.db
  /\ status' = IF Crediting.err = "nil" THEN status ELSE Crediting.err
  /\ supply' = supply + NextAllocation.balance
  /\ loaded' = loaded + 1
  /\ UNCHANGED <<allocs, file, allocations>>

(* The supply is added up and checked first, then the record is made; the  *)
(* first error ends the loading.                                           *)
Allocate ==
  LET fits == supply + NextAllocation.balance <= MaxUint64
  IN  /\ status = "loading"
      /\ loaded < Len(allocations)
      /\ db' = IF fits THEN Crediting.db ELSE db
      /\ status' = CASE ~ fits                     -> "ErrOverflow"
                     [] fits /\ Crediting.err # "nil" -> Crediting.err
                     [] fits /\ Crediting.err = "nil" -> status
      /\ supply' = IF fits THEN supply + NextAllocation.balance ELSE supply
      /\ loaded' = IF status' = "loading" THEN loaded + 1 ELSE loaded
      /\ UNCHANGED <<allocs, file, allocations>>

Complete ==
  /\ status = "loading"
  /\ loaded = Len(allocations)
  /\ status' = "done"
  /\ UNCHANGED <<allocs, file, allocations, loaded, supply, db>>

Stopped == status \notin {"down", "loading"} /\ UNCHANGED vars

Next == GenerateGenesis \/ Start \/ Allocate \/ Complete \/ Stopped

Spec == Init /\ [][Next]_vars
-----------------------------------------------------------------------------
(* The loader's variables are well formed. *)
TypeOK ==
  /\ allocs \in Seq(Allocation)
  /\ file \in {"none", "torn", "whole"}
  /\ allocations \in Seq(Allocation)
  /\ loaded \in 0 .. Len(allocations)
  /\ supply \in Balance
  /\ db \in Database
  /\ status \in {"down", "loading", "done", "ErrUnmarshal", "ErrOverflow",
                 "ErrInvalidBalance", "ErrInvalidKeyOrPermission"}

(* The records add up to the supply the loader has checked: AddBalance     *)
(* adds to the record of an address allocated twice instead of replacing   *)
(* it.  With the check it gives BlockExecutor its initial databases.       *)
SupplyIsSum == Supply(db) = supply

(* AddBalance never fails while the genesis is loaded, as the sum over all *)
(* allocations is checked before each one: the file is refused as a whole  *)
(* for its supply or not at all.                                           *)
CreditNeverFails ==
  file = "whole" => status \in {"down", "loading", "done", "ErrOverflow"}

(* Once loaded, every account has what the list that the command was given *)
(* says, over all of its allocations: no beginning of the list that a cut  *)
(* left in the file is loaded in its place.                                *)
EveryAllocationCounts ==
  status = "done" =>
    \A a \in Address :
      GetBalance(db, a) =
        Seqs!FoldLeft(LAMBDA sum, alloc :
                        sum + (IF alloc.address = a THEN alloc.balance ELSE 0),
                      0, allocs)
=============================================================================

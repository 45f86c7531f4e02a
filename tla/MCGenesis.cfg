SPECIFICATION Spec
CONSTANTS
  alice = alice
  bob = bob
  Absent = Absent
  Address <- MCAddress
  MaxUint64 = 4
  MaxAllocations = 4
INVARIANTS
  TypeOK
  SupplyIsSum
  CreditNeverFails
  EveryAllocationCounts

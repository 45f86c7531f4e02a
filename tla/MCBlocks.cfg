SPECIFICATION Spec
CONSTANTS
  alice = alice
  bob = bob
  carol = carol
  Absent = Absent
  Address <- MCAddress
  MaxUint64 = 3
  MaxMemoSize = 0
  N = 3
  Blocks <- MCBlocks
INVARIANTS
  TypeOK
  SupplyConserved
  SharersInOrder
  ViewsBalanced
  AddNeverOverflows
  ScopeSuffices
  DeductFollowsCheck
  Deterministic
PROPERTIES
  ImplementsBank

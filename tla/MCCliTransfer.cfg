SPECIFICATION Spec
CONSTANTS
  alice = alice
  bob = bob
  shop = shop
  Absent = Absent
  Address <- MCAddress
  MaxUint64 = 3
  MaxMemoSize = 0
  Signer = {alice, bob}
  Databases <- MCDatabases
  Fee = 1
  MaxTxs = 2
INVARIANTS
  TypeOK
  RevertsExplained
PROPERTIES
  TransferEnds

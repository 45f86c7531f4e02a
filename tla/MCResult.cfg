SPECIFICATION Spec
CONSTANTS
  alice = alice
  bob = bob
  carol = carol
  Absent = Absent
  Address <- MCAddress
  MaxUint64 = 3
  MaxMemoSize = 0
  N = 2
  Blocks <- MCPairs
INVARIANT
  ResultShowsBalances

SPECIFICATION Spec
CONSTANTS
  alice = alice
  bob = bob
  NoWallet = NoWallet
  Address <- MCAddress
  Builds = {"production", "development"}
  MaxMounts = 2
  MaxAsks = 3
  MaxSends = 1
  MaxChanges = 1
  MaxShown = 2
  MaxHeight = 3
INVARIANT
  FieldsArePrefilled

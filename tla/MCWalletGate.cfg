SPECIFICATION Spec
CONSTANTS
  alice = alice
  bob = bob
  NoSigner = NoSigner
  NoAnswer = NoAnswer
  Address <- MCAddress
  Opening <- MCOpening
  MinBalance = 1
  Threshold = 1
  Remainders = {0, 1}
  MaxAttempts = 2
  MaxPolls = 2
  Builds = {"production", "development"}
  MaxEvents = 3
  MaxRuns = 2
INVARIANTS
  TypeOK
  LoadingCounts
  OpenMeansFunded
PROPERTIES
  AsksOnlyAfterErrors
  RunsEnd
  ImplementsScreen

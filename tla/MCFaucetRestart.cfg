SPECIFICATION Spec
CONSTANTS
  faucet = faucet
  alice = alice
  bob = bob
  random0 = random0
  random1 = random1
  r1 = r1
  r2 = r2
  r3 = r3
  phone = phone
  laptop = laptop
  Absent = Absent
  Main = Main
  BadAddress = BadAddress
  Address <- MCAddress
  MaxUint64 = 10
  MaxMemoSize = 0
  Request <- MCTwo
  target <- MCTwoTarget
  remote <- MCTwoRemote
  readyAddress <- MCReady
  faucetAddress = faucet
  Databases <- MCRestartDatabases
  Amount = 2
  Threshold = 1
  Fee = 1
  Burst = 1
  MaxAttempts = 2
  MaxRestarts = 1
INVARIANT
  ReadyMeansPaid
PROPERTY
  KeepsPromise

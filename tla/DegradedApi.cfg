\* Calls that straddle outages, trips and probes; clients that go away.
CONSTANTS
  Calls = {1, 2, 3}
  Reads = {1, 3}
  Op <- MCOp
  MaxFollowers = 1
  MaxTrials = 2
  MaxConsecFails = 2
  Cooldown = 1
  HalfOpenProbes = 1
  MaxTries = 2
  MaxOutages = 2
  MaxCancels = 2
SPECIFICATION FairApiSpec
INVARIANTS
  TypeOK
  ProbesBounded
  OpensForCause
  BurstBounded
PROPERTIES
  Recovers

\* A rate that does not divide a token: waits and expiry are rounded.
CONSTANTS
  Burst = 3
  Rps = 2
  Scale = 5
  MaxElapsed = 16
  MaxStep = 2
  MaxLosses = 1
SPECIFICATION Spec
INVARIANTS
  TypeOK
  RateBound
  RetryAfterHonest
PROPERTY
  ExpiryInvisible

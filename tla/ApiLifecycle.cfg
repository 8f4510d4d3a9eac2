\* Units of 2.5 seconds: 5 s of preStopDelay, 10 s to drain, 2 s to release,
\* 2 s for a ping, 5 s to flush, 30 s of grace.  A record
\* has 7.5 s rather than 10 s: more than preStopDelay is what matters.
CONSTANTS
  Creates = {c1}
  Redirects = {r1, r2}
  PreStopDelay = 2
  DrainTimeout = 4
  ReleaseTimeout = 1
  PingTimeout = 1
  FlushTimeout = 2
  GracePeriod = 12
  MaxLag = 2
  DeliveryTimeout = 3
  MaxOutages = 1
SPECIFICATION FairSpec
CHECK_DEADLOCK FALSE
INVARIANTS
  NoUseAfterClose
  CleanStopFreesSlot
  NoRequestDropped
  EarlyClicksKept
  GraceSuffices
PROPERTY
  Terminates

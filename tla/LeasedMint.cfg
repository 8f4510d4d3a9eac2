\* Two pods, two slots, clocks that differ; the TTL is three heartbeats, as in
\* the code.
SPECIFICATION FairMintSpec
CONSTANTS
  Pods = {p1, p2}
  MaxWorkerID = 1
  LeaseTTL = 3
  HeartbeatInterval = 1
  Nobody = Nobody
  MaxMisses = 2
  MaxFaults = 3
  MaxSkew = 1
INVARIANTS
  TypeOK
  LeaseHeld
  NoReuseAfterExpiry
PROPERTIES
  OnlyOwnerTouches
  EventuallyServes

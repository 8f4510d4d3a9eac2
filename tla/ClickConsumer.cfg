\* Two consumers and three clicks on two partitions, with crashes, failed
\* calls, rebalances, malformed records and polls that carry an error.
SPECIFICATION FairSpec
CONSTANTS
  c1 = c1
  c2 = c2
  a = a
  b = b
  Consumers = {c1, c2}
  Partitions = {1, 2}
  Events = {1, 2, 3}
  Codes = {a, b}
  CodeOf <- MCCodeOf
  PartitionOf <- MCPartitionOf
  NoOwner = NoOwner
  MaxFaults = 2
CHECK_DEADLOCK FALSE
INVARIANTS
  TypeOK
  NothingSkipped
  RecordedIsPrefix
  CountedAtMostOnce
  StatsExact
PROPERTIES
  EventuallyCounted
  LedgerRefined

\* Two redirects, on one instance or on two, and two deletes.
CONSTANTS
  Reads = {r1, r2}
  Deletes = {d1, d2}
  Instances = {i1, i2}
  PosTTL = 2
  NegTTL = 1
  RequestTimeout = 1
  MaxFaults = 1
SPECIFICATION FairSpec
INVARIANTS
  TypeOK
  BoundedStaleness
PROPERTIES
  AnswersRecent
  StaysForgotten
  EventuallyAnswered

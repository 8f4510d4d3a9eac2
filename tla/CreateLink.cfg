\* Two requests with one key and one without, against collisions and faults.
CONSTANTS
  r1 = r1
  r2 = r2
  r3 = r3
  k1 = k1
  NoKey = NoKey
  NoCode = NoCode
  Free = Free
  Deleted = Deleted
  Reqs = {r1, r2, r3}
  Keys = {k1}
  KeyOf <- MCKeyOf
  Codes = {c1, c2, c3}
  MaxCreateRetries = 2
  Overlap = TRUE
  MaxStoreFaults = 1
  MaxRedisFaults = 1
SPECIFICATION FairSpec
CHECK_DEADLOCK FALSE
INVARIANTS
  TypeOK
  AnsweredOwnLink
  SameKeySameLink
  RetryMakesNoLink
PROPERTY
  EventuallyAnswered

\* Retries one after another, and one INSERT whose answer is lost.
CONSTANTS
  r1 = r1
  r2 = r2
  r3 = r3
  k1 = k1
  NoKey = NoKey
  NoCode = NoCode
  Free = Free
  Deleted = Deleted
  Reqs = {r1, r2, r3}
  Keys = {k1}
  KeyOf <- RetriesKeyOf
  Codes = {c1, c2}
  MaxCreateRetries = 2
  Overlap = FALSE
  MaxStoreFaults = 1
  MaxRedisFaults = 0
SPECIFICATION Spec
CHECK_DEADLOCK FALSE
INVARIANT OneLinkPerKey

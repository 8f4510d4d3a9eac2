\* No command fails: a load that overlaps a delete brings the link back.
CONSTANTS
  Reads = {r1, r2}
  Deletes = {d1}
  Instances = {i1}
  PosTTL = 3
  NegTTL = 1
  RequestTimeout = 1
  MaxFaults = 0
SPECIFICATION Spec
INVARIANT DeletedStopsResolving

SPECIFICATION Spec
CONSTANTS
  g1 = g1
  g2 = g2
  Generators = {g1, g2}
  WorkerOf <- MCWorkerOf
  WorkerSlots = 2
  SeqSlots = 2
  FaultModes = {{"step"}, {"restart"}}
  MaxClock = 3
  MaxFaults = 2
CHECK_DEADLOCK FALSE
INVARIANTS
  TypeOK
  UniqueCodes

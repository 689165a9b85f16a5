SPECIFICATION Spec
CONSTANTS
  Batches = {b1, b2}
  Remotes = {r1, r2, r3, r4}
  Workers = {w1, w2}
  Operators = {}
  NoBatch = NoBatch
  NoRemote = NoRemote
  MaxRequests = 2
  MaxFaults = 0
PROPERTIES
  SubmitsOnlyPending
CHECK_DEADLOCK FALSE

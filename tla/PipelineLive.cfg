SPECIFICATION FairSpec
CONSTANTS
  Batches = {b1, b2}
  Remotes = {r1, r2}
  Workers = {w1}
  Operators = {}
  NoBatch = NoBatch
  NoRemote = NoRemote
  MaxRequests = 2
  MaxFaults = 0
PROPERTIES
  EveryBatchProcessed
CHECK_DEADLOCK FALSE

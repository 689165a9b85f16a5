SPECIFICATION Spec
CONSTANTS
  Cards = {c1}
  Batches = {b1, b2}
  Sweeps = {s1, s2}
  Workers = {w1}
  Shells = {}
  Servers = {v1}
  Commands = {"kickoff", "apply"}
  Filters <- AllCards
  Limits = {0}
  Verdicts = {"main"}
  CardsPerBatch = 2
  MaxRequests = 3
  MaxFaults = 0
  NoSweep = NoSweep
SYMMETRY Symmetry
PROPERTY EpochPreserved
CHECK_DEADLOCK FALSE

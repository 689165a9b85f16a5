SPECIFICATION Spec
CONSTANTS
  Cards = {c1}
  Batches = {b1, b2}
  Sweeps = {s1, s2}
  Workers = {w1}
  Shells = {}
  Servers = {v1}
  Commands = {"kickoff", "reset"}
  Filters <- AllCards
  Limits = {0}
  Verdicts = {"main"}
  CardsPerBatch = 2
  MaxRequests = 2
  MaxFaults = 0
  NoSweep = NoSweep
SYMMETRY Symmetry
INVARIANT TagsAreOfThisHistory
CHECK_DEADLOCK FALSE

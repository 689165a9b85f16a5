SPECIFICATION Spec
CONSTANTS
  Cards = {c1, c2}
  Batches = {b1, b2}
  Sweeps = {s1, s2}
  Workers = {w1}
  Shells = {o1}
  Servers = {}
  Commands = {"kickoff", "redo"}
  Filters <- AllCards
  Limits = {0}
  Verdicts = {"main", "failed"}
  CardsPerBatch = 2
  MaxRequests = 2
  MaxFaults = 0
  NoSweep = NoSweep
SYMMETRY Symmetry
INVARIANT CompleteMeansDone
CHECK_DEADLOCK FALSE

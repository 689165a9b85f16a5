SPECIFICATION Spec
CONSTANTS
  Cards = {c1, c2}
  Batches = {b1, b2}
  Sweeps = {s1, s2}
  Workers = {w1}
  Shells = {o1}
  Servers = {v1}
  Commands = {"kickoff", "redo", "apply", "prune", "reset"}
  Filters <- AllCards
  Limits = {0}
  Verdicts = {"main", "unsure", "failed"}
  CardsPerBatch = 2
  MaxRequests = 3
  MaxFaults = 0
  NoSweep = NoSweep
SYMMETRY Symmetry
INVARIANT RecordedMeansApplied
CHECK_DEADLOCK FALSE

SPECIFICATION Spec
CONSTANTS
  Cards = {c1, c2}
  Batches = {b1, b2}
  Sweeps = {s1, s2}
  Workers = {w1}
  Shells = {}
  Servers = {v1}
  Commands = {"kickoff", "update", "prune", "catchup", "apply", "reset"}
  Filters <- AllOrOne
  Limits = {0, 1}
  Verdicts = {"main", "excluded"}
  CardsPerBatch = 1
  MaxRequests = 3
  MaxFaults = 1
  NoSweep = NoSweep
SYMMETRY Symmetry
PROPERTY ImplementsCoverage
CHECK_DEADLOCK FALSE

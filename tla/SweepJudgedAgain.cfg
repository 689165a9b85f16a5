SPECIFICATION Spec
CONSTANTS
  Cards = {c1}
  Batches = {b1, b2, b3}
  Sweeps = {s1, s2}
  Workers = {w1}
  Shells = {}
  Servers = {}
  Commands = {"kickoff", "redo"}
  Filters <- AllCards
  Limits = {0}
  Verdicts = {"main", "failed"}
  CardsPerBatch = 2
  MaxRequests = 3
  MaxFaults = 0
  NoSweep = NoSweep
SYMMETRY Symmetry
PROPERTY ReenqueuesOnlyFailed
CHECK_DEADLOCK FALSE

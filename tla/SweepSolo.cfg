SPECIFICATION Spec
CONSTANTS
  Cards = {c1, c2}
  Batches = {b1, b2}
  Sweeps = {s1, s2}
  Workers = {w1}
  Shells = {}
  Servers = {}
  Commands = {"kickoff", "update"}
  Filters <- AllOrOne
  Limits = {0, 1}
  Verdicts = {"main", "excluded", "failed"}
  CardsPerBatch = 1
  MaxRequests = 4
  MaxFaults = 1
  NoSweep = NoSweep
SYMMETRY Symmetry
INVARIANTS TypeOK OneVerdict
PROPERTIES ImplementsCoverage EpochPreserved
CHECK_DEADLOCK FALSE

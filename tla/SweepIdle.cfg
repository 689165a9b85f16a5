SPECIFICATION FairSpec
CONSTANTS
  Cards = {c1}
  Batches = {b1, b2}
  Sweeps = {s1, s2}
  Workers = {w1}
  Shells = {}
  Servers = {}
  Commands = {"kickoff"}
  Filters <- AllCards
  Limits = {0}
  Verdicts = {"main"}
  CardsPerBatch = 2
  MaxRequests = 2
  MaxFaults = 0
  NoSweep = NoSweep
PROPERTY DoneSweepsClose
CHECK_DEADLOCK FALSE

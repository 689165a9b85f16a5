SPECIFICATION Spec
CONSTANTS
  Sets = {1, 2}
  Published <- MCPublished
  Uuids = {"u1", "u2", "u3", "u4"}
  Printings = {"p1", "p2", "p3"}
  Words = {"fly"}
  BatchSize = 1
  NoCard = NoCard
  Jobs = {j1}
  Workers = {w1}
  Shells = {c1}
  Requests = {{1, 2}}
  MaxFaults = 1
  MaxShellRuns = 1
  NoJob = NoJob
  NoList = NoList
PROPERTY UnknownIsUnlisted
CHECK_DEADLOCK FALSE

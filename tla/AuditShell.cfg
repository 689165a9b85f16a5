SPECIFICATION FairSpec
CONSTANTS
  MaxAudits = 2
  MaxBatches = 2
  MaxTags = 1
  Workers = {w1}
  Shells = {s1}
  Ceilings = {"pending_submit"}
  MaxRequests = 3
  MaxFaults = 0
PROPERTY EveryAuditBegins
CHECK_DEADLOCK FALSE

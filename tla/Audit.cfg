SPECIFICATION FairSpec
CONSTANTS
  MaxAudits = 2
  MaxBatches = 2
  MaxTags = 1
  Workers = {w1}
  Shells = {s1}
  Ceilings = {"pending_submit"}
  MaxRequests = 3
  MaxFaults = 1
INVARIANTS TypeOK NoStrayBatch
PROPERTIES ImplementsProgress DescriptionAdvances AuditingEnds
CHECK_DEADLOCK FALSE

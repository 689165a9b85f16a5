SPECIFICATION Spec
CONSTANTS
  Batches = {b1, b2}
  Remotes = {r1, r2, r3}
  Workers = {w1}
  Operators = {o1}
  NoBatch = NoBatch
  NoRemote = NoRemote
  MaxRequests = 3
  MaxFaults = 1
SYMMETRY Symmetry
INVARIANTS
  TypeOK
  OutboxShape
  LinkedToOwnSubmission
  OrphansAccountedFor
  EndedIsTrue
  ChainsDoNotMultiply
PROPERTIES
  ImplementsLifecycle
  SubmitsOnlyPending
CHECK_DEADLOCK FALSE

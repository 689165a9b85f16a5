SPECIFICATION Spec
CONSTANTS
  Names = {"_default", "deck"}
  Collection = "_default"
  Catalog = {"p", "q"}
  Unknown = {"x", "y"}
  Lists <- MCLists
  Files <- MCFiles
  MaxUnknown = 1
  Sessions = {"s1", "s2"}
  Calls <- BothCreate
  MaxInventories = 2
  MaxCalls = 4
  MaxFaults = 0
INVARIANTS OneOfEachName
CHECK_DEADLOCK FALSE

SPECIFICATION FairSpec
CONSTANTS
  Names = {"_default", "deck"}
  Collection = "_default"
  Catalog = {"p", "q"}
  Unknown = {"x", "y"}
  Lists <- MCLists
  Files <- MCFiles
  MaxUnknown = 1
  Sessions = {"s1", "s2"}
  Calls <- OneRemoves
  MaxInventories = 2
  MaxCalls = 4
  MaxFaults = 1
INVARIANTS TypeOK
PROPERTIES ImplementsLedger RemovalTakesEffect CallsEnd
CHECK_DEADLOCK FALSE

SPECIFICATION FairSpec
CONSTANTS
  Sessions <- MCSessions
  Calls <- MCCalls
  First <- MCFirst
  FirstCards <- MCFirstCards
  Oracles <- MCOracles
INVARIANTS
  TypeOK
PROPERTIES
  ImplementsBook
  CallsEnd

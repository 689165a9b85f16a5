SPECIFICATION Spec
CONSTANTS
  Sessions <- Two
  Calls <- TwoUpdaters
  First <- MCFirst
  FirstCards <- MCFirstCards
  Oracles <- MCOracles
INVARIANT
  FilterAsAsked

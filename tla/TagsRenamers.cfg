SPECIFICATION Spec
CONSTANTS
  Sessions <- Two
  Calls <- TwoRenamers
  First <- MCFirst
  FirstCards <- MCFirstCards
  Oracles <- MCOracles
INVARIANT
  SidesFollow

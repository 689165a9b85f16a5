SPECIFICATION Spec
CONSTANTS
  Sessions <- Two
  Calls <- RenamedSweep
  First <- MCFirst
  FirstCards <- MCFirstCards
  Oracles <- MCOracles
PROPERTY
  VerdictsReachTheirTag

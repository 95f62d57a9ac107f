SPECIFICATION Spec
CONSTANTS
  Base = 256
  NumPorts = 2
  MaxPath = 4
  NotGmRank = 255
  QuickUpdate = FALSE
  Rank = 20
  ThisClock = 5
  Refused = {}
  Signalled = {}
  Lates = {"no", "announce"}
  Surroundings <- TwoPorts
INVARIANT OneSlave
INVARIANT NeighborsKnowGm
INVARIANT TypeOK
INVARIANT GmIsBest
INVARIANT Rests
INVARIANT PathEndsHere

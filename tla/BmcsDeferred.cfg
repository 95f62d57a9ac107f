SPECIFICATION Spec
CONSTANTS
  Base = 256
  NumPorts = 2
  MaxPath = 4
  NotGmRank = 255
  QuickUpdate = TRUE
  Rank = 20
  ThisClock = 5
  Refused = {2}
  Signalled = {2}
  Lates = {"no", "sync"}
  Surroundings <- ChangingMaster
INVARIANT NeighborsKnowGm
INVARIANT OnlyCapableAnnounces

SPECIFICATION FairSpec
CONSTANTS
  Kinds = {"reader", "client"}
  MaxUsers = 2
  MaxFaults = 3
  MaxChanges = 2
  QueueSize = 3
  Timeouts = 1
INVARIANT TypeOK
INVARIANT ReadsWhatIsLinked
INVARIANT MissesNothing
PROPERTY CatchesUp

SPECIFICATION Spec
CONSTANTS
  SeqMod = 4
  TxTsLost = 2
  CmldsMode = FALSE
  Worlds = {{}, {"gaps", "foreign", "mock", "fup"}}
INVARIANT TypeOK
INVARIANT RespIsOwn
INVARIANT FupIsOwn
PROPERTY FollowsResponse

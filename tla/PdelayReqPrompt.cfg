SPECIFICATION Spec
CONSTANTS
  SeqMod = 2
  TxTsLost = 1
  Interval = 2
  CeaseTime = 3
  AllowedLost = 2
  AllowedFaults = 0
  ConformToAvnu = TRUE
  CmldsMode = FALSE
  ComputeRateRatio = TRUE
  MaxDelay = 0
  SendResults = {"ok", "fail"}
  Delays = {"good", "high"}
  PeerMayStop = FALSE
  Duplicates = TRUE
  Strangers <- NoStrangers
INVARIANT TypeOK
INVARIANT SoundPropDelay
PROPERTY Paced
INVARIANT CapableWithinLost
PROPERTY Ceases

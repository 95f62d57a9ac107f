SPECIFICATION FairSpec
CONSTANTS
  SeqMod = 2
  TxTsLost = 1
  Interval = 2
  CeaseTime = 3
  AllowedLost = 1
  AllowedFaults = 0
  ConformToAvnu = FALSE
  CmldsMode = FALSE
  ComputeRateRatio = FALSE
  MaxDelay = 0
  SendResults = {"ok"}
  Delays = {"good"}
  PeerMayStop = TRUE
  Duplicates = FALSE
  Strangers <- NoStrangers
PROPERTY LostPeerNoticed

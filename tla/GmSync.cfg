SPECIFICATION FairSpec
CONSTANTS
  Others = {"A"}
  SecondNumber = 1
  AutoSwitches = {1, 2}
  SlaveTimes = {TRUE, FALSE}
INVARIANT TypeOK
INVARIANT ActiveIsStable
INVARIANT WeAreGmIsGm
PROPERTY KeepsPromise
PROPERTY DeferralEnds

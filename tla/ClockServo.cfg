SPECIFICATION Spec
CONSTANTS
  NewGm = 1000000
  Stable = 10000
  Unstable = 30000
  ByFreq = 100000
  TooBig = 100000000
  RateStable = 100
  RateUnstable = 1000
  UpdateRate = 10
  MaxAdjust = 1000000
  Transitions = 3
  AlphaStart = 2
  AlphaStable = 10
  Phases = {400000, 500000000}
  Steps = {5000000}
  Outliers = {300000, 2000000}
  Worlds <- Disturbed
INVARIANT PhaseKept
PROPERTY Locks

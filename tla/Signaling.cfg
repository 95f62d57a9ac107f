SPECIFICATION Spec
CONSTANTS
  Interval = 2
  Receipt = {0, 3}
  Initial = 1
  Requested = {2, 127}
  MaxLag = 2
  MaxTime = 6
INVARIANT TypeOK
INVARIANT NoDrift
INVARIANT IntervalAsked
PROPERTY Announced

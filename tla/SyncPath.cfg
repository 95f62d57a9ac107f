SPECIFICATION Spec
CONSTANTS
  NumPorts = 2
  Intervals = {2}
  OwnInterval = 2
  PortInterval <- Rates
  MaxAge = 7
INVARIANT TypeOK
INVARIANT OwnOnlyAsGm
PROPERTY FollowsSource

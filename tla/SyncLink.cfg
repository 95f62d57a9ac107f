SPECIFICATION Spec
CONSTANTS
  Drivers = {{"ok", "fail"}, {"mock", "fail"}}
  FaultModels = {{"wire"}, {"txts", "fup"}}
  MaxSync = 3
INVARIANT TypeOK
PROPERTY Implements
PROPERTY NoWaitForever
CHECK_DEADLOCK FALSE

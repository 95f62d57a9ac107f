SPECIFICATION Spec
CONSTANTS
  Base = 256
  Bytes = {246, 248}
  Words = {0, 1, 2}
  Variances = {17258, 20061}
INVARIANT LesserIsBetter
CHECK_DEADLOCK FALSE

CONSTANTS
  Lists = {"AIRPORT", "COUNTRY"}
  Coordinates <- Corners
  InitialSize = 5
  MaxSize = 10
  MaxLines = 9
SPECIFICATION Spec
CHECK_DEADLOCK FALSE
INVARIANTS
  InBounds
  Separated
  LossIsReported

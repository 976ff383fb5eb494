CONSTANTS
  Positions <- MCPositions
  Homes <- MCPositions
  Files <- MCFiles
  Reach = 10
  Stretch = {2, 5}
  OffsetSize = 8
SPECIFICATION Spec
INVARIANTS
  ScanIsRight
  FlightIsRight
CHECK_DEADLOCK FALSE

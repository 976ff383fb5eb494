CONSTANTS
  zero = zero
  field = field
  strip = strip
  kite = kite
  wren = wren
  NoId = NoId
  ZeroPos = zero
  Texts = {}
  Lists = {}
  Positions <- MCPositions
  Zones <- MCZones
  UasIds <- MCUasIds
  MaxAgeLocation = 0
  FailAge = 0
  MaxAgeOther = 0
  AgeCap = 1
  Messages <- PowerupMessages
  Configs <- PowerupConfigs
  Mounts = {TRUE}
  OtherFaults = {FALSE}
SPECIFICATION Spec
INVARIANT DefaultLocationIsSent

CONSTANTS
  zero = zero
  field = field
  strip = strip
  kite = kite
  wren = wren
  NoId = NoId
  ZeroPos = zero
  Texts = {}
  Lists = {"AIRPORT", "PRISON"}
  Positions <- MCPositions
  Zones <- MCZones
  UasIds <- MCUasIds
  MaxAgeLocation = 0
  FailAge = 0
  MaxAgeOther = 0
  AgeCap = 1
  Messages <- VerdictMessages
  Configs <- VerdictConfigs
  Mounts = {TRUE, FALSE}
  OtherFaults = {FALSE}
SPECIFICATION Spec
INVARIANTS
  VerdictsAgree
  GoodPackWasChecked
  GoodPackOutsideZones
  GoodPackNamesVehicle
  WebShowsRefusal
PROPERTY
  NoGoodWhileReading
